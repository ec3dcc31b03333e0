----------------------------- MODULE WorkerProofs -----------------------------
(***************************************************************************)
(* What works in the background: the publication of strategies, for any    *)
(* number of strategies, elements, requests and releases (StrategyStore,   *)
(* StrategySafe and ReleasesStand), and the collection of statistics, for  *)
(* any workers, accounts, slots and faults (StatsCollection,               *)
(* CollectionSafe).                                                        *)
(***************************************************************************)
EXTENDS StatsCollection, StrategyStore, FiniteSetTheorems, TLAPS

-------------------------------------------------------------------------------
(* Strategies *)


\* What a request may write was within the bounds when it was read.
RequestBounds == \A c \in Client :
  request[c].pc \in {"validate", "write", "repick"} => request[c].expected < MaxRevision

Typed == StrategyTypeOK /\ RequestBounds /\ IsFiniteSet(debug) /\ IsFiniteSet(release)

LEMMA Constants ==
  /\ MaxRevision \in Nat /\ MaxRevision > 0 /\ MaxRuns \in Nat /\ MaxSource \in Nat
  /\ MaxReleases \in Nat /\ "active" \in ElementStatus
  /\ (CHOOSE d \in Definition : TRUE) \in Definition
  /\ (CHOOSE p \in Page : TRUE) \in Page
  /\ (CHOOSE e \in ReadyElement : TRUE) \in ReadyElement
  /\ (CHOOSE s \in Strategy : TRUE) \in Strategy
  /\ NoStrategy \notin Strategy
  BY StrategyAssumption

LEMMA BlankTyped == Blank \in StrategyRow /\ NoRequest \in Requests /\ AnyDraft \in Draft
<1>1. Blank \in StrategyRow /\ AnyDraft \in Draft
  BY Constants DEF Blank, StrategyRow, AnyDraft, Draft
<1>2. NoRequest \in Requests
  BY <1>1, Constants DEF NoRequest, Requests
<1> QED BY <1>1, <1>2

\* A request that follows another one, with some of its fields set.
LEMMA RequestTyped ==
  ASSUME NEW r \in Requests
  PROVE  /\ r.pc \in {"idle", "validate", "write", "insert", "delete", "repick", "refs", "drop",
                      "record", "prepare"}
         /\ r.strategy \in Strategy /\ r.expected \in 0..MaxRevision /\ r.draft \in Draft
         /\ r.elements \in SUBSET Element /\ r.actions \in SUBSET ActionId /\ r.src \in Nat
  BY DEF Requests

LEMMA ContentTyped ==
  ASSUME StrategyTypeOK, NEW s \in Strategy
  PROVE  ContentOf(s) \in Document
<1>1. strategy[s] \in StrategyRow /\ \A e \in Element : element[e] \in ElementRow
  BY DEF StrategyTypeOK
<1>2. \A e \in Element : Unused(e) \in [status : ElementStatus \cup {"absent"},
                                        rev : 0..MaxRevision, def : Definition]
  BY Constants DEF Unused
<1>3. \A e \in Element : [status |-> element[e].status, rev |-> element[e].rev,
                          def |-> element[e].def] \in
        [status : ElementStatus \cup {"absent"}, rev : 0..MaxRevision, def : Definition]
  BY <1>1 DEF ElementRow
<1> QED BY <1>1, <1>2, <1>3 DEF ContentOf, Document, StrategyRow

LEMMA RefreshedTyped ==
  ASSUME StrategyTypeOK, NEW a \in ActionId, identity[a].strategy # NoStrategy
  PROVE  /\ Refreshed(a) \in Identity
         /\ Refreshed(a).src \in {identity[a].src, identity[a].src + 1}
         /\ Refreshed(a).sum = {ContentOf(identity[a].strategy)}
         /\ Refreshed(a).strategy = identity[a].strategy
         /\ Refreshed(a).used = identity[a].used /\ Refreshed(a).dead = identity[a].dead
         /\ identity[a].sum \notin {{}, {ContentOf(identity[a].strategy)}} =>
              Refreshed(a).src = identity[a].src + 1
         /\ identity[a].sum \in {{}, {ContentOf(identity[a].strategy)}} =>
              Refreshed(a).src = identity[a].src
<1>1. identity[a] \in Identity
  BY DEF StrategyTypeOK
<1>2. ContentOf(identity[a].strategy) \in Document
  BY <1>1, ContentTyped DEF Identity
<1> DEFINE sum == {ContentOf(identity[a].strategy)}
           src == IF identity[a].sum \notin {{}, sum} THEN identity[a].src + 1
                  ELSE identity[a].src
<1>3. sum \in SUBSET Document /\ src \in Nat /\ src \in {identity[a].src, identity[a].src + 1}
  BY <1>1, <1>2 DEF Identity
<1>4. Refreshed(a) = [identity[a] EXCEPT !.sum = sum, !.src = src]
  BY <1>1 DEF Refreshed, Identity
<1>5. /\ identity[a].sum \notin {{}, sum} => src = identity[a].src + 1
      /\ identity[a].sum \in {{}, sum} => src = identity[a].src
  OBVIOUS
<1> HIDE DEF src, sum
<1>6. /\ Refreshed(a) \in Identity /\ Refreshed(a).src = src /\ Refreshed(a).sum = sum
      /\ Refreshed(a).strategy = identity[a].strategy
      /\ Refreshed(a).used = identity[a].used /\ Refreshed(a).dead = identity[a].dead
  BY <1>1, <1>3, <1>4 DEF Identity
<1> QED BY <1>3, <1>5, <1>6 DEF sum

\* A step of one request leaves the others alone.
LEMMA GoesTyped ==
  ASSUME StrategyTypeOK, RequestBounds, NEW c \in Client, NEW r \in Requests, Goes(c, r),
         r.pc \in {"validate", "write", "repick"} => r.expected < MaxRevision
  PROVE  /\ request' \in [Client -> Requests] /\ RequestBounds'
         /\ request'[c] = r
         /\ \A d \in Client : d # c => request'[d] = request[d]
  BY DEF StrategyTypeOK, RequestBounds, Goes

LEMMA EndsTyped ==
  ASSUME StrategyTypeOK, RequestBounds, NEW c \in Client, Ends(c)
  PROVE  /\ request' \in [Client -> Requests] /\ RequestBounds'
         /\ request'[c] = NoRequest
         /\ \A d \in Client : d # c => request'[d] = request[d]
  BY BlankTyped, GoesTyped DEF Ends, NoRequest

-------------------------------------------------------------------------------
(* Types *)

LEMMA StratInitTyped == StratInit => Typed
<1> SUFFICES ASSUME StratInit PROVE Typed
  OBVIOUS
<1>1. element \in [Element -> ElementRow]
  BY Constants DEF StratInit, ElementRow, Unused
<1>2. strategy \in [Strategy -> StrategyRow] /\ request \in [Client -> Requests]
  BY BlankTyped DEF StratInit
<1>3. identity \in [ActionId -> Identity]
  BY DEF StratInit, Identity
<1>4. debug = {} /\ release = {} /\ IsFiniteSet({})
  BY FS_EmptySet DEF StratInit
<1>5. RequestBounds
  BY DEF StratInit, RequestBounds, NoRequest
<1> QED BY <1>1, <1>2, <1>3, <1>4, <1>5 DEF Typed, StrategyTypeOK

LEMMA ElementsTyped ==
  ASSUME Typed, ElementNext
  PROVE  Typed'
<1>1. /\ StrategyTypeOK /\ RequestBounds /\ IsFiniteSet(debug) /\ IsFiniteSet(release)
      /\ \A e \in Element : element[e] \in ElementRow
      /\ \A c \in Client : request[c] \in Requests
  BY DEF Typed, StrategyTypeOK
<1> USE DEF Typed, StrategyTypeOK
<1>2. ASSUME NEW e \in Element, CreateElement(e) PROVE Typed'
  <2>1. PICK d \in Definition :
          element' = [element EXCEPT ![e] = [status |-> "active", rev |-> 1, def |-> d,
                                             known |-> {1}]]
    BY <1>2 DEF CreateElement
  <2>2. [status |-> "active", rev |-> 1, def |-> d, known |-> {1}] \in ElementRow
    BY Constants DEF ElementRow
  <2> QED BY <1>2, <2>1, <2>2 DEF CreateElement, RequestBounds
<1>3. ASSUME NEW e \in Element, SetElementStatus(e) PROVE Typed'
  <2>1. PICK status \in ElementStatus : element' = [element EXCEPT ![e].status = status]
    BY <1>3 DEF SetElementStatus
  <2>2. [element[e] EXCEPT !.status = status] \in ElementRow
    BY <1>1 DEF ElementRow
  <2> QED BY <1>3, <2>1, <2>2 DEF SetElementStatus, RequestBounds
<1>4. ASSUME NEW c \in Client, NEW e \in Element, ReadForRepick(c, e) PROVE Typed'
  <2> DEFINE r == [NoRequest EXCEPT !.pc = "repick", !.elements = {e},
                                    !.expected = element[e].rev]
  <2>1. r \in Requests /\ r.expected = element[e].rev
    BY <1>1, BlankTyped DEF Requests, ElementRow
  <2> QED BY <1>1, <1>4, <2>1, GoesTyped DEF ReadForRepick
<1>5. ASSUME NEW c \in Client, NEW e \in Element, ReadForDelete(c, e) PROVE Typed'
  <2> DEFINE r == [NoRequest EXCEPT !.pc = "refs", !.elements = {e}]
  <2>1. r \in Requests /\ r.pc = "refs"
    BY BlankTyped DEF Requests
  <2> QED BY <1>1, <1>5, <2>1, GoesTyped DEF ReadForDelete
<1>6. ASSUME NEW c \in Client, Repick(c) PROVE Typed'
  <2> DEFINE new == request[c].expected + 1
  <2>1. new \in 1..MaxRevision
    BY <1>1, <1>6, Constants, RequestTyped DEF Repick, RequestBounds
  <2>2. PICK e \in request[c].elements, d \in Definition :
       element' =
         IF element[e].status = "absent" \/ new \in element[e].known THEN element
         ELSE IF element[e].rev # request[c].expected
         THEN [element EXCEPT ![e].known = @ \cup {new}]
         ELSE [element EXCEPT ![e] = [status |-> "active", rev |-> new, def |-> d,
                                      known |-> @.known \cup {new}]]
    BY <1>6 DEF Repick
  <2>3. e \in Element
    BY <1>1, RequestTyped
  <2>4. /\ [element[e] EXCEPT !.known = @ \cup {new}] \in ElementRow
        /\ [status |-> "active", rev |-> new, def |-> d, known |-> element[e].known \cup {new}]
             \in ElementRow
    BY <1>1, <2>1, <2>3, Constants DEF ElementRow
  <2>5. element' \in [Element -> ElementRow]
    BY <1>1, <2>2, <2>3, <2>4
  <2> QED BY <1>1, <1>6, <2>5, EndsTyped DEF Repick
<1>7. ASSUME NEW c \in Client, CheckReferences(c) PROVE Typed'
  <2> DEFINE r == [request[c] EXCEPT !.pc = "drop"]
  <2>1. r \in Requests /\ r.pc = "drop"
    BY <1>1 DEF Requests
  <2> QED BY <1>1, <1>7, <2>1, GoesTyped, EndsTyped DEF CheckReferences
<1>8. ASSUME NEW c \in Client, DeleteElement(c) PROVE Typed'
  <2>1. \A e \in Element :
          [status |-> "absent", rev |-> 0, def |-> Unused(e).def, known |-> {}] \in ElementRow
    BY Constants DEF ElementRow, Unused
  <2>2. element' \in [Element -> ElementRow]
    BY <1>1, <1>8, <2>1 DEF DeleteElement
  <2> QED BY <1>1, <1>8, <2>2, EndsTyped DEF DeleteElement
<1> QED BY <1>2, <1>3, <1>4, <1>5, <1>6, <1>7, <1>8 DEF ElementNext

LEMMA EditsTyped ==
  ASSUME Typed, EditNext
  PROVE  Typed'
<1>1. /\ StrategyTypeOK /\ RequestBounds /\ IsFiniteSet(debug) /\ IsFiniteSet(release)
      /\ \A s \in Strategy : strategy[s] \in StrategyRow /\ strategy[s].rev \in 0..MaxRevision
      /\ \A a \in ActionId : identity[a] \in Identity
      /\ \A c \in Client : request[c] \in Requests
  BY DEF Typed, StrategyTypeOK, StrategyRow
<1> USE DEF Typed, StrategyTypeOK
<1>2. ASSUME NEW c \in Client, NEW s \in Strategy, NEW draft \in Draft, ReadForCreate(c, s, draft)
      PROVE  Typed'
  <2> DEFINE r == [NoRequest EXCEPT !.pc = "insert", !.strategy = s, !.draft = draft]
  <2>1. r \in Requests /\ r.pc = "insert"
    BY BlankTyped DEF Requests
  <2> QED BY <1>1, <1>2, <2>1, GoesTyped DEF ReadForCreate
<1>3. ASSUME NEW c \in Client, CreateStrategy(c) PROVE Typed'
  <2> DEFINE s == request[c].strategy
             d == request[c].draft
             row == [rev |-> 1, page |-> d.page, ready |-> d.ready, acts |-> d.acts]
  <2>1. s \in Strategy /\ d \in Draft
    BY <1>1, RequestTyped
  <2>2. row \in StrategyRow
    BY <2>1, Constants DEF StrategyRow, Draft
  <2>3. CASE UNCHANGED <<strategy, identity>>
    BY <1>1, <1>3, <2>3, EndsTyped DEF CreateStrategy
  <2>4. ASSUME NEW a \in ActionId, strategy' = [strategy EXCEPT ![s] = row],
               identity' = [identity EXCEPT ![a].strategy = s, ![a].used = TRUE]
        PROVE  Typed'
    <3>1. [identity[a] EXCEPT !.strategy = s, !.used = TRUE] \in Identity
      BY <1>1, <2>1 DEF Identity
    <3>2. identity' = [identity EXCEPT ![a] = [identity[a] EXCEPT !.strategy = s, !.used = TRUE]]
      BY <2>4
    <3> QED BY <1>1, <1>3, <2>1, <2>2, <2>4, <3>1, <3>2, EndsTyped DEF CreateStrategy
  <2> QED BY <1>3, <2>3, <2>4 DEF CreateStrategy
<1>4. ASSUME NEW c \in Client, NEW s \in Strategy, NEW draft \in Draft, ReadForUpdate(c, s, draft)
      PROVE  Typed'
  <2> DEFINE r == [NoRequest EXCEPT !.pc = "validate", !.strategy = s, !.draft = draft,
                                    !.expected = strategy[s].rev]
  <2>1. r \in Requests /\ r.expected = strategy[s].rev
    BY <1>1, BlankTyped DEF Requests
  <2> QED BY <1>1, <1>4, <2>1, GoesTyped DEF ReadForUpdate
<1>5. ASSUME NEW c \in Client, Validate(c) PROVE Typed'
  <2> DEFINE r == [request[c] EXCEPT !.pc = "write"]
  <2>1. r \in Requests /\ r.expected < MaxRevision
    BY <1>1, <1>5 DEF Requests, Validate, RequestBounds
  <2> QED BY <1>1, <1>5, <2>1, GoesTyped, EndsTyped DEF Validate
<1>6. ASSUME NEW c \in Client, UpdateStrategy(c) PROVE Typed'
  <2> DEFINE s == request[c].strategy
             d == request[c].draft
  <2>1. s \in Strategy /\ d \in Draft /\ request[c].expected \in 0..MaxRevision
        /\ request[c].expected < MaxRevision
    BY <1>1, <1>6, RequestTyped DEF UpdateStrategy, RequestBounds
  <2>2. [strategy[s] EXCEPT !.acts = d.acts] \in StrategyRow
    BY <1>1, <2>1 DEF StrategyRow, Draft
  <2>3. strategy[s].rev = request[c].expected =>
          [rev |-> strategy[s].rev + 1, page |-> d.page, ready |-> d.ready, acts |-> d.acts]
            \in StrategyRow
    BY <1>1, <2>1, Constants DEF StrategyRow, Draft
  <2>4. strategy' \in [Strategy -> StrategyRow]
    BY <1>1, <1>6, <2>1, <2>2, <2>3 DEF UpdateStrategy
  <2> QED BY <1>1, <1>6, <2>4, EndsTyped DEF UpdateStrategy
<1>7. ASSUME NEW s \in Strategy, SetStrategyEnabled(s) PROVE Typed'
  <2>1. [strategy[s] EXCEPT !.rev = @ + 1] \in StrategyRow
    BY <1>1, <1>7, Constants DEF SetStrategyEnabled, StrategyRow
  <2> QED BY <1>1, <1>7, <2>1 DEF SetStrategyEnabled, RequestBounds
<1>8. ASSUME NEW c \in Client, NEW s \in Strategy, ReadForDeletion(c, s) PROVE Typed'
  <2> DEFINE r == [NoRequest EXCEPT !.pc = "delete", !.strategy = s, !.expected = strategy[s].rev,
                             !.actions = {a \in ActionId : identity[a].strategy = s}]
  <2>1. r \in Requests /\ r.pc = "delete"
    BY <1>1, BlankTyped DEF Requests
  <2> QED BY <1>1, <1>8, <2>1, GoesTyped DEF ReadForDeletion
<1>9. ASSUME NEW c \in Client, DeleteStrategy(c) PROVE Typed'
  <2> DEFINE s == request[c].strategy
  <2>1. s \in Strategy
    BY <1>1, RequestTyped
  <2>2. CASE UNCHANGED <<strategy, identity>>
    BY <1>1, <1>9, <2>2, EndsTyped DEF DeleteStrategy
  <2>3. CASE strategy[s].rev = request[c].expected
    <3>1. strategy' \in [Strategy -> StrategyRow]
      BY <1>9, <2>1, <2>3, BlankTyped DEF DeleteStrategy
    <3>2. ASSUME NEW a \in ActionId
          PROVE  [identity[a] EXCEPT
                    !.dead = @ \/ a \in request[c].actions,
                    !.strategy = IF @ = s THEN NoStrategy ELSE @] \in Identity
      <4> DEFINE dead == identity[a].dead \/ a \in request[c].actions
                 owner == IF identity[a].strategy = s THEN NoStrategy ELSE identity[a].strategy
      <4>1. dead \in BOOLEAN /\ owner \in Strategy \cup {NoStrategy}
        BY <1>1 DEF Identity
      <4> HIDE DEF dead, owner
      <4>2. [identity[a] EXCEPT !.dead = dead, !.strategy = owner] \in Identity
        BY <1>1, <4>1 DEF Identity
      <4> QED BY <4>2 DEF dead, owner
    <3>3. identity' = [a \in ActionId |->
               [identity[a] EXCEPT
                  !.dead = @ \/ a \in request[c].actions,
                  !.strategy = IF @ = s THEN NoStrategy ELSE @]]
      BY <1>9, <2>3, Zenon DEF DeleteStrategy
    <3>4. identity' \in [ActionId -> Identity]
      BY <3>2, <3>3, Zenon
    <3> QED BY <1>1, <1>9, <3>1, <3>4, EndsTyped DEF DeleteStrategy
  <2> QED BY <1>9, <2>2, <2>3 DEF DeleteStrategy
<1> QED BY <1>2, <1>3, <1>4, <1>5, <1>6, <1>7, <1>8, <1>9 DEF EditNext

LEMMA PublicationTyped ==
  ASSUME Typed, PublishNext
  PROVE  Typed'
<1>1. /\ StrategyTypeOK /\ RequestBounds /\ IsFiniteSet(debug) /\ IsFiniteSet(release)
      /\ \A a \in ActionId : identity[a] \in Identity
      /\ \A c \in Client : request[c] \in Requests
  BY DEF Typed, StrategyTypeOK
<1> USE DEF Typed, StrategyTypeOK
<1>2. ASSUME NEW c \in Client, NEW a \in ActionId, NEW pc \in {"record", "prepare"}, Look(c, a, pc)
      PROVE  Typed'
  <2>1. Refreshed(a) \in Identity /\ Refreshed(a).src \in Nat
    BY <1>1, <1>2, RefreshedTyped DEF Look, Identity
  <2> DEFINE r == [NoRequest EXCEPT !.pc = pc, !.actions = {a}, !.src = Refreshed(a).src,
                             !.strategy = identity[a].strategy]
  <2>2. identity[a].strategy \in Strategy
    BY <1>1, <1>2 DEF Look, Identity
  <2>3. r \in Requests /\ r.pc = pc
    BY <2>1, <2>2, BlankTyped DEF Requests
  <2> QED BY <1>1, <1>2, <2>1, <2>3, GoesTyped DEF Look
<1>3. ASSUME NEW c \in Client, BeginDebugRun(c) PROVE Typed'
  <2>1. CASE UNCHANGED <<identity, debug>>
    BY <1>1, <1>3, <2>1, EndsTyped DEF BeginDebugRun
  <2>2. ASSUME NEW a \in request[c].actions, Current(c, a),
               identity' = [identity EXCEPT ![a] = Refreshed(a)],
               debug' = debug \cup {[id |-> Cardinality(debug), action |-> a,
                                     src |-> request[c].src, sum |-> ContentOf(identity[a].strategy),
                                     status |-> "RUNNING"]}
        PROVE  Typed'
    <3>1. a \in ActionId /\ request[c].src \in Nat
      BY <1>1, RequestTyped
    <3>2. identity[a].strategy \in Strategy
      BY <1>1, <2>2, <3>1 DEF Current, Live, Identity
    <3>3. Refreshed(a) \in Identity /\ ContentOf(identity[a].strategy) \in Document
      BY <1>1, <3>1, <3>2, Constants, RefreshedTyped, ContentTyped
    <3>4. Cardinality(debug) \in Nat /\ IsFiniteSet(debug')
      BY <1>1, <2>2, FS_CardinalityType, FS_AddElement
    <3>5. [id |-> Cardinality(debug), action |-> a, src |-> request[c].src,
           sum |-> ContentOf(identity[a].strategy), status |-> "RUNNING"] \in DebugRow
      BY <3>1, <3>3, <3>4 DEF DebugRow
    <3> QED BY <1>1, <1>3, <2>2, <3>3, <3>4, <3>5, EndsTyped DEF BeginDebugRun
  <2> QED BY <1>3, <2>1, <2>2 DEF BeginDebugRun
<1>4. ASSUME NEW c \in Client, PrepareRelease(c) PROVE Typed'
  <2>1. CASE UNCHANGED <<identity, release>>
    BY <1>1, <1>4, <2>1, EndsTyped DEF PrepareRelease
  <2>2. ASSUME NEW a \in request[c].actions, NEW waive \in BOOLEAN, Current(c, a),
               identity' = [identity EXCEPT ![a] = Refreshed(a)],
               release' = release \cup
                     {[action |-> a, revision |-> Cardinality({r \in release : r.action = a}) + 1,
                       src |-> request[c].src, sum |-> ContentOf(identity[a].strategy),
                       validated |-> ~waive, central |-> 0]}
        PROVE  Typed'
    <3>1. a \in ActionId /\ request[c].src \in Nat
      BY <1>1, RequestTyped
    <3>2. identity[a].strategy \in Strategy
      BY <1>1, <2>2, <3>1 DEF Current, Live, Identity
    <3>3. Refreshed(a) \in Identity /\ ContentOf(identity[a].strategy) \in Document
      BY <1>1, <3>1, <3>2, Constants, RefreshedTyped, ContentTyped
    <3>4. IsFiniteSet(release') /\ Cardinality({r \in release : r.action = a}) \in Nat
      BY <1>1, <2>2, FS_CardinalityType, FS_AddElement, FS_Subset
    <3>5. [action |-> a, revision |-> Cardinality({r \in release : r.action = a}) + 1,
           src |-> request[c].src, sum |-> ContentOf(identity[a].strategy),
           validated |-> ~waive, central |-> 0] \in ReleaseRow
      BY <3>1, <3>3, <3>4 DEF ReleaseRow
    <3> QED BY <1>1, <1>4, <2>2, <3>3, <3>4, <3>5, EndsTyped DEF PrepareRelease
  <2> QED BY <1>4, <2>1, <2>2 DEF PrepareRelease
<1>5. ASSUME NEW d \in debug, CompleteDebugRun(d) PROVE Typed'
  <2>1. PICK status \in {"SUCCEEDED", "FAILED"} :
          debug' = (debug \ {d}) \cup {[d EXCEPT !.status = status]}
    BY <1>5 DEF CompleteDebugRun
  <2>2. [d EXCEPT !.status = status] \in DebugRow
    BY <1>1 DEF DebugRow
  <2>3. IsFiniteSet(debug')
    BY <1>1, <2>1, FS_RemoveElement, FS_AddElement
  <2> QED BY <1>5, <2>1, <2>2, <2>3 DEF CompleteDebugRun, RequestBounds
<1>6. ASSUME NEW r \in release, NEW central \in 1..2, MarkSynced(r, central) PROVE Typed'
  <2>1. [r EXCEPT !.central = central] \in ReleaseRow
    BY <1>1 DEF ReleaseRow
  <2>2. IsFiniteSet(release')
    BY <1>1, <1>6, FS_RemoveElement, FS_AddElement DEF MarkSynced
  <2> QED BY <1>6, <2>1, <2>2 DEF MarkSynced, RequestBounds
<1> QED BY <1>2, <1>3, <1>4, <1>5, <1>6 DEF PublishNext

LEMMA StratTypes == StratSpec => []Typed
<1>1. Typed /\ [StratNext]_stratVars => Typed'
  <2> SUFFICES ASSUME Typed, [StratNext]_stratVars PROVE Typed'
    OBVIOUS
  <2>1. CASE UNCHANGED stratVars
    BY <2>1 DEF stratVars, Typed, StrategyTypeOK, RequestBounds
  <2> QED BY <2>1, ElementsTyped, EditsTyped, PublicationTyped DEF StratNext
<1> QED BY <1>1, StratInitTyped, PTL DEF StratSpec

-------------------------------------------------------------------------------
(* Identities *)

\* One action id belongs to one strategy that exists, and it is not dead; the ids that a
\* deletion has read can only have lost their strategy since, because an id is used once.
Owned ==
  /\ \A a \in ActionId : identity[a].strategy # NoStrategy => identity[a].used /\ ~identity[a].dead
  /\ \A a \in ActionId : identity[a].dead => identity[a].used
  /\ \A a, b \in ActionId :
       identity[a].strategy = identity[b].strategy /\ identity[a].strategy # NoStrategy => a = b
  /\ \A s \in Strategy : Exists(s) <=> \E a \in ActionId : identity[a].strategy = s
  /\ \A c \in Client : request[c].pc = "delete" => \A a \in request[c].actions :
       identity[a].used /\ identity[a].strategy \in {NoStrategy, request[c].strategy}

\* What a deletion has in mind it has just read.
ReadsOwners == \A c \in Client :
  \/ request'[c] = request[c]
  \/ request'[c].pc # "delete"
  \/ /\ request'[c].strategy \in Strategy
     /\ request'[c].actions = {a \in ActionId : identity[a].strategy = request'[c].strategy}

\* No strategy comes or goes.
SameOwners ==
  /\ \A a \in ActionId : /\ identity'[a].strategy = identity[a].strategy
                         /\ identity'[a].used = identity[a].used
                         /\ identity'[a].dead = identity[a].dead
  /\ \A s \in Strategy : strategy'[s].rev = 0 <=> strategy[s].rev = 0

LEMMA OwnersKept ==
  ASSUME Typed, Typed', Owned, ReadsOwners, SameOwners
  PROVE  Owned'
<1>1. /\ \A c \in Client : request[c].actions \in SUBSET ActionId
      /\ \A c \in Client : request'[c].actions \in SUBSET ActionId
  BY RequestTyped DEF Typed, StrategyTypeOK, Requests
<1>2. \A c \in Client : request'[c].pc = "delete" => \A a \in request'[c].actions :
       identity'[a].used /\ identity'[a].strategy \in {NoStrategy, request'[c].strategy}
  BY <1>1, Constants DEF Owned, ReadsOwners, SameOwners
<1> QED BY <1>2 DEF Owned, SameOwners, Exists

LEMMA ElementsKeepOwners ==
  ASSUME Typed, ElementNext
  PROVE  ReadsOwners /\ SameOwners
<1> USE BlankTyped, GoesTyped, EndsTyped DEF Typed, StrategyTypeOK
<1>1. UNCHANGED <<strategy, identity>>
  BY DEF ElementNext, CreateElement, SetElementStatus, ReadForRepick, ReadForDelete, Repick,
         CheckReferences, DeleteElement
<1>2. SameOwners
  BY <1>1 DEF SameOwners
<1>3. ASSUME NEW c \in Client, NEW r \in Requests, r.pc # "delete", Goes(c, r)
      PROVE  ReadsOwners
  BY <1>3 DEF ReadsOwners, Goes
<1>4. ASSUME NEW c \in Client, Ends(c)
      PROVE  ReadsOwners
  BY <1>4, <1>3 DEF Ends, NoRequest
<1>5. ASSUME NEW c \in Client, NEW e \in Element, ReadForRepick(c, e) \/ ReadForDelete(c, e)
      PROVE  ReadsOwners
  <2>1. element[e].rev \in 0..MaxRevision
    BY DEF ElementRow
  <2>2. /\ [NoRequest EXCEPT !.pc = "repick", !.elements = {e}, !.expected = element[e].rev]
             \in Requests
        /\ [NoRequest EXCEPT !.pc = "refs", !.elements = {e}] \in Requests
    BY <2>1 DEF Requests
  <2>3. /\ [NoRequest EXCEPT !.pc = "repick", !.elements = {e}, !.expected = element[e].rev].pc
             = "repick"
        /\ [NoRequest EXCEPT !.pc = "refs", !.elements = {e}].pc = "refs"
    BY DEF NoRequest
  <2> QED BY <1>3, <1>5, <2>2, <2>3 DEF ReadForRepick, ReadForDelete
<1>6. ASSUME NEW c \in Client, CheckReferences(c) PROVE ReadsOwners
  <2>1. [request[c] EXCEPT !.pc = "drop"] \in Requests /\ [request[c] EXCEPT !.pc = "drop"].pc = "drop"
    BY DEF Requests
  <2> QED BY <1>3, <1>4, <1>6, <2>1 DEF CheckReferences
<1>7. ASSUME NEW c \in Client, Repick(c) \/ DeleteElement(c) PROVE ReadsOwners
  BY <1>4, <1>7 DEF Repick, DeleteElement
<1>8. ASSUME NEW e \in Element, CreateElement(e) \/ SetElementStatus(e) PROVE ReadsOwners
  BY <1>8 DEF CreateElement, SetElementStatus, ReadsOwners
<1> QED BY <1>2, <1>5, <1>6, <1>7, <1>8 DEF ElementNext

LEMMA EditsKeepOwners ==
  ASSUME Typed, Typed', Owned, EditNext
  PROVE  Owned'
<1> USE DEF Typed, StrategyTypeOK
<1>0. /\ \A s \in Strategy : strategy[s] \in StrategyRow /\ strategy[s].rev \in 0..MaxRevision
      /\ \A a \in ActionId : identity[a] \in Identity
      /\ \A c \in Client : request[c] \in Requests
  BY DEF StrategyRow
<1>1. ASSUME NEW c \in Client, NEW r \in Requests, r.pc # "delete", Goes(c, r)
      PROVE  ReadsOwners
  BY <1>1 DEF ReadsOwners, Goes
<1>2. ASSUME NEW c \in Client, Ends(c)
      PROVE  ReadsOwners
  BY <1>2, <1>1, BlankTyped DEF Ends, NoRequest
<1>3. UNCHANGED <<strategy, identity>> => SameOwners
  BY DEF SameOwners
<1>4. ASSUME NEW c \in Client, NEW s \in Strategy, NEW draft \in Draft, ReadForCreate(c, s, draft)
      PROVE  Owned'
  <2> DEFINE r == [NoRequest EXCEPT !.pc = "insert", !.strategy = s, !.draft = draft]
  <2>1. r \in Requests /\ r.pc = "insert"
    BY BlankTyped DEF Requests
  <2> QED BY <1>1, <1>3, <1>4, <2>1, OwnersKept DEF ReadForCreate
<1>5. ASSUME NEW c \in Client, NEW s \in Strategy, NEW draft \in Draft, ReadForUpdate(c, s, draft)
      PROVE  Owned'
  <2> DEFINE r == [NoRequest EXCEPT !.pc = "validate", !.strategy = s, !.draft = draft,
                                    !.expected = strategy[s].rev]
  <2>1. r \in Requests /\ r.pc = "validate"
    BY <1>0, BlankTyped DEF Requests
  <2> QED BY <1>1, <1>3, <1>5, <2>1, OwnersKept DEF ReadForUpdate
<1>6. ASSUME NEW c \in Client, Validate(c) PROVE Owned'
  <2>1. [request[c] EXCEPT !.pc = "write"] \in Requests /\ [request[c] EXCEPT !.pc = "write"].pc = "write"
    BY <1>0 DEF Requests
  <2> QED BY <1>1, <1>2, <1>3, <1>6, <2>1, OwnersKept DEF Validate
<1>7. ASSUME NEW c \in Client, UpdateStrategy(c) PROVE Owned'
  <2> DEFINE s == request[c].strategy
  <2>1. s \in Strategy /\ request[c].expected \in 0..MaxRevision
    BY <1>0, RequestTyped
  <2>2. \A t \in Strategy : strategy'[t].rev = 0 <=> strategy[t].rev = 0
    BY <1>0, <1>7, <2>1 DEF UpdateStrategy, Exists, StrategyRow
  <2>3. SameOwners
    BY <1>7, <2>2 DEF UpdateStrategy, SameOwners
  <2> QED BY <1>2, <1>7, <2>3, OwnersKept DEF UpdateStrategy
<1>8. ASSUME NEW s \in Strategy, SetStrategyEnabled(s) PROVE Owned'
  <2>1. \A t \in Strategy : strategy'[t].rev = 0 <=> strategy[t].rev = 0
    BY <1>0, <1>8 DEF SetStrategyEnabled, Exists, StrategyRow
  <2>2. SameOwners /\ ReadsOwners
    BY <1>8, <2>1 DEF SetStrategyEnabled, SameOwners, ReadsOwners
  <2> QED BY <2>2, OwnersKept
<1>9. ASSUME NEW c \in Client, NEW s \in Strategy, ReadForDeletion(c, s) PROVE Owned'
  <2> DEFINE r == [NoRequest EXCEPT !.pc = "delete", !.strategy = s, !.expected = strategy[s].rev,
                             !.actions = {a \in ActionId : identity[a].strategy = s}]
  <2>1. r \in Requests /\ r.strategy = s /\ r.actions = {a \in ActionId : identity[a].strategy = s}
    BY <1>0, BlankTyped DEF Requests
  <2>2. Goes(c, r)
    BY <1>9 DEF ReadForDeletion
  <2> HIDE DEF r
  <2>3. ReadsOwners
    BY <2>1, <2>2 DEF ReadsOwners, Goes
  <2> QED BY <1>3, <1>9, <2>3, OwnersKept DEF ReadForDeletion
<1>10. ASSUME NEW c \in Client, CreateStrategy(c) PROVE Owned'
  <2> DEFINE s == request[c].strategy
             d == request[c].draft
             row == [rev |-> 1, page |-> d.page, ready |-> d.ready, acts |-> d.acts]
  <2>1. s \in Strategy /\ s # NoStrategy
    BY <1>0, RequestTyped, Constants
  <2>2. CASE UNCHANGED <<strategy, identity>>
    BY <1>2, <1>3, <1>10, <2>2, OwnersKept DEF CreateStrategy
  <2>3. ASSUME NEW a \in ActionId, ~identity[a].used, ~Exists(s),
               strategy' = [strategy EXCEPT ![s] = row],
               identity' = [identity EXCEPT ![a].strategy = s, ![a].used = TRUE]
        PROVE  Owned'
    <3>1. /\ identity'[a].strategy = s /\ identity'[a].used /\ identity'[a].dead = identity[a].dead
          /\ \A b \in ActionId \ {a} : identity'[b] = identity[b]
      BY <1>0, <2>3 DEF Identity
    <3>2. strategy'[s].rev = 1 /\ \A t \in Strategy \ {s} : strategy'[t] = strategy[t]
      BY <2>1, <2>3
    <3>3. \A b \in ActionId : identity[b].strategy # s
      BY <2>1, <2>3 DEF Owned
    <3>4. request'[c].pc = "idle" /\ \A e \in Client \ {c} : request'[e] = request[e]
      BY <1>10, EndsTyped DEF CreateStrategy, NoRequest
    <3>5. \A e \in Client : request[e].actions \in SUBSET ActionId
      BY <1>0, RequestTyped
    <3>6. \A e \in Client : request'[e].pc = "delete" => \A b \in request'[e].actions :
            identity'[b].used /\ identity'[b].strategy \in {NoStrategy, request'[e].strategy}
      BY <2>3, <3>1, <3>4, <3>5 DEF Owned
    <3>7. ~identity[a].dead
      BY <2>3, Zenon DEF Owned
    <3>8. \A b \in ActionId : identity'[b].dead => identity'[b].used
      BY <3>1, Zenon DEF Owned
    <3>9. \A b \in ActionId : identity'[b].strategy # NoStrategy =>
            identity'[b].used /\ ~identity'[b].dead
      BY <3>1, <3>7, Zenon DEF Owned
    <3>10. \A t \in Strategy : Exists(t)' <=> \E b \in ActionId : identity'[b].strategy = t
      <4>1. identity[a].strategy = NoStrategy
        BY <2>3, Zenon DEF Owned
      <4>2. ASSUME NEW t \in Strategy, t # s
            PROVE  Exists(t)' <=> \E b \in ActionId : identity'[b].strategy = t
        BY <2>1, <3>1, <3>2, <4>1, <4>2, Constants DEF Owned, Exists
      <4>3. strategy'[s].rev # 0 /\ \E b \in ActionId : identity'[b].strategy = s
        BY <2>1, <3>1, <3>2
      <4> QED BY <2>1, <4>2, <4>3 DEF Exists
    <3>11. \A b, e \in ActionId :
       identity'[b].strategy = identity'[e].strategy /\ identity'[b].strategy # NoStrategy => b = e
      BY <3>1, <3>3 DEF Owned
    <3> QED BY <3>6, <3>8, <3>9, <3>10, <3>11 DEF Owned
  <2> QED BY <1>10, <2>2, <2>3 DEF CreateStrategy
<1>11. ASSUME NEW c \in Client, DeleteStrategy(c) PROVE Owned'
  <2> DEFINE s == request[c].strategy
  <2>1. s \in Strategy /\ s # NoStrategy
    BY <1>0, RequestTyped, Constants
  <2>2. CASE UNCHANGED <<strategy, identity>>
    BY <1>2, <1>3, <1>11, <2>2, OwnersKept DEF DeleteStrategy
  <2>3. CASE strategy[s].rev = request[c].expected
    <3>1. strategy' = [strategy EXCEPT ![s] = Blank]
      BY <1>11, <2>3 DEF DeleteStrategy
    <3>2. strategy'[s].rev = 0 /\ \A t \in Strategy \ {s} : strategy'[t] = strategy[t]
      BY <2>1, <3>1 DEF Blank
    <3>3. ASSUME NEW a \in ActionId
          PROVE  /\ identity'[a].used = identity[a].used
                 /\ identity'[a].strategy =
                      IF identity[a].strategy = s THEN NoStrategy ELSE identity[a].strategy
                 /\ identity'[a].dead <=> identity[a].dead \/ a \in request[c].actions
      <4> DEFINE dead == identity[a].dead \/ a \in request[c].actions
                 owner == IF identity[a].strategy = s THEN NoStrategy ELSE identity[a].strategy
      <4>1. identity'[a] = [identity[a] EXCEPT
                  !.dead = @ \/ a \in request[c].actions,
                  !.strategy = IF @ = s THEN NoStrategy ELSE @]
        BY <1>11, <2>3, Zenon DEF DeleteStrategy
      <4>2. identity'[a] = [identity[a] EXCEPT !.dead = dead, !.strategy = owner]
        BY <4>1
      <4> HIDE DEF dead, owner
      <4>3. identity'[a].used = identity[a].used /\ identity'[a].strategy = owner
            /\ identity'[a].dead = dead
        BY <1>0, <4>2 DEF Identity
      <4> QED BY <4>3 DEF dead, owner
    <3>4. \A a \in request[c].actions : identity[a].strategy \in {NoStrategy, s}
      BY <1>11 DEF Owned, DeleteStrategy
    <3>5. request'[c].pc = "idle" /\ \A e \in Client \ {c} : request'[e] = request[e]
      <4>1. Ends(c)
        BY <1>11 DEF DeleteStrategy
      <4> QED BY <4>1, EndsTyped DEF NoRequest
    <3>6. \A e \in Client : request[e].actions \in SUBSET ActionId
      BY <1>0, RequestTyped
    <3>7. \A e \in Client : request'[e].pc = "delete" => \A b \in request'[e].actions :
            identity'[b].used /\ identity'[b].strategy \in {NoStrategy, request'[e].strategy}
      BY <3>3, <3>5, <3>6 DEF Owned
    <3>8. \A a \in ActionId : identity'[a].strategy # NoStrategy =>
            /\ identity'[a].strategy = identity[a].strategy /\ identity[a].strategy # s
            /\ identity'[a].used /\ ~identity'[a].dead
      BY <2>1, <3>3, <3>4 DEF Owned
    <3>9. \A t \in Strategy : Exists(t)' <=> \E a \in ActionId : identity'[a].strategy = t
      BY <2>1, <3>2, <3>3, Constants DEF Owned, Exists
    <3>10. \A a \in request[c].actions : identity[a].used
      BY <1>11 DEF Owned, DeleteStrategy
    <3>11. \A a \in ActionId : identity'[a].dead => identity'[a].used
      BY <3>3, <3>4, <3>10, Zenon DEF Owned
    <3> QED BY <3>7, <3>8, <3>9, <3>11 DEF Owned
  <2> QED BY <1>11, <2>2, <2>3 DEF DeleteStrategy
<1> QED BY <1>4, <1>5, <1>6, <1>7, <1>8, <1>9, <1>10, <1>11 DEF EditNext

LEMMA PublicationKeepsOwners ==
  ASSUME Typed, Typed', Owned, PublishNext
  PROVE  Owned'
<1> USE DEF Typed, StrategyTypeOK
<1>0. /\ \A a \in ActionId : identity[a] \in Identity
      /\ \A c \in Client : request[c] \in Requests
  OBVIOUS
<1>1. ASSUME NEW c \in Client, Ends(c)
      PROVE  ReadsOwners
  BY <1>1, BlankTyped DEF Ends, NoRequest, ReadsOwners, Goes
<1>2. UNCHANGED <<strategy, identity>> => SameOwners
  BY DEF SameOwners
<1>3. ASSUME NEW a \in ActionId, identity[a].strategy # NoStrategy, UNCHANGED strategy,
             identity' = [identity EXCEPT ![a] = Refreshed(a)]
      PROVE  SameOwners
  BY <1>3, RefreshedTyped DEF SameOwners
<1>4. ASSUME NEW c \in Client, NEW a \in ActionId, NEW pc \in {"record", "prepare"}, Look(c, a, pc)
      PROVE  Owned'
  <2> DEFINE r == [NoRequest EXCEPT !.pc = pc, !.actions = {a}, !.src = Refreshed(a).src,
                             !.strategy = identity[a].strategy]
  <2>1. r.pc # "delete"
    BY DEF NoRequest
  <2>2. Goes(c, r)
    BY <1>4 DEF Look
  <2> HIDE DEF r
  <2>3. ReadsOwners
    BY <2>1, <2>2 DEF ReadsOwners, Goes
  <2> QED BY <1>3, <1>4, <2>3, OwnersKept DEF Look
<1>5. ASSUME NEW c \in Client, BeginDebugRun(c) PROVE Owned'
  <2>1. SameOwners
    BY <1>0, <1>2, <1>3, <1>5, RequestTyped DEF BeginDebugRun, Current, Live
  <2> QED BY <1>1, <1>5, <2>1, OwnersKept DEF BeginDebugRun
<1>6. ASSUME NEW c \in Client, PrepareRelease(c) PROVE Owned'
  <2>1. SameOwners
    BY <1>0, <1>2, <1>3, <1>6, RequestTyped DEF PrepareRelease, Current, Live
  <2> QED BY <1>1, <1>6, <2>1, OwnersKept DEF PrepareRelease
<1>7. ASSUME NEW d \in debug, CompleteDebugRun(d) PROVE Owned'
  BY <1>2, <1>7, OwnersKept DEF CompleteDebugRun, ReadsOwners
<1>8. ASSUME NEW r \in release, NEW central \in 1..2, MarkSynced(r, central) PROVE Owned'
  BY <1>2, <1>8, OwnersKept DEF MarkSynced, ReadsOwners
<1> QED BY <1>4, <1>5, <1>6, <1>7, <1>8 DEF PublishNext

LEMMA OwnedInvariant == StratSpec => []Owned
<1>1. StratInit => Owned
  <2> SUFFICES ASSUME StratInit PROVE Owned
    OBVIOUS
  <2>1. /\ \A a \in ActionId : identity[a].strategy = NoStrategy
        /\ \A a \in ActionId : identity[a].dead = FALSE
        /\ \A s \in Strategy : ~Exists(s)
        /\ \A c \in Client : request[c].pc = "idle"
    BY DEF StratInit, Exists, Blank, NoRequest
  <2> QED BY <2>1, Constants DEF Owned
<1>2. Typed /\ Typed' /\ Owned /\ [StratNext]_stratVars => Owned'
  <2> SUFFICES ASSUME Typed, Typed', Owned, [StratNext]_stratVars PROVE Owned'
    OBVIOUS
  <2>1. CASE UNCHANGED stratVars
    BY <2>1 DEF stratVars, Owned, Exists
  <2> QED BY <2>1, ElementsKeepOwners, OwnersKept, EditsKeepOwners, PublicationKeepsOwners
          DEF StratNext
<1> QED BY <1>1, <1>2, StratTypes, PTL DEF StratSpec

LEMMA OwnedIsOne == Typed /\ Owned => OneIdentityEach
<1> SUFFICES ASSUME Typed, Owned PROVE OneIdentityEach
  OBVIOUS
<1>1. ASSUME NEW s \in Strategy
      PROVE  Exists(s) <=> Cardinality({a \in ActionId : identity[a].strategy = s}) = 1
  <2> DEFINE mine == {a \in ActionId : identity[a].strategy = s}
  <2>1. CASE Exists(s)
    <3>1. PICK a \in ActionId : identity[a].strategy = s
      BY <2>1 DEF Owned
    <3>2. mine = {a}
      BY <3>1, Constants DEF Owned
    <3> QED BY <2>1, <3>2, FS_Singleton
  <2>2. CASE ~Exists(s)
    <3>1. mine = {}
      BY <2>2 DEF Owned
    <3> QED BY <2>2, <3>1, FS_EmptySet
  <2> QED BY <2>1, <2>2
<1> QED BY <1>1, Zenon DEF Owned, OneIdentityEach

-------------------------------------------------------------------------------
(* Contents *)

\* A debug run or a release says that source revision n of an action is this content.
Says(a, n, sum) ==
  \/ \E d \in debug : d.action = a /\ d.src = n /\ d.sum = sum
  \/ \E r \in release : r.action = a /\ r.src = n /\ r.sum = sum

\* They agree with each other, and with the identity if they are about its revision.
Agreed ==
  /\ \A a \in ActionId, n \in Nat, x, y \in Document : Says(a, n, x) /\ Says(a, n, y) => x = y
  /\ \A a \in ActionId, n \in Nat, x \in Document : Says(a, n, x) =>
       n <= identity[a].src /\ (n = identity[a].src => identity[a].sum = {x})
  /\ \A a \in ActionId : \A x, y \in identity[a].sum : x = y

\* A step keeps a source revision and its content, or names the content of a revision
\* that had none, or begins another revision.
Renamed == \A a \in ActionId :
  \/ identity'[a].src = identity[a].src /\ identity'[a].sum = identity[a].sum
  \/ /\ identity'[a].src = identity[a].src /\ identity[a].sum = {}
     /\ \E x \in Document : identity'[a].sum = {x}
  \/ identity'[a].src = identity[a].src + 1 /\ \E x \in Document : identity'[a].sum = {x}

\* What is said after a step was said before it, or is what the identity now is.
SaysNothingElse == \A a \in ActionId, n \in Nat, x \in Document :
  Says(a, n, x)' => Says(a, n, x) \/ (n = identity'[a].src /\ identity'[a].sum = {x})

LEMMA AgreedKept ==
  ASSUME Typed, Typed', Agreed, Renamed, SaysNothingElse
  PROVE  Agreed'
<1>0. \A a \in ActionId : /\ identity[a].src \in Nat /\ identity[a].sum \subseteq Document
                          /\ identity'[a].src \in Nat /\ identity'[a].sum \subseteq Document
  BY DEF Typed, StrategyTypeOK, Identity
<1>1. \A a \in ActionId : \A x, y \in identity'[a].sum : x = y
  BY DEF Agreed, Renamed
<1>2. ASSUME NEW a \in ActionId, NEW n \in Nat, NEW x \in Document, Says(a, n, x)
      PROVE  n <= identity'[a].src /\ (n = identity'[a].src => identity'[a].sum = {x})
  <2>1. n <= identity[a].src /\ (n = identity[a].src => identity[a].sum = {x})
    BY <1>2 DEF Agreed
  <2> QED BY <1>0, <2>1 DEF Renamed
<1>3. ASSUME NEW a \in ActionId, NEW n \in Nat, NEW x \in Document, Says(a, n, x)'
      PROVE  n <= identity'[a].src /\ (n = identity'[a].src => identity'[a].sum = {x})
  BY <1>0, <1>2, <1>3 DEF SaysNothingElse
<1>4. ASSUME NEW a \in ActionId, NEW n \in Nat, NEW x \in Document, NEW y \in Document,
             Says(a, n, x)', Says(a, n, y)'
      PROVE  x = y
  <2>1. CASE n = identity'[a].src
    BY <1>3, <1>4, <2>1
  <2>2. CASE n # identity'[a].src
    BY <1>4, <2>2 DEF SaysNothingElse, Agreed
  <2> QED BY <2>1, <2>2
<1> QED BY <1>1, <1>3, <1>4 DEF Agreed

LEMMA RefreshedRenames ==
  ASSUME Typed, Agreed, NEW a \in ActionId, identity[a].strategy # NoStrategy,
         identity' = [identity EXCEPT ![a] = Refreshed(a)]
  PROVE  /\ Renamed
         /\ identity'[a].sum = {ContentOf(identity[a].strategy)}
         /\ identity'[a].src = Refreshed(a).src
<1>1. /\ StrategyTypeOK /\ identity \in [ActionId -> Identity] /\ identity[a] \in Identity
      /\ identity[a].strategy \in Strategy
  BY DEF Typed, StrategyTypeOK, Identity
<1>2. ContentOf(identity[a].strategy) \in Document
  BY <1>1, ContentTyped
<1>3. identity'[a] = Refreshed(a) /\ \A b \in ActionId \ {a} : identity'[b] = identity[b]
  BY <1>1
<1>4. identity[a].sum # {} =>
        \/ identity'[a].src = identity[a].src /\ identity'[a].sum = identity[a].sum
        \/ identity'[a].src = identity[a].src + 1
  BY <1>1, <1>3, RefreshedTyped
<1>5. identity[a].sum = {} => identity'[a].src = identity[a].src
  BY <1>1, <1>3, RefreshedTyped
<1>6. identity'[a].sum = {ContentOf(identity[a].strategy)}
  BY <1>1, <1>3, RefreshedTyped
<1> QED BY <1>2, <1>3, <1>4, <1>5, <1>6 DEF Renamed

LEMMA PublicationAgrees ==
  ASSUME Typed, Typed', Agreed, PublishNext
  PROVE  Agreed'
<1> USE DEF Typed, StrategyTypeOK
<1>0. /\ \A a \in ActionId : identity[a] \in Identity
      /\ \A c \in Client : request[c] \in Requests
      /\ \A d \in debug : d \in DebugRow
      /\ \A r \in release : r \in ReleaseRow
  OBVIOUS
<1>1. ASSUME NEW c \in Client, NEW a \in ActionId, NEW pc \in {"record", "prepare"}, Look(c, a, pc)
      PROVE  Agreed'
  BY <1>1, RefreshedRenames, AgreedKept DEF Look, SaysNothingElse, Says
<1>2. ASSUME NEW c \in Client, BeginDebugRun(c) PROVE Agreed'
  <2>1. CASE UNCHANGED <<identity, debug>>
    BY <1>2, <2>1, AgreedKept DEF BeginDebugRun, Renamed, SaysNothingElse, Says
  <2>2. ASSUME NEW a \in request[c].actions, Current(c, a),
               identity' = [identity EXCEPT ![a] = Refreshed(a)],
               debug' = debug \cup {[id |-> Cardinality(debug), action |-> a,
                                     src |-> request[c].src, sum |-> ContentOf(identity[a].strategy),
                                     status |-> "RUNNING"]}
        PROVE  Agreed'
    <3>1. a \in ActionId /\ identity[a].strategy # NoStrategy /\ Refreshed(a).src = request[c].src
      BY <1>0, <2>2, RequestTyped DEF Current, Live
    <3>2. Renamed /\ identity'[a].sum = {ContentOf(identity[a].strategy)}
          /\ identity'[a].src = request[c].src
      BY <2>2, <3>1, RefreshedRenames
    <3>3. SaysNothingElse
      BY <1>2, <2>2, <3>2 DEF BeginDebugRun, SaysNothingElse, Says
    <3> QED BY <3>2, <3>3, AgreedKept
  <2> QED BY <1>2, <2>1, <2>2 DEF BeginDebugRun
<1>3. ASSUME NEW c \in Client, PrepareRelease(c) PROVE Agreed'
  <2>1. CASE UNCHANGED <<identity, release>>
    BY <1>3, <2>1, AgreedKept DEF PrepareRelease, Renamed, SaysNothingElse, Says
  <2>2. ASSUME NEW a \in request[c].actions, NEW waive \in BOOLEAN, Current(c, a),
               identity' = [identity EXCEPT ![a] = Refreshed(a)],
               release' = release \cup
                     {[action |-> a, revision |-> Cardinality({r \in release : r.action = a}) + 1,
                       src |-> request[c].src, sum |-> ContentOf(identity[a].strategy),
                       validated |-> ~waive, central |-> 0]}
        PROVE  Agreed'
    <3>1. a \in ActionId /\ identity[a].strategy # NoStrategy /\ Refreshed(a).src = request[c].src
      BY <1>0, <2>2, RequestTyped DEF Current, Live
    <3>2. Renamed /\ identity'[a].sum = {ContentOf(identity[a].strategy)}
          /\ identity'[a].src = request[c].src
      BY <2>2, <3>1, RefreshedRenames
    <3> DEFINE row == [action |-> a, revision |-> Cardinality({r \in release : r.action = a}) + 1,
                       src |-> request[c].src, sum |-> ContentOf(identity[a].strategy),
                       validated |-> ~waive, central |-> 0]
    <3>4. row.action = a /\ row.src = request[c].src /\ row.sum = ContentOf(identity[a].strategy)
      OBVIOUS
    <3>5. \A r \in release' : r \in release \/ r = row
      BY <2>2
    <3> HIDE DEF row
    <3>3. SaysNothingElse
      BY <1>3, <3>2, <3>4, <3>5 DEF PrepareRelease, SaysNothingElse, Says
    <3> QED BY <3>2, <3>3, AgreedKept
  <2> QED BY <1>3, <2>1, <2>2 DEF PrepareRelease
<1>4. ASSUME NEW d \in debug, CompleteDebugRun(d) PROVE Agreed'
  <2>1. PICK status \in {"SUCCEEDED", "FAILED"} :
          debug' = (debug \ {d}) \cup {[d EXCEPT !.status = status]}
    BY <1>4 DEF CompleteDebugRun
  <2> DEFINE n == [d EXCEPT !.status = status]
  <2>2. n.action = d.action /\ n.src = d.src /\ n.sum = d.sum
    BY <1>0 DEF DebugRow
  <2> HIDE DEF n
  <2>3. \A b \in debug' : b \in debug \/ b = n
    BY <2>1 DEF n
  <2>4. SaysNothingElse
    BY <1>4, <2>2, <2>3 DEF CompleteDebugRun, SaysNothingElse, Says
  <2> QED BY <1>4, <2>4, AgreedKept DEF CompleteDebugRun, Renamed
<1>5. ASSUME NEW r \in release, NEW central \in 1..2, MarkSynced(r, central) PROVE Agreed'
  <2> DEFINE n == [r EXCEPT !.central = central]
  <2>1. n.action = r.action /\ n.src = r.src /\ n.sum = r.sum
    BY <1>0 DEF ReleaseRow
  <2>2. \A b \in release' : b \in release \/ b = n
    BY <1>5 DEF MarkSynced
  <2> HIDE DEF n
  <2>3. SaysNothingElse
    BY <1>5, <2>1, <2>2 DEF MarkSynced, SaysNothingElse, Says
  <2> QED BY <1>5, <2>3, AgreedKept DEF MarkSynced, Renamed
<1> QED BY <1>1, <1>2, <1>3, <1>4, <1>5 DEF PublishNext

\* Elements and strategies change without an identity hearing of it.
LEMMA EditsAgree ==
  ASSUME Typed, Typed', Agreed, ElementNext \/ EditNext
  PROVE  Agreed'
<1> USE DEF Typed, StrategyTypeOK
<1>1. UNCHANGED <<debug, release>>
  BY DEF ElementNext, CreateElement, SetElementStatus, ReadForRepick, ReadForDelete, Repick,
         CheckReferences, DeleteElement, EditNext, ReadForCreate, ReadForUpdate, CreateStrategy,
         Validate, UpdateStrategy, SetStrategyEnabled, ReadForDeletion, DeleteStrategy
<1>2. Renamed
  <2>1. CASE UNCHANGED identity
    BY <2>1 DEF Renamed
  <2>2. ASSUME NEW a \in ActionId, NEW s \in Strategy,
               identity' = [identity EXCEPT ![a].strategy = s, ![a].used = TRUE]
        PROVE  Renamed
    <3>1. \A b \in ActionId : /\ identity'[b].src = identity[b].src
                              /\ identity'[b].sum = identity[b].sum
      BY <2>2 DEF Identity
    <3> QED BY <3>1 DEF Renamed
  <2>3. ASSUME NEW c \in Client, DeleteStrategy(c), ~UNCHANGED identity
        PROVE  Renamed
    <3>1. ASSUME NEW b \in ActionId
          PROVE  identity'[b].src = identity[b].src /\ identity'[b].sum = identity[b].sum
      <4>1. identity'[b] = [identity[b] EXCEPT
                  !.dead = @ \/ b \in request[c].actions,
                  !.strategy = IF @ = request[c].strategy THEN NoStrategy ELSE @]
        BY <2>3, Zenon DEF DeleteStrategy
      <4> DEFINE dead == identity[b].dead \/ b \in request[c].actions
                 owner == IF identity[b].strategy = request[c].strategy THEN NoStrategy
                          ELSE identity[b].strategy
      <4>2. identity'[b] = [identity[b] EXCEPT !.dead = dead, !.strategy = owner]
        BY <4>1
      <4> HIDE DEF dead, owner
      <4> QED BY <4>2 DEF Identity
    <3> QED BY <3>1 DEF Renamed
  <2>4. ASSUME NEW c \in Client, CreateStrategy(c) PROVE Renamed
    BY <2>1, <2>2, <2>4, RequestTyped DEF CreateStrategy
  <2>5. \/ UNCHANGED identity
        \/ \E c \in Client : CreateStrategy(c) \/ DeleteStrategy(c)
    BY DEF ElementNext, CreateElement, SetElementStatus, ReadForRepick, ReadForDelete, Repick,
         CheckReferences, DeleteElement, EditNext, ReadForCreate, ReadForUpdate, CreateStrategy,
         Validate, UpdateStrategy, SetStrategyEnabled, ReadForDeletion, DeleteStrategy
  <2> QED BY <2>1, <2>3, <2>4, <2>5
<1>3. SaysNothingElse
  BY <1>1 DEF SaysNothingElse, Says
<1> QED BY <1>2, <1>3, AgreedKept

LEMMA AgreedInvariant == StratSpec => []Agreed
<1>1. StratInit => Agreed
  BY DEF StratInit, Agreed, Says
<1>2. Typed /\ Typed' /\ Agreed /\ [StratNext]_stratVars => Agreed'
  <2> SUFFICES ASSUME Typed, Typed', Agreed, [StratNext]_stratVars PROVE Agreed'
    OBVIOUS
  <2>1. CASE UNCHANGED stratVars
    BY <2>1 DEF stratVars, Agreed, Says
  <2> QED BY <2>1, EditsAgree, PublicationAgrees DEF StratNext
<1> QED BY <1>1, <1>2, StratTypes, PTL DEF StratSpec

LEMMA AgreedNames == Typed /\ Agreed => RevisionNamesContent
<1> SUFFICES ASSUME Typed, Agreed PROVE RevisionNamesContent
  OBVIOUS
<1> DEFINE Named == {<<d.action, d.src, d.sum>> : d \in debug}
                    \cup {<<r.action, r.src, r.sum>> : r \in release}
                    \cup UNION {{<<a, identity[a].src, sum>> : sum \in identity[a].sum} : a \in ActionId}
<1>1. ASSUME NEW m \in Named
      PROVE  /\ m[1] \in ActionId /\ m[2] \in Nat /\ m[3] \in Document
             /\ Says(m[1], m[2], m[3]) \/ (m[2] = identity[m[1]].src /\ m[3] \in identity[m[1]].sum)
  <2>1. ASSUME NEW d \in debug, m = <<d.action, d.src, d.sum>>
        PROVE  /\ m[1] \in ActionId /\ m[2] \in Nat /\ m[3] \in Document
               /\ Says(m[1], m[2], m[3])
    BY <2>1 DEF Typed, StrategyTypeOK, DebugRow, Says
  <2>2. ASSUME NEW r \in release, m = <<r.action, r.src, r.sum>>
        PROVE  /\ m[1] \in ActionId /\ m[2] \in Nat /\ m[3] \in Document
               /\ Says(m[1], m[2], m[3])
    BY <2>2 DEF Typed, StrategyTypeOK, ReleaseRow, Says
  <2>3. ASSUME NEW a \in ActionId, NEW sum \in identity[a].sum, m = <<a, identity[a].src, sum>>
        PROVE  /\ m[1] \in ActionId /\ m[2] \in Nat /\ m[3] \in Document
               /\ m[2] = identity[m[1]].src /\ m[3] \in identity[m[1]].sum
    BY <2>3 DEF Typed, StrategyTypeOK, Identity
  <2> QED BY <2>1, <2>2, <2>3
<1>2. ASSUME NEW m \in Named, NEW n \in Named, m[1] = n[1], m[2] = n[2]
      PROVE  m[3] = n[3]
  BY <1>1, <1>2 DEF Agreed
<1> QED BY <1>2 DEF RevisionNamesContent

-------------------------------------------------------------------------------
(* Validation *)

\* A run that succeeded is there for good, and a release asks for it when it is prepared.
LEMMA ValidationKept ==
  ASSUME Typed, ValidatedWasDebugged, [StratNext]_stratVars
  PROVE  ValidatedWasDebugged'
<1> USE DEF Typed, StrategyTypeOK
<1>1. CASE UNCHANGED <<debug, release>>
  BY <1>1 DEF ValidatedWasDebugged
<1>2. ASSUME NEW c \in Client, BeginDebugRun(c) PROVE ValidatedWasDebugged'
  BY <1>2 DEF BeginDebugRun, ValidatedWasDebugged
<1>3. ASSUME NEW d \in debug, CompleteDebugRun(d) PROVE ValidatedWasDebugged'
  <2>1. \A b \in debug : b.status = "SUCCEEDED" => b \in debug'
    BY <1>3 DEF CompleteDebugRun
  <2> QED BY <1>3, <2>1 DEF CompleteDebugRun, ValidatedWasDebugged
<1>4. ASSUME NEW c \in Client, PrepareRelease(c) PROVE ValidatedWasDebugged'
  <2>1. CASE UNCHANGED release
    BY <1>4, <2>1 DEF PrepareRelease, ValidatedWasDebugged
  <2>2. ASSUME NEW a \in request[c].actions, NEW waive \in BOOLEAN,
               waive \/ Debugged(a, request[c].src, ContentOf(identity[a].strategy)),
               release' = release \cup
                     {[action |-> a, revision |-> Cardinality({r \in release : r.action = a}) + 1,
                       src |-> request[c].src, sum |-> ContentOf(identity[a].strategy),
                       validated |-> ~waive, central |-> 0]}
        PROVE  ValidatedWasDebugged'
    <3> DEFINE row == [action |-> a, revision |-> Cardinality({r \in release : r.action = a}) + 1,
                       src |-> request[c].src, sum |-> ContentOf(identity[a].strategy),
                       validated |-> ~waive, central |-> 0]
    <3>1. row.action = a /\ row.src = request[c].src /\ row.sum = ContentOf(identity[a].strategy)
      OBVIOUS
    <3>2. row.validated = ~waive
      BY Zenon
    <3>3. \A r \in release' : r \in release \/ r = row
      BY <2>2
    <3> HIDE DEF row
    <3>4. row.validated => Debugged(row.action, row.src, row.sum)
      BY <2>2, <3>1, <3>2, Zenon
    <3>5. UNCHANGED debug
      BY <1>4 DEF PrepareRelease
    <3> QED BY <3>3, <3>4, <3>5 DEF ValidatedWasDebugged, Debugged
  <2> QED BY <1>4, <2>1, <2>2 DEF PrepareRelease
<1>5. ASSUME NEW r \in release, NEW central \in 1..2, MarkSynced(r, central)
      PROVE  ValidatedWasDebugged'
  <2> DEFINE n == [r EXCEPT !.central = central]
  <2>1. r \in ReleaseRow
    OBVIOUS
  <2>2. n.action = r.action /\ n.src = r.src /\ n.sum = r.sum /\ n.validated = r.validated
    BY <2>1 DEF ReleaseRow
  <2>3. \A b \in release' : b \in release \/ b = n
    BY <1>5 DEF MarkSynced
  <2> HIDE DEF n
  <2>4. UNCHANGED debug
    BY <1>5 DEF MarkSynced
  <2> QED BY <2>2, <2>3, <2>4 DEF ValidatedWasDebugged
<1>6. \/ UNCHANGED <<debug, release>>
      \/ \E c \in Client : BeginDebugRun(c) \/ PrepareRelease(c)
      \/ \E d \in debug : CompleteDebugRun(d)
      \/ \E r \in release, central \in 1..2 : MarkSynced(r, central)
  BY DEF stratVars, StratNext, ElementNext, CreateElement, SetElementStatus, ReadForRepick,
         ReadForDelete, Repick, CheckReferences, DeleteElement, EditNext, ReadForCreate,
         ReadForUpdate, CreateStrategy, Validate, UpdateStrategy, SetStrategyEnabled,
         ReadForDeletion, DeleteStrategy, PublishNext, Look
<1> QED BY <1>1, <1>2, <1>3, <1>4, <1>5, <1>6

\* The debug runs, the releases and the identities of strategies agree on what each source
\* revision of an action is, what was released as validated passed a run of exactly that,
\* and an action id belongs to one strategy for as long as that one lives
\* (_refresh_strategy_metadata, prepare_release, delete_strategy).
THEOREM StrategiesAgree == StratSpec => []StrategySafe
<1>1. StratInit => ValidatedWasDebugged
  BY DEF StratInit, ValidatedWasDebugged
<1>2. Typed /\ ValidatedWasDebugged /\ [StratNext]_stratVars => ValidatedWasDebugged'
  BY ValidationKept
<1>3. Typed /\ Owned /\ Agreed /\ ValidatedWasDebugged => StrategySafe
  BY OwnedIsOne, AgreedNames DEF Typed, StrategySafe
<1> QED BY <1>1, <1>2, <1>3, StratTypes, OwnedInvariant, AgreedInvariant, PTL DEF StratSpec

-------------------------------------------------------------------------------
(* Releases *)

Of(a) == {r \in release : r.action = a}

\* The releases of an action are numbered in the order they were made.
Numbered == \A a \in ActionId :
  /\ {r.revision : r \in Of(a)} = 1..Cardinality(Of(a))
  /\ \A r, n \in Of(a) : r.revision = n.revision => r = n

LEMMA OfFinite ==
  ASSUME Typed, NEW a \in ActionId
  PROVE  IsFiniteSet(Of(a)) /\ Cardinality(Of(a)) \in Nat /\ Of(a) \subseteq ReleaseRow
<1>1. Of(a) \subseteq release /\ Of(a) \subseteq ReleaseRow
  BY DEF Of, Typed, StrategyTypeOK
<1>2. IsFiniteSet(Of(a))
  BY <1>1, FS_Subset DEF Typed
<1> QED BY <1>1, <1>2, FS_CardinalityType

\* One more release of an action has the next number.
LEMMA NumberedByOne ==
  ASSUME Typed, Numbered, NEW a \in ActionId, NEW row \in ReleaseRow, row.action = a,
         row.revision = Cardinality(Of(a)) + 1, release' = release \cup {row}
  PROVE  Numbered'
<1>1. ASSUME NEW b \in ActionId, b # a
      PROVE  Of(b)' = Of(b)
  BY <1>1 DEF Of
<1>2. Of(a)' = Of(a) \cup {row}
  BY DEF Of
<1>3. row \notin Of(a)
  <2> SUFFICES ASSUME row \in Of(a) PROVE FALSE
    OBVIOUS
  <2>1. row.revision \in 1..Cardinality(Of(a))
    BY DEF Numbered
  <2> QED BY <2>1, OfFinite
<1>4. Cardinality(Of(a)') = Cardinality(Of(a)) + 1
  BY <1>2, <1>3, OfFinite, FS_AddElement
<1>5. {r.revision : r \in Of(a)'} = {r.revision : r \in Of(a)} \cup {row.revision}
  BY <1>2
<1>6. {r.revision : r \in Of(a)'} = 1..Cardinality(Of(a)')
  BY <1>4, <1>5, OfFinite DEF Numbered
<1>7. ASSUME NEW r \in Of(a)', NEW n \in Of(a)', r.revision = n.revision
      PROVE  r = n
  <2>1. \A q \in Of(a) : q.revision \in 1..Cardinality(Of(a))
    BY DEF Numbered
  <2> QED BY <1>2, <1>7, <2>1, OfFinite DEF Numbered
<1> QED BY <1>1, <1>6, <1>7 DEF Numbered

\* A release that hears of Central keeps its number.
LEMMA NumberedStill ==
  ASSUME Typed, Numbered, NEW r \in release, NEW row \in ReleaseRow,
         row.action = r.action, row.revision = r.revision,
         release' = (release \ {r}) \cup {row}
  PROVE  Numbered'
<1>0. r \in ReleaseRow /\ r.action \in ActionId
  BY DEF Typed, StrategyTypeOK, ReleaseRow
<1> DEFINE a == r.action
<1>1. ASSUME NEW b \in ActionId, b # a
      PROVE  Of(b)' = Of(b)
  BY <1>1 DEF Of
<1>2. Of(a)' = (Of(a) \ {r}) \cup {row} /\ r \in Of(a)
  BY DEF Of
<1>3. row \notin Of(a) \ {r}
  BY <1>0, <1>2 DEF Numbered
<1>4. Cardinality(Of(a)') = Cardinality(Of(a))
  <2>1. IsFiniteSet(Of(a) \ {r}) /\ Cardinality(Of(a) \ {r}) = Cardinality(Of(a)) - 1
    BY <1>0, <1>2, OfFinite, FS_RemoveElement
  <2>2. Cardinality(Of(a)') = Cardinality(Of(a) \ {r}) + 1
    BY <1>2, <1>3, <2>1, FS_AddElement
  <2> QED BY <1>0, <2>1, <2>2, OfFinite
<1>5. {q.revision : q \in Of(a)'} = {q.revision : q \in Of(a)}
  BY <1>2
<1>6. {q.revision : q \in Of(a)'} = 1..Cardinality(Of(a)')
  BY <1>0, <1>4, <1>5 DEF Numbered
<1>7. ASSUME NEW q \in Of(a)', NEW n \in Of(a)', q.revision = n.revision
      PROVE  q = n
  BY <1>0, <1>2, <1>7 DEF Numbered
<1> HIDE DEF a
<1> QED BY <1>1, <1>6, <1>7 DEF Numbered

\* What a step does to the releases.
LEMMA ReleaseSteps ==
  ASSUME Typed, [StratNext]_stratVars
  PROVE  \/ UNCHANGED release
         \/ \E a \in ActionId, row \in ReleaseRow :
              /\ identity[a].strategy # NoStrategy
              /\ row.action = a /\ row.revision = Cardinality(Of(a)) + 1
              /\ release' = release \cup {row}
         \/ \E r \in release, row \in ReleaseRow :
              /\ row = [r EXCEPT !.central = row.central] /\ r.central \in {0, row.central}
              /\ release' = (release \ {r}) \cup {row}
<1> USE DEF Typed, StrategyTypeOK
<1>1. ASSUME NEW c \in Client, PrepareRelease(c)
      PROVE  \/ UNCHANGED release
             \/ \E a \in ActionId, row \in ReleaseRow :
                  /\ identity[a].strategy # NoStrategy
                  /\ row.action = a /\ row.revision = Cardinality(Of(a)) + 1
                  /\ release' = release \cup {row}
  <2>1. SUFFICES ASSUME NEW a \in request[c].actions, NEW waive \in BOOLEAN, Current(c, a),
               release' = release \cup
                     {[action |-> a, revision |-> Cardinality({r \in release : r.action = a}) + 1,
                       src |-> request[c].src, sum |-> ContentOf(identity[a].strategy),
                       validated |-> ~waive, central |-> 0]}
        PROVE  \E b \in ActionId, row \in ReleaseRow :
                  /\ identity[b].strategy # NoStrategy
                  /\ row.action = b /\ row.revision = Cardinality(Of(b)) + 1
                  /\ release' = release \cup {row}
    BY <1>1 DEF PrepareRelease
  <2> DEFINE row == [action |-> a, revision |-> Cardinality(Of(a)) + 1,
                     src |-> request[c].src, sum |-> ContentOf(identity[a].strategy),
                     validated |-> ~waive, central |-> 0]
  <2>2. a \in ActionId /\ request[c].src \in Nat /\ identity[a] \in Identity
    BY RequestTyped
  <2>3. identity[a].strategy \in Strategy /\ identity[a].strategy # NoStrategy
    BY <2>1, <2>2 DEF Current, Live, Identity
  <2>4. row \in ReleaseRow
    BY <2>2, <2>3, ContentTyped, OfFinite DEF ReleaseRow
  <2>5. row.action = a /\ row.revision = Cardinality(Of(a)) + 1 /\ release' = release \cup {row}
    BY <2>1 DEF Of
  <2> QED BY <2>2, <2>3, <2>4, <2>5
<1>2. ASSUME NEW r \in release, NEW central \in 1..2, MarkSynced(r, central)
      PROVE  \E row \in ReleaseRow :
               /\ row = [r EXCEPT !.central = row.central] /\ r.central \in {0, row.central}
               /\ release' = (release \ {r}) \cup {row}
  <2> DEFINE row == [r EXCEPT !.central = central]
  <2>1. row \in ReleaseRow /\ row.central = central
    BY DEF ReleaseRow
  <2> QED BY <1>2, <2>1 DEF MarkSynced
<1>3. \/ UNCHANGED release
      \/ \E c \in Client : PrepareRelease(c)
      \/ \E r \in release, central \in 1..2 : MarkSynced(r, central)
  BY DEF stratVars, StratNext, ElementNext, CreateElement, SetElementStatus, ReadForRepick,
         ReadForDelete, Repick, CheckReferences, DeleteElement, EditNext, ReadForCreate,
         ReadForUpdate, CreateStrategy, Validate, UpdateStrategy, SetStrategyEnabled,
         ReadForDeletion, DeleteStrategy, PublishNext, Look, BeginDebugRun, CompleteDebugRun
<1> QED BY <1>1, <1>2, <1>3

LEMMA NumberedKept ==
  ASSUME Typed, Numbered, [StratNext]_stratVars
  PROVE  Numbered'
<1>1. ASSUME NEW r \in release, NEW row \in ReleaseRow, row = [r EXCEPT !.central = row.central]
      PROVE  row.action = r.action /\ row.revision = r.revision
  BY <1>1 DEF Typed, StrategyTypeOK, ReleaseRow
<1>2. CASE UNCHANGED release
  BY <1>2 DEF Numbered, Of
<1> QED BY <1>1, <1>2, ReleaseSteps, NumberedByOne, NumberedStill

LEMMA NumberedInvariant == StratSpec => []Numbered
<1>1. StratInit => Numbered
  <2> SUFFICES ASSUME StratInit, NEW a \in ActionId
      PROVE  {r.revision : r \in Of(a)} = 1..Cardinality(Of(a)) /\ Of(a) = {}
    BY DEF Numbered
  <2>1. Of(a) = {}
    BY DEF StratInit, Of
  <2> QED BY <2>1, FS_EmptySet
<1>2. Typed /\ Numbered /\ [StratNext]_stratVars => Numbered'
  BY NumberedKept
<1> QED BY <1>1, <1>2, StratTypes, PTL DEF StratSpec

\* An action id whose strategy is gone is not taken up again.
LEMMA LeftForGood ==
  ASSUME Typed, NEW a \in ActionId, identity[a].used, identity[a].strategy = NoStrategy,
         [StratNext]_stratVars
  PROVE  identity'[a].strategy = NoStrategy
<1> USE DEF Typed, StrategyTypeOK
<1>1. ASSUME NEW b \in ActionId, NEW s \in Strategy, ~identity[b].used,
             identity' = [identity EXCEPT ![b].strategy = s, ![b].used = TRUE]
      PROVE  identity'[a].strategy = NoStrategy
  <2>1. a # b
    BY <1>1, Zenon
  <2> QED BY <1>1, <2>1
<1>2. ASSUME NEW b \in ActionId, identity[b].strategy # NoStrategy,
             identity' = [identity EXCEPT ![b] = Refreshed(b)]
      PROVE  identity'[a].strategy = NoStrategy
  BY <1>2
<1>3. ASSUME NEW c \in Client, DeleteStrategy(c)
      PROVE  identity'[a].strategy = NoStrategy
  <2>1. CASE UNCHANGED identity
    BY <2>1
  <2>2. CASE ~UNCHANGED identity
    <3>1. identity'[a] = [identity[a] EXCEPT
                  !.dead = @ \/ a \in request[c].actions,
                  !.strategy = IF @ = request[c].strategy THEN NoStrategy ELSE @]
      BY <1>3, <2>2, Zenon DEF DeleteStrategy
    <3> DEFINE dead == identity[a].dead \/ a \in request[c].actions
    <3>2. identity'[a] = [identity[a] EXCEPT !.dead = dead, !.strategy = NoStrategy]
      BY <3>1
    <3> HIDE DEF dead
    <3> QED BY <3>2 DEF Identity
  <2> QED BY <2>1, <2>2
<1>4. ASSUME NEW c \in Client, NEW b \in ActionId, NEW pc \in {"record", "prepare"}, Look(c, b, pc)
      PROVE  identity'[a].strategy = NoStrategy
  BY <1>2, <1>4 DEF Look
<1>5. ASSUME NEW c \in Client, BeginDebugRun(c) \/ PrepareRelease(c)
      PROVE  identity'[a].strategy = NoStrategy
  BY <1>2, <1>5, RequestTyped DEF BeginDebugRun, PrepareRelease, Current, Live
<1>6. ASSUME NEW c \in Client, CreateStrategy(c)
      PROVE  identity'[a].strategy = NoStrategy
  BY <1>1, <1>6, RequestTyped DEF CreateStrategy
<1>7. \/ UNCHANGED identity
      \/ \E c \in Client : CreateStrategy(c) \/ DeleteStrategy(c) \/ BeginDebugRun(c) \/ PrepareRelease(c)
      \/ \E c \in Client, b \in ActionId, pc \in {"record", "prepare"} : Look(c, b, pc)
  BY DEF stratVars, StratNext, ElementNext, CreateElement, SetElementStatus, ReadForRepick,
         ReadForDelete, Repick, CheckReferences, DeleteElement, EditNext, ReadForCreate,
         ReadForUpdate, Validate, UpdateStrategy, SetStrategyEnabled, ReadForDeletion,
         PublishNext, CompleteDebugRun, MarkSynced
<1> QED BY <1>3, <1>4, <1>5, <1>6, <1>7

\* A release is never taken back or changed, but for the revision Central gives it once;
\* the releases of an action are numbered without a gap, and an action whose strategy was
\* deleted gets no more of them (strategy_releases, mark_release_synced).
THEOREM ReleasesStay == StratSpec => ReleasesStand
<1> DEFINE Kept == \A r \in release : \E n \in release' :
                     /\ [n EXCEPT !.central = 0] = [r EXCEPT !.central = 0]
                     /\ r.central \in {0, n.central}
           Revisions(a) == {r.revision : r \in {q \in release : q.action = a}}
           NoMore == \A a \in ActionId :
             LET Numbers == {r.revision : r \in {q \in release' : q.action = a}} IN
             /\ Numbers = 1..Cardinality(Numbers)
             /\ identity[a].used /\ identity[a].strategy = NoStrategy =>
                  /\ Numbers = {r.revision : r \in {q \in release : q.action = a}}
                  /\ identity'[a].strategy = NoStrategy
<1>1. ASSUME Typed, [StratNext]_stratVars PROVE Kept
  <2>1. \A r \in release : r.central \in {0, r.central} /\ r \in ReleaseRow
    BY <1>1 DEF Typed, StrategyTypeOK
  <2>2. CASE release \subseteq release'
    BY <2>1, <2>2
  <2>3. ASSUME NEW r \in release, NEW row \in ReleaseRow, row = [r EXCEPT !.central = row.central],
               r.central \in {0, row.central}, release' = (release \ {r}) \cup {row}
        PROVE  Kept
    <3>1. [row EXCEPT !.central = 0] = [r EXCEPT !.central = 0]
      BY <2>1, <2>3 DEF ReleaseRow
    <3> QED BY <2>1, <2>3, <3>1
  <2> QED BY <1>1, <2>2, <2>3, ReleaseSteps
<1>2. ASSUME Typed, Typed', Numbered, Numbered', [StratNext]_stratVars PROVE NoMore
  <2> SUFFICES ASSUME NEW a \in ActionId
      PROVE  /\ Revisions(a)' = 1..Cardinality(Revisions(a)')
             /\ identity[a].used /\ identity[a].strategy = NoStrategy =>
                  Revisions(a)' = Revisions(a) /\ identity'[a].strategy = NoStrategy
    BY Zenon
  <2>1. Revisions(a)' = 1..Cardinality(Of(a))'
    BY <1>2 DEF Numbered, Of
  <2>2. Cardinality(Of(a))' \in Nat
    BY <1>2, FS_Subset, FS_CardinalityType DEF Typed, Of
  <2>3. Revisions(a)' = 1..Cardinality(Revisions(a)')
    <3>1. \A n \in Nat : Cardinality(1..n) = n
      BY FS_Interval
    <3> QED BY <2>1, <2>2, <3>1, Zenon
  <2>4. ASSUME identity[a].used, identity[a].strategy = NoStrategy
        PROVE  Revisions(a)' = Revisions(a)
    <3>1. CASE Of(a)' = Of(a)
      BY <3>1 DEF Of
    <3>2. ASSUME NEW b \in ActionId, NEW row \in ReleaseRow, identity[b].strategy # NoStrategy,
                 row.action = b, release' = release \cup {row}
          PROVE  Of(a)' = Of(a)
      BY <2>4, <3>2 DEF Of
    <3>3. ASSUME NEW r \in release, NEW row \in ReleaseRow,
                 row = [r EXCEPT !.central = row.central], release' = (release \ {r}) \cup {row}
          PROVE  Revisions(a)' = Revisions(a)
      <4>1. row.action = r.action /\ row.revision = r.revision
        BY <1>2, <3>3 DEF Typed, StrategyTypeOK, ReleaseRow
      <4> QED BY <3>3, <4>1
    <3>4. CASE UNCHANGED release
      BY <3>4 DEF Of
    <3> QED BY <1>2, <3>1, <3>2, <3>3, <3>4, ReleaseSteps
  <2> QED BY <1>2, <2>3, <2>4, LeftForGood
<1>3. Typed /\ Typed' /\ Numbered /\ Numbered' /\ [StratNext]_stratVars => [Kept /\ NoMore]_stratVars
  BY <1>1, <1>2
<1> QED BY <1>3, StratTypes, NumberedInvariant, PTL DEF StratSpec, ReleasesStand

-------------------------------------------------------------------------------
(* The collection of statistics.  Who holds the lease of a job is the only one who may  *)
(* write to the run of that job, and the run goes on as long as it is held.             *)

\* The run that r names is one of the job j.
Belongs(r, j) ==
  \/ \E s \in Slot : r = <<"incremental", s>> /\ j = r
  \/ \E f \in FullRun : r = <<"full", f>> /\ j = <<"full", fullRun[f].date>>

Stored(r, a) == <<r, a>> \in snapshots

\* What a process that works on a run knows of it.
RunFits(w) == LET k == statWorker[w] IN
  /\ k.run \in Run /\ k.job \in Job /\ Belongs(k.run, k.job)
  /\ RunStatus(k.run) # "absent"
  /\ Owns(w) => RunStatus(k.run) = "running"
  /\ k.run[1] = "incremental" /\ k.failed = 0 =>
       \A a \in Account \ k.left : Stored(k.run, a)

\* Where a process is in its tick.
StageFits(w) == LET k == statWorker[w] IN
  /\ k.pc \notin {"idle", "down"} => k.at \in Slot
  /\ k.pc \in {"claim", "calibrate"} => k.job \in Job
  /\ k.pc = "calibrate" => k.job[1] = "full"
  /\ k.pc = "claim" /\ k.job[1] = "incremental" => k.left = Account /\ k.failed = 0
  /\ k.pc \in {"renew", "collect", "check", "finish"} => RunFits(w)
  /\ k.pc \in {"renew", "collect"} => k.left # {}
  /\ k.pc = "finish" => k.left = {}
  /\ k.done + k.failed + Cardinality(k.left) <= Cardinality(Account)

CollectionInv ==
  /\ StatsTypeOK
  /\ \A w \in StatWorker : StageFits(w)
  /\ CompletedCovers

\* The least of some natural numbers is one of them.
LEMMA LeastOne ==
  ASSUME NEW S \in SUBSET Nat, S # {}
  PROVE  Min(S) \in S /\ \A x \in S : Min(S) <= x
<1> DEFINE R == OpToRel(<, Nat)
<1>1. IsWellFoundedOn(R, Nat)
    BY NatLessThanWellFounded
<1>2. \A x, y \in Nat : <<x, y>> \in R <=> x < y
    BY DEF OpToRel
<1> HIDE DEF R
<1>3. PICK x \in S : \A y \in S : ~ (<<y, x>> \in R)
    BY <1>1, WFMin
<1>4. ASSUME NEW y \in S PROVE x <= y
  <2>1. x \in Nat /\ y \in Nat
      OBVIOUS
  <2>2. ~ (y < x)
      BY <2>1, <1>2, <1>3
  <2> QED
      BY <2>1, <2>2
<1> QED
    BY <1>4 DEF Min

LEMMA StatsConstants ==
  /\ "gone" \notin StatWorker /\ Account \subseteq Nat /\ IsFiniteSet(Account)
  /\ MaxSlot \in Nat /\ MaxSlot > 0 /\ MaxFullRuns \in Nat /\ MaxStatFaults \in Nat
  /\ Cardinality(Account) \in Nat /\ Slot \subseteq Nat /\ FullRun \subseteq Nat
BY StatsAssumption, FS_CardinalityType DEF Slot, FullRun

LEMMA SomeAccounts ==
  ASSUME NEW S \in SUBSET Account
  PROVE  /\ Cardinality(S) \in Nat /\ Cardinality(S) <= Cardinality(Account)
         /\ S # {} => Min(S) \in S
         /\ \A a \in S : Cardinality(S \ {a}) + 1 = Cardinality(S)
<1>1. IsFiniteSet(S) /\ S \in SUBSET Nat
  BY StatsConstants, FS_Subset
<1>2. Cardinality(S) \in Nat /\ Cardinality(S) <= Cardinality(Account)
  BY <1>1, StatsConstants, FS_Subset, FS_CardinalityType
<1>3. ASSUME NEW a \in S
      PROVE  Cardinality(S \ {a}) + 1 = Cardinality(S)
  <2>1. Cardinality(S \ {a}) = Cardinality(S) - 1
    BY <1>1, <1>3, FS_RemoveElement
  <2> QED
    BY <1>2, <2>1
<1> QED
  BY <1>1, <1>2, <1>3, LeastOne

LEMMA NothingCounted == Cardinality({}) = 0
BY FS_EmptySet

LEMMA CountsTyped ==
  /\ 0 \in 0..Cardinality(Account) /\ Account \in SUBSET Account /\ {} \in SUBSET Account
  /\ NoRun \in Job \cup {NoRun} /\ NoRun \in Run \cup {NoRun}
BY StatsConstants

LEMMA RunCases ==
  ASSUME NEW r \in Run
  PROVE  \/ \E s \in Slot : r = <<"incremental", s>>
         \/ \E f \in FullRun : r = <<"full", f>>
BY DEF Run

LEMMA JobCases ==
  ASSUME NEW j \in Job
  PROVE  \/ \E s \in Slot : j = <<"incremental", s>>
         \/ \E d \in Dates : j = <<"full", d>>
BY DEF Job

LEMMA RunsAndJobs ==
  /\ \A s \in Slot : <<"incremental", s>> \in Run /\ <<"incremental", s>> \in Job
  /\ \A f \in FullRun : <<"full", f>> \in Run
  /\ \A d \in Dates : <<"full", d>> \in Job
  /\ \A s \in Slot : Date(s) \in Dates
BY DEF Run, Job, Dates

LEMMA StatusCases ==
  /\ \A s \in Slot : RunStatus(<<"incremental", s>>) = slotRun[s]
  /\ \A f \in FullRun : RunStatus(<<"full", f>>) = fullRun[f].status
  /\ \A s \in Slot : RunStatus(<<"incremental", s>>)' = slotRun'[s]
  /\ \A f \in FullRun : RunStatus(<<"full", f>>)' = fullRun'[f].status
BY DEF RunStatus

\* A run belongs to one job only.
LEMMA OneJob ==
  ASSUME NEW r, NEW j, NEW k, Belongs(r, j), Belongs(r, k)
  PROVE  j = k
BY DEF Belongs

\* No run that was begun disappears or changes its date.
RunsRemain ==
  /\ \A s \in Slot : slotRun[s] # "absent" => slotRun'[s] # "absent"
  /\ \A f \in FullRun : fullRun[f].status # "absent" =>
       fullRun'[f].status # "absent" /\ fullRun'[f].date = fullRun[f].date

\* A run that somebody else works on is none of w's business.
LEMMA OthersFit ==
  ASSUME CollectionInv, RunsRemain, snapshots \subseteq snapshots',
         NEW v \in StatWorker, statWorker'[v] = statWorker[v],
         RunFits(v) => (Owns(v)' => Owns(v)),
         RunFits(v) /\ Owns(v) /\ RunStatus(statWorker[v].run) = "running" /\ Owns(v)' =>
           RunStatus(statWorker[v].run)' = "running"
  PROVE  StageFits(v)'
<1> DEFINE k == statWorker[v]
<1>1. StageFits(v) /\ k \in StatProcess
  BY DEF CollectionInv, StatsTypeOK
<1>2. ASSUME RunFits(v)
      PROVE  RunFits(v)'
  <2>1. /\ k.run \in Run /\ k.job \in Job /\ Belongs(k.run, k.job) /\ RunStatus(k.run) # "absent"
        /\ Owns(v) => RunStatus(k.run) = "running"
        /\ k.run[1] = "incremental" /\ k.failed = 0 => \A a \in Account \ k.left : Stored(k.run, a)
    BY <1>2 DEF RunFits
  <2>2. RunStatus(k.run)' # "absent" /\ Belongs(k.run, k.job)'
    <3>1. CASE \E s \in Slot : k.run = <<"incremental", s>>
      <4>1. PICK s \in Slot : k.run = <<"incremental", s>>
        BY <3>1
      <4>2. k.job = k.run /\ slotRun[s] # "absent"
        BY <2>1, <4>1, StatusCases DEF Belongs
      <4>3. slotRun'[s] # "absent"
        BY <4>2 DEF RunsRemain
      <4> QED
        BY <1>2, <4>1, <4>2, <4>3 DEF RunStatus, Belongs
    <3>2. CASE \E f \in FullRun : k.run = <<"full", f>>
      <4>1. PICK f \in FullRun : k.run = <<"full", f>>
        BY <3>2
      <4>2. k.job = <<"full", fullRun[f].date>> /\ fullRun[f].status # "absent"
        BY <2>1, <4>1, StatusCases DEF Belongs
      <4>3. fullRun'[f].status # "absent" /\ fullRun'[f].date = fullRun[f].date
        BY <4>2 DEF RunsRemain
      <4> QED
        BY <4>1, <4>2, <4>3 DEF RunStatus, Belongs
    <3> QED
      BY <2>1, <3>1, <3>2, RunCases
  <2>3. Owns(v)' => RunStatus(k.run)' = "running"
    BY <1>2, <2>1
  <2>4. k.run[1] = "incremental" /\ k.failed = 0 =>
          \A a \in Account \ k.left : Stored(k.run, a)'
    BY <2>1 DEF Stored
  <2> QED
    BY <2>1, <2>2, <2>3, <2>4 DEF RunFits
<1> QED
  BY <1>1, <1>2 DEF StageFits

\* What a step leaves of the leases: nobody but w gets one.
LeaseSafe(w) ==
  /\ statLease' \in [Job -> Lease]
  /\ \A k \in Job : \A v \in StatWorker \ {w} :
       statLease'[k].owner = v /\ statLease'[k].live => statLease'[k] = statLease[k]

LEMMA LeasesMove ==
  ASSUME CollectionInv, NEW w \in StatWorker
  PROVE  /\ statLease' = statLease => LeaseSafe(w)
         /\ \A j \in Job : statLease' = Acquired(j, w) => LeaseSafe(w)
         /\ statWorker[w].job \in Job /\ statLease' = Released(w) => LeaseSafe(w)
<1>1. statLease \in [Job -> Lease]
  BY DEF CollectionInv, StatsTypeOK
<1>2. ASSUME NEW j \in Job, statLease' = Acquired(j, w)
      PROVE  LeaseSafe(w)
  <2> DEFINE l == [owner |-> w, live |-> TRUE]
  <2>1. l \in Lease /\ l.owner = w
    BY DEF Lease
  <2>2. statLease' = [statLease EXCEPT ![j] = l]
    BY <1>2 DEF Acquired
  <2> HIDE DEF l
  <2> QED
    BY <1>1, <1>2, <2>1, <2>2 DEF LeaseSafe
<1>3. ASSUME statWorker[w].job \in Job, statLease' = Released(w)
      PROVE  LeaseSafe(w)
  <2> DEFINE j == statWorker[w].job
             none == [owner |-> "nobody", live |-> FALSE]
             l == IF statLease[j].owner = w THEN none ELSE statLease[j]
  <2>1. none \in Lease /\ none.live = FALSE
    BY DEF Lease
  <2>2. statLease' = [statLease EXCEPT ![j] = l]
    BY <1>1, <1>3 DEF Released
  <2>3. l = none \/ l = statLease[j]
    OBVIOUS
  <2> HIDE DEF l, none
  <2> QED
    BY <1>1, <1>3, <2>1, <2>2, <2>3 DEF LeaseSafe
<1> QED
  BY <1>1, <1>2, <1>3 DEF LeaseSafe

LEMMA OwnersStay ==
  ASSUME CollectionInv, NEW w \in StatWorker, LeaseSafe(w), NEW v \in StatWorker \ {w},
         statWorker'[v] = statWorker[v], RunFits(v), Owns(v)'
  PROVE  Owns(v)
BY DEF LeaseSafe, Owns, RunFits

\* One process moves.
LEMMA OneMoves ==
  ASSUME CollectionInv, NEW w \in StatWorker, NEW new \in StatProcess,
         statWorker' = [statWorker EXCEPT ![w] = new], LeaseSafe(w), RunsRemain,
         slotRun' \in [Slot -> RunState], fullRun' \in [FullRun -> FullRow],
         calibrated' \subseteq Account \X Dates, snapshots' \subseteq Run \X Account,
         snapshots \subseteq snapshots', now' \in Slot, statFaults' \in 0..MaxStatFaults,
         \A v \in StatWorker \ {w} :
           RunFits(v) /\ Owns(v) => RunStatus(statWorker[v].run)' = RunStatus(statWorker[v].run),
         StageFits(w)', CompletedCovers'
  PROVE  CollectionInv'
<1>1. /\ statWorker' \in [StatWorker -> StatProcess] /\ statWorker'[w] = new
      /\ \A v \in StatWorker \ {w} : statWorker'[v] = statWorker[v]
  BY DEF CollectionInv, StatsTypeOK
<1>2. ASSUME NEW v \in StatWorker \ {w}
      PROVE  StageFits(v)'
  <2>1. statWorker'[v] = statWorker[v]
    BY <1>1, <1>2
  <2>2. RunFits(v) => (Owns(v)' => Owns(v))
    BY <1>2, <2>1, OwnersStay
  <2>3. RunFits(v) /\ Owns(v) => RunStatus(statWorker[v].run)' = RunStatus(statWorker[v].run)
    BY <1>2
  <2> QED
    BY <1>2, <2>1, <2>2, <2>3, OthersFit
<1>3. \A v \in StatWorker : StageFits(v)'
  BY <1>2
<1> QED
  BY <1>1, <1>3 DEF CollectionInv, StatsTypeOK, LeaseSafe

\* It moves and leaves the runs alone.
LEMMA QuietMoves ==
  ASSUME CollectionInv, NEW w \in StatWorker, NEW new \in StatProcess,
         statWorker' = [statWorker EXCEPT ![w] = new], LeaseSafe(w),
         UNCHANGED <<slotRun, fullRun, now>>,
         calibrated' \subseteq Account \X Dates, snapshots' \subseteq Run \X Account,
         snapshots \subseteq snapshots', statFaults' \in 0..MaxStatFaults, StageFits(w)'
  PROVE  CollectionInv'
<1>1. RunsRemain
  BY DEF RunsRemain
<1>2. CompletedCovers'
  BY DEF CollectionInv, CompletedCovers
<1>3. \A v \in StatWorker \ {w} : statWorker'[v] = statWorker[v]
  BY DEF CollectionInv, StatsTypeOK
<1>4. \A v \in StatWorker \ {w} :
        RunStatus(statWorker[v].run)' = RunStatus(statWorker[v].run)
  BY <1>3 DEF RunStatus
<1>5. /\ slotRun' \in [Slot -> RunState] /\ fullRun' \in [FullRun -> FullRow] /\ now' \in Slot
  BY DEF CollectionInv, StatsTypeOK
<1> QED
  BY <1>1, <1>2, <1>4, <1>5, OneMoves

LEMMA RestTyped == /\ AtRest \in StatProcess /\ AtRest.pc = "idle"
                   /\ AtRest.done + AtRest.failed + Cardinality(AtRest.left) = 0
                   /\ Stopped \in StatProcess
BY StatsConstants, NothingCounted DEF AtRest, Stopped, StatProcess, StatPc

LEMMA RestFits ==
  ASSUME NEW w \in StatWorker, statWorker'[w] \in {AtRest, Stopped}
  PROVE  StageFits(w)'
<1>1. /\ AtRest.pc = "idle" /\ AtRest.done = 0 /\ AtRest.failed = 0 /\ AtRest.left = {}
      /\ Stopped.pc = "down" /\ Stopped.done = 0 /\ Stopped.failed = 0 /\ Stopped.left = {}
  BY DEF AtRest, Stopped
<1> QED
  BY <1>1, NothingCounted, StatsConstants DEF StageFits

LEMMA BeginCollectingHolds ==
  ASSUME CollectionInv, NEW w \in StatWorker, BeginCollecting(w)
  PROVE  CollectionInv'
<1> DEFINE new == [AtRest EXCEPT !.pc = "slots", !.at = now, !.slots = Due]
<1>1. Due \subseteq Slot /\ now \in Slot
  BY DEF Due, CollectionInv, StatsTypeOK
<1>2. /\ new \in StatProcess /\ new.pc = "slots" /\ new.at = now /\ new.left = {}
      /\ new.done = 0 /\ new.failed = 0
  <2>1. AtRest.left = {} /\ AtRest.done = 0 /\ AtRest.failed = 0
    BY DEF AtRest
  <2>2. "slots" \in StatPc /\ now \in 0..MaxSlot
    BY <1>1, StatsConstants DEF StatPc, Slot
  <2> QED
    BY <1>1, <2>1, <2>2, RestTyped DEF StatProcess
<1>3. statWorker' = [statWorker EXCEPT ![w] = new]
  BY DEF BeginCollecting
<1> HIDE DEF new
<1>4. statWorker'[w] = new
  BY <1>3 DEF CollectionInv, StatsTypeOK
<1>5. StageFits(w)'
  <2>1. Cardinality(new.left) = 0
    BY <1>2, NothingCounted
  <2>2. new.done + new.failed + Cardinality(new.left) <= Cardinality(Account)
    BY <1>2, <2>1, StatsConstants
  <2> QED
    BY <1>1, <1>2, <1>4, <2>2 DEF StageFits
<1> QED
  BY <1>2, <1>3, <1>5, LeasesMove, QuietMoves DEF BeginCollecting, CollectionInv, StatsTypeOK

LEMMA TakeSlotHolds ==
  ASSUME CollectionInv, NEW w \in StatWorker, TakeSlot(w)
  PROVE  CollectionInv'
<1> DEFINE k == statWorker[w]
           s == Min(k.slots)
           j == <<"incremental", s>>
           taken == [k EXCEPT !.pc = "claim", !.job = j, !.slots = k.slots \ {s},
                              !.left = Account, !.done = 0, !.failed = 0]
           skipped == [k EXCEPT !.slots = k.slots \ {s}]
<1>1. k \in StatProcess /\ k.pc = "slots" /\ k.slots \subseteq Slot /\ k.slots # {} /\ StageFits(w)
  BY DEF CollectionInv, StatsTypeOK, TakeSlot, StatProcess
<1>2. s \in Slot
  BY <1>1, StatsConstants, LeastOne
<1>3. j \in Job /\ j[1] = "incremental"
  BY <1>2, RunsAndJobs
<1>4. UNCHANGED <<slotRun, fullRun, now, calibrated, snapshots, statFaults>>
  BY DEF TakeSlot
<1> HIDE DEF j
<1>5. CASE statLease' = Acquired(j, w) /\ statWorker' = [statWorker EXCEPT ![w] = taken]
  <2>1. /\ taken \in StatProcess /\ taken.pc = "claim" /\ taken.job = j /\ taken.left = Account
        /\ taken.done = 0 /\ taken.failed = 0 /\ taken.at = k.at
    <3>1. "claim" \in StatPc /\ j \in Job \cup {NoRun} /\ k.slots \ {s} \in SUBSET Slot
      BY <1>1, <1>3 DEF StatPc
    <3> HIDE DEF k, s
    <3> QED
      BY <1>1, <3>1, CountsTyped DEF StatProcess
  <2> HIDE DEF taken, k
  <2>2. statWorker'[w] = taken
    BY <1>5 DEF CollectionInv, StatsTypeOK
  <2>3. StageFits(w)'
    BY <1>1, <1>3, <2>1, <2>2, StatsConstants DEF StageFits, k
  <2> QED
    BY <1>3, <1>4, <1>5, <2>1, <2>3, LeasesMove, QuietMoves DEF CollectionInv, StatsTypeOK
<1>6. CASE statLease' = statLease /\ statWorker' = [statWorker EXCEPT ![w] = skipped]
  <2>1. /\ skipped \in StatProcess /\ skipped.pc = "slots" /\ skipped.left = k.left
        /\ skipped.done = k.done /\ skipped.failed = k.failed /\ skipped.at = k.at
    BY <1>1 DEF StatProcess
  <2> HIDE DEF skipped, k
  <2>2. statWorker'[w] = skipped
    BY <1>6 DEF CollectionInv, StatsTypeOK
  <2>3. StageFits(w)'
    BY <1>1, <2>1, <2>2 DEF StageFits, k
  <2> QED
    BY <1>4, <1>6, <2>1, <2>3, LeasesMove, QuietMoves DEF CollectionInv, StatsTypeOK
<1>7. statWorker \in [StatWorker -> StatProcess]
  BY DEF CollectionInv, StatsTypeOK
<1> QED
  BY <1>1, <1>5, <1>6, <1>7 DEF TakeSlot, StatProcess, j

LEMMA ListCalibrationsHolds ==
  ASSUME CollectionInv, NEW w \in StatWorker, ListCalibrations(w)
  PROVE  CollectionInv'
<1> DEFINE k == statWorker[w]
           date == Date(k.at)
           j == <<"full", date>>
           new == [k EXCEPT !.pc = "calibrate", !.job = j, !.left = DueAccounts(date),
                            !.done = 0, !.failed = 0]
<1>1. k \in StatProcess /\ k.pc = "slots" /\ StageFits(w) /\ k.at \in Slot
  BY DEF CollectionInv, StatsTypeOK, ListCalibrations, StageFits
<1>2. j \in Job /\ j[1] = "full"
  BY <1>1, RunsAndJobs
<1>3. DueAccounts(date) \in SUBSET Account
  BY DEF DueAccounts
<1> HIDE DEF j, date
<1>4. UNCHANGED <<slotRun, fullRun, now, calibrated, statLease, snapshots, statFaults>>
  BY DEF ListCalibrations
<1>5. CASE statWorker' = [statWorker EXCEPT ![w] = new]
  <2>1. /\ new \in StatProcess /\ new.pc = "calibrate" /\ new.job = j
        /\ new.left = DueAccounts(date) /\ new.done = 0 /\ new.failed = 0 /\ new.at = k.at
    <3>1. "calibrate" \in StatPc /\ j \in Job \cup {NoRun}
      BY <1>2 DEF StatPc
    <3> HIDE DEF k
    <3> QED
      BY <1>1, <1>3, <3>1, CountsTyped DEF StatProcess
  <2> HIDE DEF new, k
  <2>2. statWorker'[w] = new
    BY <1>5 DEF CollectionInv, StatsTypeOK
  <2>3. StageFits(w)'
    BY <1>1, <1>2, <1>3, <2>1, <2>2, SomeAccounts DEF StageFits, k
  <2> QED
    BY <1>4, <1>5, <2>1, <2>3, LeasesMove, QuietMoves DEF CollectionInv, StatsTypeOK
<1>6. CASE statWorker' = [statWorker EXCEPT ![w] = AtRest]
  <2>1. statWorker'[w] = AtRest
    BY <1>6 DEF CollectionInv, StatsTypeOK
  <2> QED
    BY <1>4, <1>6, <2>1, RestTyped, RestFits, LeasesMove, QuietMoves DEF CollectionInv, StatsTypeOK
<1> QED
  BY <1>1, <1>5, <1>6 DEF ListCalibrations, CollectionInv, StatsTypeOK, j, date

LEMMA TakeCalibrationHolds ==
  ASSUME CollectionInv, NEW w \in StatWorker, TakeCalibration(w)
  PROVE  CollectionInv'
<1> DEFINE k == statWorker[w]
           new == [k EXCEPT !.pc = "claim"]
<1>1. /\ k \in StatProcess /\ k.pc = "calibrate" /\ StageFits(w) /\ k.job \in Job
      /\ k.job[1] = "full"
  BY DEF CollectionInv, StatsTypeOK, TakeCalibration, StageFits
<1>2. UNCHANGED <<slotRun, fullRun, now, calibrated, snapshots, statFaults>>
  BY DEF TakeCalibration
<1>3. CASE statLease' = Acquired(k.job, w) /\ statWorker' = [statWorker EXCEPT ![w] = new]
  <2>1. /\ new \in StatProcess /\ new.pc = "claim" /\ new.job = k.job /\ new.left = k.left
        /\ new.done = k.done /\ new.failed = k.failed /\ new.at = k.at
    BY <1>1 DEF StatProcess, StatPc
  <2> HIDE DEF new
  <2>2. statWorker'[w] = new
    BY <1>3 DEF CollectionInv, StatsTypeOK
  <2>3. StageFits(w)'
    BY <1>1, <2>1, <2>2 DEF StageFits
  <2> QED
    BY <1>1, <1>2, <1>3, <2>1, <2>3, LeasesMove, QuietMoves DEF CollectionInv, StatsTypeOK
<1>4. CASE statLease' = statLease /\ statWorker' = [statWorker EXCEPT ![w] = AtRest]
  <2>1. statWorker'[w] = AtRest
    BY <1>4 DEF CollectionInv, StatsTypeOK
  <2> QED
    BY <1>2, <1>4, <2>1, RestTyped, RestFits, LeasesMove, QuietMoves DEF CollectionInv, StatsTypeOK
<1> QED
  BY <1>3, <1>4 DEF TakeCalibration, To

\* A process that has claimed the run r of its job j goes to work on it.
LEMMA BegunFits ==
  ASSUME CollectionInv, NEW w \in StatWorker, NEW r \in Run, Begin(w, r),
         statWorker[w].pc = "claim", NEW j, j = statWorker[w].job, Belongs(r, j)',
         RunStatus(r)' = "running"
  PROVE  \E new \in StatProcess : /\ statWorker' = [statWorker EXCEPT ![w] = new]
                                  /\ StageFits(w)' /\ LeaseSafe(w)
<1> DEFINE k == statWorker[w]
           pc == IF k.left = {} THEN "finish" ELSE "renew"
           new == [k EXCEPT !.run = r, !.pc = pc]
<1>1. k \in StatProcess /\ k.pc = "claim" /\ k.job \in Job /\ j = k.job /\ StageFits(w)
  BY DEF CollectionInv, StatsTypeOK, StageFits
<1>2. /\ pc \in {"finish", "renew"} /\ pc \in StatPc
      /\ pc = "finish" <=> k.left = {}
  BY DEF StatPc
<1> HIDE DEF pc
<1>3. /\ new \in StatProcess /\ new.pc = pc /\ new.run = r /\ new.job = j /\ new.at = k.at
      /\ new.left = k.left /\ new.done = k.done /\ new.failed = k.failed
  <2> HIDE DEF k
  <2> QED
    BY <1>1, <1>2 DEF StatProcess
<1>4. statWorker' = [statWorker EXCEPT ![w] = new]
  BY DEF Begin, CollectionInv, StatsTypeOK, pc
<1> HIDE DEF new
<1>5. statWorker'[w] = new
  BY <1>4 DEF CollectionInv, StatsTypeOK
<1>6. r[1] = "incremental" /\ new.failed = 0 => \A a \in Account \ new.left : Stored(r, a)'
  <2> SUFFICES ASSUME r[1] = "incremental"
               PROVE  new.left = Account
    OBVIOUS
  <2>1. j[1] = "incremental"
    BY DEF Belongs
  <2> QED
    BY <1>1, <1>3, <2>1 DEF StageFits
<1>7. RunFits(w)'
  <2>1. /\ statWorker'[w].run = r /\ statWorker'[w].job = j /\ r \in Run /\ j \in Job
        /\ statWorker'[w].failed = new.failed /\ statWorker'[w].left = new.left
    BY <1>1, <1>3, <1>5
  <2> QED
    BY <1>6, <2>1 DEF RunFits
<1>8. StageFits(w)'
  <2>1. k.at \in Slot /\ k.done + k.failed + Cardinality(k.left) <= Cardinality(Account)
    BY <1>1 DEF StageFits
  <2> HIDE DEF k
  <2> QED
    BY <1>1, <1>2, <1>3, <1>5, <1>7, <2>1 DEF StageFits
<1>9. LeaseSafe(w)
  BY LeasesMove DEF Begin
<1> QED
  BY <1>3, <1>4, <1>8, <1>9

\* A process that leaves its job has no run any more.
LEMMA LeavesQuietly ==
  ASSUME CollectionInv, NEW w \in StatWorker, statWorker[w].job \in Job,
         statWorker[w].pc \notin {"down", "idle"}, Leave(w)
  PROVE  \E new \in StatProcess : /\ statWorker' = [statWorker EXCEPT ![w] = new]
                                  /\ StageFits(w)' /\ LeaseSafe(w)
<1> DEFINE k == statWorker[w]
           new == [k EXCEPT !.pc = "slots", !.job = NoRun, !.run = NoRun, !.left = {},
                            !.done = 0, !.failed = 0]
<1>1. k \in StatProcess /\ k.at \in Slot
  BY DEF CollectionInv, StatsTypeOK, StageFits
<1>2. LeaseSafe(w)
  BY LeasesMove DEF Leave
<1>3. CASE statWorker' = [statWorker EXCEPT ![w] = AtRest]
  <2>1. statWorker'[w] = AtRest
    BY <1>3 DEF CollectionInv, StatsTypeOK
  <2> QED
    BY <1>2, <1>3, <2>1, RestTyped, RestFits
<1>4. CASE statWorker' = [statWorker EXCEPT ![w] = new]
  <2>1. /\ new \in StatProcess /\ new.pc = "slots" /\ new.left = {} /\ new.done = 0
        /\ new.failed = 0 /\ new.at = k.at
    <3>1. "slots" \in StatPc
      BY DEF StatPc
    <3> HIDE DEF k
    <3> QED
      BY <1>1, <3>1, CountsTyped DEF StatProcess
  <2> HIDE DEF new
  <2>2. statWorker'[w] = new
    BY <1>4 DEF CollectionInv, StatsTypeOK
  <2>3. Cardinality(new.left) = 0
    BY <2>1, NothingCounted
  <2>4. new.done + new.failed + Cardinality(new.left) <= Cardinality(Account)
    BY <2>1, <2>3, StatsConstants
  <2>5. StageFits(w)'
    BY <1>1, <2>1, <2>2, <2>4 DEF StageFits
  <2> QED
    BY <1>2, <1>4, <2>1, <2>5
<1> QED
  BY <1>3, <1>4 DEF Leave, CollectionInv, StatsTypeOK

LEMMA ClaimSlotHolds ==
  ASSUME CollectionInv, NEW w \in StatWorker, ClaimSlot(w)
  PROVE  CollectionInv'
<1>1. /\ statWorker[w].pc = "claim" /\ statWorker[w].job \in Job
      /\ statWorker[w].job[1] = "incremental"
      /\ UNCHANGED <<now, fullRun, calibrated, snapshots, statFaults>>
  BY DEF ClaimSlot, CollectionInv, StageFits
<1>2. PICK s \in Slot : statWorker[w].job = <<"incremental", s>>
  BY <1>1, JobCases
<1> DEFINE r == <<"incremental", s>>
<1>5. r \in Run /\ statWorker[w].job = r /\ statWorker[w].job[2] = s
  BY <1>2, RunsAndJobs
<1>3. CASE Leave(w) /\ UNCHANGED slotRun
  <2>1. PICK new \in StatProcess : /\ statWorker' = [statWorker EXCEPT ![w] = new]
                                   /\ StageFits(w)' /\ LeaseSafe(w)
    BY <1>1, <1>3, LeavesQuietly
  <2> QED
    BY <1>1, <1>3, <2>1, QuietMoves DEF CollectionInv, StatsTypeOK
<1>4. CASE ClaimableSlot(s) /\ slotRun' = [slotRun EXCEPT ![s] = "running"] /\ Begin(w, r)
  <2>1. /\ slotRun' \in [Slot -> RunState] /\ slotRun'[s] = "running"
        /\ \A t \in Slot \ {s} : slotRun'[t] = slotRun[t]
    BY <1>2, <1>4 DEF CollectionInv, StatsTypeOK, RunState
  <2>2. RunStatus(r)' = "running" /\ Belongs(r, r)'
    BY <1>2, <2>1 DEF RunStatus, Belongs
  <2>3. PICK new \in StatProcess : /\ statWorker' = [statWorker EXCEPT ![w] = new]
                                   /\ StageFits(w)' /\ LeaseSafe(w)
    BY <1>1, <1>4, <1>5, <2>2, BegunFits
  <2>4. RunsRemain
    BY <1>1, <2>1 DEF RunsRemain
  <2>5. CompletedCovers'
    BY <1>1, <1>2, <2>1 DEF CollectionInv, CompletedCovers
  <2>6. ASSUME NEW v \in StatWorker \ {w}, RunFits(v), Owns(v)
        PROVE  RunStatus(statWorker[v].run)' = RunStatus(statWorker[v].run)
    <3>1. statWorker'[v] = statWorker[v] /\ statWorker[v].run \in Run
      BY <2>3, <2>6 DEF CollectionInv, StatsTypeOK, RunFits
    <3>2. RunStatus(statWorker[v].run) = "running"
      BY <2>6 DEF RunFits
    <3>3. CASE \E t \in Slot : statWorker[v].run = <<"incremental", t>>
      BY <2>1, <3>1, <3>2, <3>3 DEF RunStatus
    <3>4. CASE \E f \in FullRun : statWorker[v].run = <<"full", f>>
      BY <1>1, <3>1, <3>4 DEF RunStatus
    <3> QED
      BY <3>1, <3>3, <3>4, RunCases
  <2>7. /\ fullRun' \in [FullRun -> FullRow] /\ now' \in Slot /\ statFaults' \in 0..MaxStatFaults
        /\ calibrated' \subseteq Account \X Dates /\ snapshots' \subseteq Run \X Account
    BY <1>1 DEF CollectionInv, StatsTypeOK
  <2> QED
    BY <1>1, <2>1, <2>3, <2>4, <2>5, <2>6, <2>7, OneMoves
<1> QED
  BY <1>3, <1>4, <1>5 DEF ClaimSlot

LEMMA ClaimFullHolds ==
  ASSUME CollectionInv, NEW w \in StatWorker, ClaimFull(w)
  PROVE  CollectionInv'
<1>1. /\ statWorker[w].pc = "claim" /\ statWorker[w].job \in Job
      /\ statWorker[w].job[1] = "full"
      /\ UNCHANGED <<now, slotRun, calibrated, snapshots, statFaults>>
  BY DEF ClaimFull, CollectionInv, StageFits
<1>2. PICK date \in Dates : statWorker[w].job = <<"full", date>>
  BY <1>1, JobCases
<1> DEFINE j == <<"full", date>>
           free == {f \in FullRun : fullRun[f].status = "absent"}
<1>3. j \in Job /\ statWorker[w].job = j /\ statWorker[w].job[2] = date
  BY <1>2, RunsAndJobs
<1>4. CASE Leave(w) /\ UNCHANGED fullRun
  <2>1. PICK new \in StatProcess : /\ statWorker' = [statWorker EXCEPT ![w] = new]
                                   /\ StageFits(w)' /\ LeaseSafe(w)
    BY <1>1, <1>4, LeavesQuietly
  <2> QED
    BY <1>1, <1>4, <2>1, QuietMoves DEF CollectionInv, StatsTypeOK
<1>5. ASSUME NEW f \in RunningFull(date), Begin(w, <<"full", f>>), UNCHANGED fullRun
      PROVE  CollectionInv'
  <2>1. f \in FullRun /\ fullRun[f].status = "running" /\ fullRun[f].date = date
    BY <1>5 DEF RunningFull
  <2>2. <<"full", f>> \in Run /\ RunStatus(<<"full", f>>)' = "running"
        /\ Belongs(<<"full", f>>, j)'
    BY <1>5, <2>1, RunsAndJobs, StatusCases DEF Belongs
  <2>3. PICK new \in StatProcess : /\ statWorker' = [statWorker EXCEPT ![w] = new]
                                   /\ StageFits(w)' /\ LeaseSafe(w)
    BY <1>1, <1>3, <1>5, <2>2, BegunFits
  <2> QED
    BY <1>1, <1>5, <2>3, QuietMoves DEF CollectionInv, StatsTypeOK
<1>6. ASSUME NEW f \in free, Begin(w, <<"full", f>>),
             fullRun' = [fullRun EXCEPT ![f] = [status |-> "running", date |-> date]]
      PROVE  CollectionInv'
  <2> DEFINE row == [status |-> "running", date |-> date]
  <2>1. f \in FullRun /\ fullRun[f].status = "absent"
    BY <1>6
  <2>2. row \in FullRow /\ row.status = "running" /\ row.date = date
    BY DEF FullRow, RunState
  <2> HIDE DEF row
  <2>3. /\ fullRun' \in [FullRun -> FullRow] /\ fullRun'[f] = row
        /\ \A g \in FullRun \ {f} : fullRun'[g] = fullRun[g]
    BY <1>6, <2>1, <2>2 DEF CollectionInv, StatsTypeOK, row
  <2>4. <<"full", f>> \in Run /\ RunStatus(<<"full", f>>)' = "running"
        /\ Belongs(<<"full", f>>, j)'
    BY <2>1, <2>2, <2>3, RunsAndJobs, StatusCases DEF Belongs
  <2>5. PICK new \in StatProcess : /\ statWorker' = [statWorker EXCEPT ![w] = new]
                                   /\ StageFits(w)' /\ LeaseSafe(w)
    BY <1>1, <1>3, <1>6, <2>4, BegunFits
  <2>6. RunsRemain
    BY <1>1, <2>1, <2>3 DEF RunsRemain
  <2>7. CompletedCovers'
    BY <1>1 DEF CollectionInv, CompletedCovers
  <2>8. ASSUME NEW v \in StatWorker \ {w}, RunFits(v), Owns(v)
        PROVE  RunStatus(statWorker[v].run)' = RunStatus(statWorker[v].run)
    <3>1. statWorker'[v] = statWorker[v] /\ statWorker[v].run \in Run
      BY <2>5, <2>8 DEF CollectionInv, StatsTypeOK, RunFits
    <3>2. RunStatus(statWorker[v].run) # "absent"
      BY <2>8 DEF RunFits
    <3>3. CASE \E t \in Slot : statWorker[v].run = <<"incremental", t>>
      BY <1>1, <3>1, <3>3 DEF RunStatus
    <3>4. CASE \E g \in FullRun : statWorker[v].run = <<"full", g>>
      BY <2>1, <2>3, <3>1, <3>2, <3>4 DEF RunStatus
    <3> QED
      BY <3>1, <3>3, <3>4, RunCases
  <2>9. /\ slotRun' \in [Slot -> RunState] /\ now' \in Slot /\ statFaults' \in 0..MaxStatFaults
        /\ calibrated' \subseteq Account \X Dates /\ snapshots' \subseteq Run \X Account
    BY <1>1 DEF CollectionInv, StatsTypeOK
  <2> QED
    BY <1>1, <2>3, <2>5, <2>6, <2>7, <2>8, <2>9, OneMoves
<1>7. CASE RunningFull(date) # {}
  <2>1. RunningFull(date) \in SUBSET Nat
    BY StatsConstants DEF RunningFull
  <2>2. Min(RunningFull(date)) \in RunningFull(date)
    BY <1>7, <2>1, LeastOne
  <2> QED
    BY <1>3, <1>5, <1>7, <2>2 DEF ClaimFull
<1>8. CASE RunningFull(date) = {} /\ ~ (statWorker[w].left = {})
  <2>1. free # {} /\ free \in SUBSET Nat
    BY <1>3, <1>8, StatsConstants DEF ClaimFull
  <2>2. Min(free) \in free
    BY <2>1, LeastOne
  <2> QED
    BY <1>3, <1>6, <1>8, <2>2 DEF ClaimFull
<1> QED
  BY <1>3, <1>4, <1>7, <1>8 DEF ClaimFull

\* A run is ended by who holds its lease, and nobody else loses a run by it.
LEMMA EndsOwnRun ==
  ASSUME CollectionInv, NEW w \in StatWorker, RunFits(w), Owns(w), NEW status \in Ended,
         RunEnds(statWorker[w].run, status)
  PROVE  /\ slotRun' \in [Slot -> RunState] /\ fullRun' \in [FullRun -> FullRow] /\ RunsRemain
         /\ \A v \in StatWorker \ {w} :
              RunFits(v) /\ Owns(v) /\ statWorker'[v] = statWorker[v] =>
                RunStatus(statWorker[v].run)' = RunStatus(statWorker[v].run)
         /\ \A s \in Slot : slotRun'[s] = "completed" =>
              \/ slotRun[s] = "completed"
              \/ status = "completed" /\ statWorker[w].run = <<"incremental", s>>
         /\ \A r \in Run : RunStatus(r) \in Ended => RunStatus(r)' = RunStatus(r)
<1> DEFINE r == statWorker[w].run
<1>1. /\ r \in Run /\ statWorker[w].job \in Job /\ Belongs(r, statWorker[w].job)
      /\ RunStatus(r) = "running"
  BY DEF RunFits
<1>2. status \in RunState /\ status # "absent" /\ status # "running" /\ "running" \notin Ended
  BY DEF RunState, Ended
<1>3. /\ slotRun \in [Slot -> RunState] /\ fullRun \in [FullRun -> FullRow]
  BY DEF CollectionInv, StatsTypeOK
<1>4. ASSUME NEW v \in StatWorker \ {w}, RunFits(v), Owns(v)
      PROVE  statWorker[v].run # r
  <2>1. SUFFICES ASSUME statWorker[v].run = r PROVE FALSE
    OBVIOUS
  <2>2. statWorker[v].job = statWorker[w].job
    BY <1>1, <1>4, <2>1, OneJob DEF RunFits
  <2> QED
    BY <1>4, <2>2 DEF Owns
<1>5. /\ slotRun' \in [Slot -> RunState] /\ fullRun' \in [FullRun -> FullRow]
      /\ \A q \in Run \ {r} : IF q[1] = "incremental" THEN slotRun'[q[2]] = slotRun[q[2]]
                              ELSE fullRun'[q[2]] = fullRun[q[2]]
      /\ \A f \in FullRun : fullRun'[f].date = fullRun[f].date
      /\ IF r[1] = "incremental" THEN slotRun'[r[2]] = status ELSE fullRun'[r[2]].status = status
  <2>1. CASE \E s \in Slot : r = <<"incremental", s>>
    <3>1. PICK s \in Slot : r = <<"incremental", s>>
      BY <2>1
    <3>2. slotRun' = [slotRun EXCEPT ![s] = status] /\ fullRun' = fullRun /\ r[1] = "incremental" /\ r[2] = s
      BY <3>1 DEF RunEnds
    <3>3. \A q \in Run \ {r} : q[1] = "incremental" => q[2] \in Slot \ {s}
      BY <3>1, RunCases
    <3> HIDE DEF r
    <3> QED
      BY <1>2, <1>3, <3>2, <3>3
  <2>2. CASE \E f \in FullRun : r = <<"full", f>>
    <3>1. PICK f \in FullRun : r = <<"full", f>>
      BY <2>2
    <3> DEFINE row == [fullRun[f] EXCEPT !.status = status]
    <3>2. fullRun' = [fullRun EXCEPT ![f] = row] /\ slotRun' = slotRun /\ r[1] = "full" /\ r[2] = f
      BY <1>3, <3>1 DEF RunEnds
    <3>3. row \in FullRow /\ row.date = fullRun[f].date /\ row.status = status
      BY <1>2, <1>3 DEF FullRow
    <3>4. \A q \in Run \ {r} : q[1] # "incremental" => q[2] \in FullRun \ {f}
      BY <3>1, RunCases
    <3> HIDE DEF r, row
    <3> QED
      BY <1>2, <1>3, <3>2, <3>3, <3>4
  <2> QED
    BY <1>1, <2>1, <2>2, RunCases
<1> HIDE DEF r
<1>6. \A q \in Run \ {r} : RunStatus(q)' = RunStatus(q)
  BY <1>5 DEF RunStatus
<1>7. RunStatus(r) = "running" /\ RunStatus(r) \notin Ended
  BY <1>1, <1>2
<1>8. \A s \in Slot : <<"incremental", s>> # r => slotRun'[s] = slotRun[s]
  BY <1>6, RunsAndJobs, StatusCases
<1>9. \A s \in Slot : <<"incremental", s>> = r => slotRun'[s] = status
  BY <1>5
<1>10. \A f \in FullRun : <<"full", f>> # r => fullRun'[f].status = fullRun[f].status
  BY <1>6, RunsAndJobs, StatusCases
<1>11. \A f \in FullRun : <<"full", f>> = r => fullRun'[f].status = status
  BY <1>5
<1>12. RunsRemain
  BY <1>2, <1>5, <1>8, <1>9, <1>10, <1>11 DEF RunsRemain
<1>13. ASSUME NEW v \in StatWorker \ {w}, RunFits(v), Owns(v), statWorker'[v] = statWorker[v]
       PROVE  RunStatus(statWorker[v].run)' = RunStatus(statWorker[v].run)
  <2>1. statWorker[v].run \in Run \ {r}
    BY <1>4, <1>13 DEF RunFits, r
  <2> QED
    BY <1>13, <1>5, <2>1 DEF RunStatus
<1> QED
  BY <1>5, <1>6, <1>7, <1>8, <1>9, <1>12, <1>13 DEF r

\* A run ends, and what w does next is what new says.
LEMMA EndHolds ==
  ASSUME CollectionInv, NEW w \in StatWorker, RunFits(w), Owns(w), NEW status \in Ended,
         RunEnds(statWorker[w].run, status), NEW new \in StatProcess,
         statWorker' = [statWorker EXCEPT ![w] = new], StageFits(w)', LeaseSafe(w),
         UNCHANGED <<now, calibrated, snapshots>>, statFaults' \in 0..MaxStatFaults,
         status = "completed" => statWorker[w].failed = 0 /\ statWorker[w].left = {}
  PROVE  CollectionInv'
<1>1. \A v \in StatWorker \ {w} : statWorker'[v] = statWorker[v]
  BY DEF CollectionInv, StatsTypeOK
<1>2. CompletedCovers'
  <2> SUFFICES ASSUME NEW s \in Slot, slotRun'[s] = "completed", NEW a \in Account
               PROVE  <<<<"incremental", s>>, a>> \in snapshots
    BY DEF CompletedCovers
  <2>1. CASE slotRun[s] = "completed"
    BY <2>1 DEF CollectionInv, CompletedCovers
  <2>2. CASE status = "completed" /\ statWorker[w].run = <<"incremental", s>>
    BY <2>2 DEF RunFits, Stored
  <2> QED
    BY <2>1, <2>2, EndsOwnRun
<1>3. /\ now' \in Slot /\ statFaults' \in 0..MaxStatFaults
      /\ calibrated' \subseteq Account \X Dates /\ snapshots' \subseteq Run \X Account
  BY DEF CollectionInv, StatsTypeOK
<1> QED
  BY <1>1, <1>2, <1>3, EndsOwnRun, OneMoves

LEMMA RaiseHolds ==
  ASSUME CollectionInv, NEW w \in StatWorker, RunFits(w), Raise(w),
         UNCHANGED <<now, calibrated, snapshots>>, statFaults' \in 0..MaxStatFaults
  PROVE  CollectionInv'
<1>1. statWorker' = [statWorker EXCEPT ![w] = Stopped] /\ statWorker'[w] = Stopped
  BY DEF Raise, CollectionInv, StatsTypeOK
<1>2. LeaseSafe(w)
  BY LeasesMove DEF Raise, RunFits
<1>3. StageFits(w)'
  BY <1>1, RestFits
<1>4. CASE Owns(w) /\ RunEnds(statWorker[w].run, "failed")
  BY <1>1, <1>2, <1>3, <1>4, RestTyped, EndHolds DEF Ended
<1>5. CASE UNCHANGED <<slotRun, fullRun>>
  BY <1>1, <1>2, <1>3, <1>5, RestTyped, QuietMoves DEF CollectionInv, StatsTypeOK
<1> QED
  BY <1>4, <1>5 DEF Raise, MayEndRun

LEMMA RenewHolds ==
  ASSUME CollectionInv, NEW w \in StatWorker, Renew(w)
  PROVE  CollectionInv'
<1> DEFINE k == statWorker[w]
           pc == IF k.pc = "renew" THEN "collect" ELSE IF k.left = {} THEN "finish" ELSE "renew"
           new == [k EXCEPT !.pc = pc]
<1>1. /\ k \in StatProcess /\ k.pc \in {"renew", "check"} /\ StageFits(w) /\ RunFits(w)
      /\ UNCHANGED <<now, calibrated, snapshots, statFaults>>
      /\ statFaults' \in 0..MaxStatFaults
  BY DEF CollectionInv, StatsTypeOK, Renew, StageFits
<1>2. CASE Raise(w)
  BY <1>1, <1>2, RaiseHolds
<1>3. CASE To(w, pc) /\ UNCHANGED <<slotRun, fullRun, statLease>>
  <2>1. /\ pc \in StatPc /\ pc \in {"collect", "finish", "renew"}
        /\ pc = "finish" => k.left = {}
        /\ pc \in {"collect", "renew"} => k.left # {}
    BY <1>1 DEF StatPc, StageFits
  <2> HIDE DEF pc
  <2>2. /\ new \in StatProcess /\ new.pc = pc /\ new.run = k.run /\ new.job = k.job
        /\ new.at = k.at /\ new.left = k.left /\ new.done = k.done /\ new.failed = k.failed
    BY <1>1, <2>1 DEF StatProcess
  <2>3. statWorker' = [statWorker EXCEPT ![w] = new]
    BY <1>3 DEF To
  <2> HIDE DEF new
  <2>4. statWorker'[w] = new
    BY <2>3 DEF CollectionInv, StatsTypeOK
  <2>5. RunFits(w)'
    <3>1. Owns(w)' <=> Owns(w)
      BY <1>3, <2>2, <2>4 DEF Owns
    <3>2. RunStatus(k.run)' = RunStatus(k.run) /\ (Belongs(k.run, k.job) => Belongs(k.run, k.job)')
      BY <1>3, <2>2, <2>4 DEF RunStatus, Belongs
    <3> QED
      BY <1>1, <1>3, <2>2, <2>4, <3>1, <3>2 DEF RunFits, Stored
  <2>6. StageFits(w)'
    <3>1. k.at \in Slot /\ k.done + k.failed + Cardinality(k.left) <= Cardinality(Account)
      BY <1>1 DEF StageFits
    <3> HIDE DEF k
    <3> QED
      BY <2>1, <2>2, <2>4, <2>5, <3>1 DEF StageFits
  <2> QED
    BY <1>1, <1>3, <2>2, <2>3, <2>6, LeasesMove, QuietMoves DEF CollectionInv, StatsTypeOK
<1> QED
  BY <1>2, <1>3 DEF Renew

\* A result of an account: it is stored, or it has failed.
LEMMA ResultHolds ==
  ASSUME CollectionInv, NEW w \in StatWorker, statWorker[w].pc = "collect",
         NEW a \in Account, a = Min(statWorker[w].left),
         NEW done \in Nat, NEW failed \in Nat, NEW new,
         \/ /\ done = statWorker[w].done + 1 /\ failed = statWorker[w].failed
            /\ <<statWorker[w].run, a>> \in snapshots'
         \/ done = statWorker[w].done /\ failed = statWorker[w].failed + 1,
         new = [statWorker[w] EXCEPT !.pc = "check", !.left = statWorker[w].left \ {a},
                                     !.done = done, !.failed = failed],
         statWorker' = [statWorker EXCEPT ![w] = new],
         UNCHANGED <<slotRun, fullRun, now, statLease>>,
         calibrated' \subseteq Account \X Dates, snapshots' \subseteq Run \X Account,
         snapshots \subseteq snapshots', statFaults' \in 0..MaxStatFaults
  PROVE  CollectionInv'
<1> DEFINE k == statWorker[w]
<1>1. /\ k \in StatProcess /\ StageFits(w) /\ RunFits(w) /\ k.left # {} /\ k.at \in Slot
      /\ k.left \in SUBSET Account /\ k.done \in Nat /\ k.failed \in Nat
      /\ k.done + k.failed + Cardinality(k.left) <= Cardinality(Account)
  BY StatsConstants DEF CollectionInv, StatsTypeOK, StageFits, StatProcess
<1>2. /\ a \in k.left /\ Cardinality(k.left \ {a}) + 1 = Cardinality(k.left)
      /\ Cardinality(k.left \ {a}) \in Nat /\ Cardinality(k.left) \in Nat
  BY <1>1, SomeAccounts
<1>3. /\ done + failed + Cardinality(k.left \ {a}) <= Cardinality(Account)
      /\ done \in 0..Cardinality(Account) /\ failed \in 0..Cardinality(Account)
      /\ failed = 0 => k.failed = 0 /\ <<k.run, a>> \in snapshots'
  BY <1>1, <1>2, StatsConstants
<1>4. /\ new \in StatProcess /\ new.pc = "check" /\ new.run = k.run /\ new.job = k.job
      /\ new.at = k.at /\ new.left = k.left \ {a} /\ new.done = done /\ new.failed = failed
  <2>1. "check" \in StatPc /\ k.left \ {a} \in SUBSET Account
    BY <1>1 DEF StatPc
  <2> QED
    BY <1>1, <1>3, <2>1 DEF StatProcess
<1>5. statWorker'[w] = new
  BY DEF CollectionInv, StatsTypeOK
<1>6. k.run[1] = "incremental" /\ failed = 0 => \A b \in Account \ new.left : Stored(k.run, b)'
  <2> SUFFICES ASSUME k.run[1] = "incremental", failed = 0, NEW b \in Account \ new.left
               PROVE  <<k.run, b>> \in snapshots'
    BY <1>4, <1>5 DEF Stored
  <2>1. CASE b = a
    BY <1>3, <2>1
  <2>2. CASE b # a
    BY <1>1, <1>3, <1>4, <2>2 DEF RunFits, Stored
  <2> QED
    BY <2>1, <2>2
<1>7. RunFits(w)'
  <2>1. Owns(w)' <=> Owns(w)
    BY <1>4, <1>5 DEF Owns
  <2>2. RunStatus(k.run)' = RunStatus(k.run) /\ (Belongs(k.run, k.job) => Belongs(k.run, k.job)')
    BY <1>4, <1>5 DEF RunStatus, Belongs
  <2> QED
    BY <1>1, <1>4, <1>5, <1>6, <2>1, <2>2 DEF RunFits
<1>8. StageFits(w)'
  <2> HIDE DEF k
  <2> QED
    BY <1>1, <1>3, <1>4, <1>5, <1>7 DEF StageFits
<1> QED
  BY <1>4, <1>8, LeasesMove, QuietMoves

LEMMA CollectHolds ==
  ASSUME CollectionInv, NEW w \in StatWorker, NEW a \in Account,
         Collect(w, a) \/ CollectFails(w, a)
  PROVE  CollectionInv'
<1> DEFINE k == statWorker[w]
           r == k.run
<1>1. /\ k \in StatProcess /\ k.pc = "collect" /\ a = Min(k.left) /\ RunFits(w)
      /\ k.done \in Nat /\ k.failed \in Nat
      /\ k.done + 1 \in Nat /\ k.failed + 1 \in Nat
      /\ UNCHANGED <<slotRun, fullRun, now, statLease>>
  BY StatsConstants DEF Collect, CollectFails, CollectionInv, StatsTypeOK, StageFits, StatProcess
<1>2. r \in Run /\ k.job \in Job /\ Belongs(r, k.job)
  BY <1>1 DEF RunFits
<1>3. /\ statWorker \in [StatWorker -> StatProcess] /\ snapshots \subseteq Run \X Account
      /\ calibrated \subseteq Account \X Dates /\ statFaults \in 0..MaxStatFaults
  BY DEF CollectionInv, StatsTypeOK
<1>4. CASE Collect(w, a) /\ Guarded(w)
  <2>1. snapshots' = snapshots \cup {<<r, a>>} /\ statFaults' = statFaults
    BY <1>4 DEF Collect
  <2>2. calibrated' \subseteq Account \X Dates
    <3>1. r[1] = "full" => k.job[2] \in Dates
      BY <1>2, RunCases, JobCases DEF Belongs
    <3> QED
      BY <1>3, <1>4, <3>1 DEF Collect
  <2>3. statWorker' = [statWorker EXCEPT ![w] =
                         [k EXCEPT !.pc = "check", !.left = k.left \ {a},
                                   !.done = k.done + 1, !.failed = k.failed]]
    <3>1. statWorker' = [statWorker EXCEPT ![w] =
                           [k EXCEPT !.pc = "check", !.left = k.left \ {a},
                                     !.done = k.done + 1]]
      BY <1>1, <1>3, <1>4 DEF Collect
    <3>2. [k EXCEPT !.pc = "check", !.left = k.left \ {a}, !.done = k.done + 1]
          = [k EXCEPT !.pc = "check", !.left = k.left \ {a}, !.done = k.done + 1,
                      !.failed = k.failed]
      BY <1>1 DEF StatProcess
    <3> QED
      BY <3>1, <3>2
  <2>4. /\ snapshots' \subseteq Run \X Account /\ snapshots \subseteq snapshots'
        /\ <<r, a>> \in snapshots'
    BY <1>2, <1>3, <2>1
  <2> QED
    BY <1>1, <1>3, <2>1, <2>2, <2>3, <2>4, ResultHolds
<1>5. ASSUME statWorker' = [statWorker EXCEPT ![w] =
                              [k EXCEPT !.pc = "check", !.left = k.left \ {a},
                                        !.failed = k.failed + 1]],
             UNCHANGED <<snapshots, calibrated>>, statFaults' \in 0..MaxStatFaults
      PROVE  CollectionInv'
  <2>1. [k EXCEPT !.pc = "check", !.left = k.left \ {a}, !.failed = k.failed + 1]
        = [k EXCEPT !.pc = "check", !.left = k.left \ {a}, !.done = k.done,
                    !.failed = k.failed + 1]
    BY <1>1 DEF StatProcess
  <2> QED
    BY <1>1, <1>3, <1>5, <2>1, ResultHolds
<1>6. CASE Collect(w, a) /\ ~Guarded(w)
  <2>1. /\ statWorker' = [statWorker EXCEPT ![w] =
                            [k EXCEPT !.pc = "check", !.left = k.left \ {a},
                                      !.failed = k.failed + 1]]
        /\ UNCHANGED <<snapshots, calibrated, statFaults>>
    BY <1>1, <1>3, <1>6 DEF Collect
  <2> QED
    BY <1>3, <1>5, <2>1
<1>7. CASE CollectFails(w, a)
  <2>1. /\ statWorker' = [statWorker EXCEPT ![w] =
                            [k EXCEPT !.pc = "check", !.left = k.left \ {a},
                                      !.failed = k.failed + 1]]
        /\ UNCHANGED <<snapshots, calibrated>>
    BY <1>1, <1>3, <1>7 DEF CollectFails
  <2>2. statFaults' \in 0..MaxStatFaults
    BY <1>3, <1>7, StatsConstants DEF CollectFails, StatFault
  <2> QED
    BY <1>5, <2>1, <2>2
<1> QED
  BY <1>4, <1>6, <1>7

LEMMA FinishHolds ==
  ASSUME CollectionInv, NEW w \in StatWorker, FinishRun(w)
  PROVE  CollectionInv'
<1>1. /\ statWorker[w] \in StatProcess /\ statWorker[w].pc = "finish" /\ RunFits(w)
      /\ statWorker[w].left = {} /\ statWorker[w].job \in Job
      /\ UNCHANGED <<now, calibrated, snapshots, statFaults>>
      /\ statFaults' \in 0..MaxStatFaults
  BY DEF FinishRun, CollectionInv, StatsTypeOK, StageFits, RunFits
<1>2. CASE Raise(w)
  BY <1>1, <1>2, RaiseHolds
<1>3. CASE Owns(w) /\ RunEnds(statWorker[w].run, Status(w)) /\ Leave(w)
  <2>1. PICK new \in StatProcess : /\ statWorker' = [statWorker EXCEPT ![w] = new]
                                   /\ StageFits(w)' /\ LeaseSafe(w)
    BY <1>1, <1>3, LeavesQuietly
  <2>2. Status(w) \in Ended /\ (Status(w) = "completed" => statWorker[w].failed = 0)
    BY DEF Status, Ended
  <2> QED
    BY <1>1, <1>3, <2>1, <2>2, EndHolds
<1> QED
  BY <1>2, <1>3 DEF FinishRun, MayEndRun

\* Nobody moves: leases expire or are lost, and slots begin.
LEMMA WorldHolds ==
  ASSUME CollectionInv, UNCHANGED <<slotRun, fullRun, calibrated, statWorker, snapshots>>,
         now' \in Slot, statFaults' \in 0..MaxStatFaults, statLease' \in [Job -> Lease],
         \A j \in Job : statLease'[j].live => statLease'[j] = statLease[j]
  PROVE  CollectionInv'
<1>1. RunsRemain
  BY DEF RunsRemain
<1>2. ASSUME NEW v \in StatWorker
      PROVE  StageFits(v)'
  <2>1. RunFits(v) => (Owns(v)' => Owns(v))
    BY <1>2 DEF RunFits, Owns
  <2>2. RunStatus(statWorker[v].run)' = RunStatus(statWorker[v].run)
    BY DEF RunStatus
  <2> QED
    BY <1>1, <1>2, <2>1, <2>2, OthersFit
<1>3. CompletedCovers'
  BY DEF CollectionInv, CompletedCovers
<1> QED
  BY <1>2, <1>3 DEF CollectionInv, StatsTypeOK

LEMMA LapseHolds ==
  ASSUME CollectionInv, NEW j \in Job, LeaseLapses(j) \/ DeadLeaseExpires(j)
  PROVE  CollectionInv'
<1> DEFINE l == [statLease[j] EXCEPT !.live = FALSE]
<1>1. /\ statLease' = [statLease EXCEPT ![j] = l]
      /\ UNCHANGED <<now, slotRun, fullRun, calibrated, statWorker, snapshots>>
  BY DEF LeaseLapses, DeadLeaseExpires
<1>2. statLease \in [Job -> Lease] /\ now \in Slot /\ statFaults \in 0..MaxStatFaults
  BY DEF CollectionInv, StatsTypeOK
<1>3. l \in Lease /\ l.live = FALSE
  BY <1>2 DEF Lease
<1>4. statFaults' \in 0..MaxStatFaults
  BY <1>2, StatsConstants DEF LeaseLapses, DeadLeaseExpires, StatFault
<1> HIDE DEF l
<1>5. /\ statLease' \in [Job -> Lease]
      /\ \A k \in Job : statLease'[k].live => statLease'[k] = statLease[k]
  BY <1>1, <1>2, <1>3
<1> QED
  BY <1>1, <1>2, <1>4, <1>5, WorldHolds

LEMMA DeathHolds ==
  ASSUME CollectionInv, NEW w \in StatWorker, StatWorkerDies(w)
  PROVE  CollectionInv'
<1>1. statWorker' = [statWorker EXCEPT ![w] = Stopped] /\ statWorker'[w] = Stopped
  BY DEF StatWorkerDies, CollectionInv, StatsTypeOK
<1>2. UNCHANGED <<now, slotRun, fullRun, calibrated, snapshots>>
  BY DEF StatWorkerDies
<1>3. /\ statLease \in [Job -> Lease] /\ statFaults \in 0..MaxStatFaults
      /\ snapshots \subseteq Run \X Account /\ calibrated \subseteq Account \X Dates
  BY DEF CollectionInv, StatsTypeOK
<1>4. statFaults' \in 0..MaxStatFaults
  BY <1>3, StatsConstants DEF StatWorkerDies, StatFault
<1>5. ASSUME NEW k \in Job
      PROVE  /\ statLease'[k] \in Lease
             /\ \A v \in StatWorker \ {w} : statLease'[k].owner = v => statLease'[k] = statLease[k]
  <2>1. CASE statLease[k].owner = w
    <3>1. statLease'[k] = [statLease[k] EXCEPT !.owner = "gone"]
      BY <1>5, <2>1 DEF StatWorkerDies
    <3>2. statLease'[k] \in Lease /\ statLease'[k].owner = "gone"
      BY <1>3, <1>5, <3>1 DEF Lease
    <3> QED
      BY <3>2, StatsConstants
  <2>2. CASE statLease[k].owner # w
    BY <1>3, <1>5, <2>2 DEF StatWorkerDies
  <2> QED
    BY <2>1, <2>2
<1>6. LeaseSafe(w)
  BY <1>5 DEF LeaseSafe, StatWorkerDies
<1>7. StageFits(w)'
  BY <1>1, RestFits
<1> QED
  BY <1>1, <1>2, <1>3, <1>4, <1>6, <1>7, RestTyped, QuietMoves

LEMMA StartHolds ==
  ASSUME CollectionInv, NEW w \in StatWorker, StatWorkerStarts(w)
  PROVE  CollectionInv'
<1>1. statWorker' = [statWorker EXCEPT ![w] = AtRest] /\ statWorker'[w] = AtRest
  BY DEF StatWorkerStarts, CollectionInv, StatsTypeOK
<1>2. LeaseSafe(w)
  BY LeasesMove DEF StatWorkerStarts
<1>3. StageFits(w)'
  BY <1>1, RestFits
<1> QED
  BY <1>1, <1>2, <1>3, RestTyped, QuietMoves DEF StatWorkerStarts, CollectionInv, StatsTypeOK

LEMMA JobRaisesHolds ==
  ASSUME CollectionInv, NEW w \in StatWorker, JobRaises(w)
  PROVE  CollectionInv'
<1>1. RunFits(w)
  BY DEF JobRaises, CollectionInv, StageFits
<1>2. statFaults' \in 0..MaxStatFaults
  BY StatsConstants DEF JobRaises, StatFault, CollectionInv, StatsTypeOK
<1> QED
  BY <1>1, <1>2, RaiseHolds DEF JobRaises

LEMMA CollectionStays ==
  ASSUME CollectionInv, [StatNext]_statVars
  PROVE  CollectionInv'
<1>1. CASE UNCHANGED statVars
  BY <1>1, WorldHolds DEF statVars, CollectionInv, StatsTypeOK
<1>2. CASE NextSlotBegins
  <2>1. now' \in Slot
    BY <1>2, StatsConstants DEF NextSlotBegins, CollectionInv, StatsTypeOK, Slot
  <2> QED
    BY <1>2, <2>1, WorldHolds DEF NextSlotBegins, CollectionInv, StatsTypeOK
<1> QED
  BY <1>1, <1>2, BeginCollectingHolds, TakeSlotHolds, ListCalibrationsHolds, TakeCalibrationHolds,
     ClaimSlotHolds, ClaimFullHolds, RenewHolds, FinishHolds, CollectHolds, DeathHolds, LapseHolds,
     StartHolds, JobRaisesHolds
     DEF StatNext, StatStep

LEMMA CollectionStarts ==
  ASSUME StatInit
  PROVE  CollectionInv
<1>1. StatsTypeOK
  <2>1. 1 \in Slot /\ "absent" \in RunState /\ 0 \in 0..MaxStatFaults
    BY StatsConstants DEF Slot, RunState
  <2>2. [status |-> "absent", date |-> 0] \in FullRow
    BY <2>1 DEF FullRow
  <2>3. [owner |-> "nobody", live |-> FALSE] \in Lease
    BY DEF Lease
  <2> QED
    BY <2>1, <2>2, <2>3, RestTyped DEF StatInit, StatsTypeOK
<1>2. \A w \in StatWorker : StageFits(w)
  <2>1. AtRest.pc = "idle" /\ AtRest.done = 0 /\ AtRest.failed = 0 /\ AtRest.left = {}
    BY DEF AtRest
  <2>2. \A w \in StatWorker : statWorker[w] = AtRest
    BY DEF StatInit
  <2>3. AtRest.done + AtRest.failed + Cardinality(AtRest.left) <= Cardinality(Account)
    BY RestTyped, StatsConstants
  <2> QED
    BY <2>1, <2>2, <2>3 DEF StageFits
<1>3. CompletedCovers
  BY DEF StatInit, CompletedCovers
<1> QED
  BY <1>1, <1>2, <1>3 DEF CollectionInv

\* A step that touches a run that has ended.
LEMMA EndedStays ==
  ASSUME CollectionInv, [StatNext]_statVars, NEW r \in Run, RunStatus(r) \in Ended
  PROVE  RunStatus(r)' = RunStatus(r)
<1>1. CASE UNCHANGED <<slotRun, fullRun>>
  BY <1>1 DEF RunStatus
<1>2. ASSUME NEW w \in StatWorker, RunFits(w), Raise(w)
      PROVE  RunStatus(r)' = RunStatus(r)
  BY <1>1, <1>2, EndsOwnRun DEF Raise, MayEndRun, Ended
<1>3. ASSUME NEW w \in StatWorker, ClaimSlot(w)
      PROVE  RunStatus(r)' = RunStatus(r)
  <2>1. CASE ClaimableSlot(statWorker[w].job[2]) /\ fullRun' = fullRun
             /\ slotRun' = [slotRun EXCEPT ![statWorker[w].job[2]] = "running"]
    <3>1. "absent" \notin Ended /\ "running" \notin Ended
      BY DEF Ended
    <3>2. CASE \E s \in Slot : r = <<"incremental", s>>
      BY <2>1, <3>1, <3>2 DEF RunStatus, ClaimableSlot, CollectionInv, StatsTypeOK
    <3>3. CASE \E f \in FullRun : r = <<"full", f>>
      BY <2>1, <3>3 DEF RunStatus
    <3> QED
      BY <3>2, <3>3, RunCases
  <2> QED
    BY <1>1, <1>3, <2>1 DEF ClaimSlot
<1>4. ASSUME NEW w \in StatWorker, ClaimFull(w)
      PROVE  RunStatus(r)' = RunStatus(r)
  <2> DEFINE free == {f \in FullRun : fullRun[f].status = "absent"}
  <2>1. ASSUME NEW row, slotRun' = slotRun, free # {},
               fullRun' = [fullRun EXCEPT ![Min(free)] = row]
        PROVE  RunStatus(r)' = RunStatus(r)
    <3>1. Min(free) \in free
      BY <2>1, StatsConstants, LeastOne
    <3>2. "absent" \notin Ended
      BY DEF Ended
    <3>3. CASE \E s \in Slot : r = <<"incremental", s>>
      BY <2>1, <3>3 DEF RunStatus
    <3>4. CASE \E f \in FullRun : r = <<"full", f>>
      BY <2>1, <3>1, <3>2, <3>4 DEF RunStatus, CollectionInv, StatsTypeOK
    <3> QED
      BY <3>3, <3>4, RunCases
  <2> QED
    BY <1>1, <1>4, <2>1 DEF ClaimFull
<1>5. ASSUME NEW w \in StatWorker, Renew(w)
      PROVE  RunStatus(r)' = RunStatus(r)
  BY <1>1, <1>2, <1>5 DEF Renew, CollectionInv, StageFits
<1>6. ASSUME NEW w \in StatWorker, FinishRun(w)
      PROVE  RunStatus(r)' = RunStatus(r)
  <2>1. RunFits(w)
    BY <1>6 DEF FinishRun, CollectionInv, StageFits
  <2>2. Status(w) \in Ended
    BY DEF Status, Ended
  <2> QED
    BY <1>2, <1>6, <2>1, <2>2, EndsOwnRun DEF FinishRun, MayEndRun
<1>7. ASSUME NEW w \in StatWorker, JobRaises(w)
      PROVE  RunStatus(r)' = RunStatus(r)
  BY <1>2, <1>7 DEF JobRaises, CollectionInv, StageFits
<1> QED
  BY <1>1, <1>3, <1>4, <1>5, <1>6, <1>7 DEF StatNext, StatStep, statVars, BeginCollecting, TakeSlot,
     ListCalibrations, TakeCalibration, Collect, CollectFails, NextSlotBegins, LeaseLapses,
     DeadLeaseExpires, StatWorkerDies, StatWorkerStarts

LEMMA StoredBeforeEnd ==
  ASSUME CollectionInv, [StatNext]_statVars, NEW r \in Run, NEW a \in Account,
         <<r, a>> \in snapshots' \ snapshots
  PROVE  RunStatus(r) = "running"
<1>1. PICK w \in StatWorker : \E b \in Account : Collect(w, b)
  BY DEF StatNext, StatStep, statVars, BeginCollecting, TakeSlot, ListCalibrations,
     TakeCalibration, ClaimSlot, ClaimFull, Renew, FinishRun, CollectFails, NextSlotBegins,
     LeaseLapses, DeadLeaseExpires, StatWorkerDies, StatWorkerStarts, JobRaises
<1>2. Guarded(w) /\ statWorker[w].pc = "collect" /\ r = statWorker[w].run
  BY <1>1 DEF Collect
<1> QED
  BY <1>2 DEF Guarded, CollectionInv, StageFits, RunFits

\* The worker that holds the lease of a job, and only this one, decides what the run contains
\* and how it ended, for any accounts, slots, workers and faults: a completed slot has all
\* accounts, an ended run keeps its status, and nothing is stored for it any more.
THEOREM CollectionHolds == StatSpec => CollectionSafe
<1>1. StatInit => CollectionInv
  BY CollectionStarts
<1>2. CollectionInv /\ [StatNext]_statVars => CollectionInv'
  BY CollectionStays
<1>3. CollectionInv => StatsTypeOK /\ CompletedCovers
  BY DEF CollectionInv
<1>4. CollectionInv /\ [StatNext]_statVars =>
        [\A r \in Run : RunStatus(r) \in Ended => RunStatus(r)' = RunStatus(r)]_statVars
  BY EndedStays
<1>5. CollectionInv /\ [StatNext]_statVars =>
        [\A r \in Run, a \in Account :
           <<r, a>> \in snapshots' \ snapshots => RunStatus(r) = "running"]_statVars
  BY StoredBeforeEnd
<1> QED
  BY <1>1, <1>2, <1>3, <1>4, <1>5, PTL
     DEF StatSpec, CollectionSafe, EndedRunStays, StoredWhileRunning
===============================================================================
