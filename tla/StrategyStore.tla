----------------------------- MODULE StrategyStore -----------------------------
(***************************************************************************)
(* The strategies of browser execution V2, the elements they use, and the  *)
(* releases made of them (execution_v2/store.py, strategy.py, service.py). *)
(*                                                                         *)
(* Requests of several threads call it, each with connections of its own   *)
(* to one SQLite database.  A connection reads outside any transaction     *)
(* until its first write; only the publication protocol begins with BEGIN  *)
(* IMMEDIATE.  What a request read before it holds the lock is in          *)
(* `request`.                                                              *)
(***************************************************************************)
EXTENDS Naturals, FiniteSets

CONSTANTS
  Strategy,      \* the ids of strategies
  ReadyElement,  \* the elements with purpose "readiness"
  ActionElement, \* the elements with purpose "action"
  Page,          \* what else a definition says: target_url, run_mode, ...
  Definition,    \* the definitions a picker may record for an element
  ActionId,      \* enough of new_action_id()
  ElementStatus,        \* the statuses of elements, of "active", "repick_required" and "disabled"
  Client,        \* requests that may overlap
  MaxRevision,   \* bound on the revisions of a row
  MaxSource,     \* bound on the source revisions of an action
  MaxRuns,       \* bound on the debug runs
  MaxReleases,   \* bound on the releases
  NoStrategy

Element == ReadyElement \cup ActionElement

ASSUME StrategyAssumption ==
  /\ Strategy # {} /\ Page # {} /\ Definition # {}
  /\ ReadyElement \cap ActionElement = {} /\ ReadyElement # {}
  /\ NoStrategy \notin Strategy
  /\ "active" \in ElementStatus /\ ElementStatus \subseteq {"active", "repick_required", "disabled"}
  /\ MaxRevision \in Nat \ {0} /\ MaxRuns \in Nat
  /\ MaxSource \in Nat /\ MaxReleases \in Nat

VARIABLES
  element,   \* elements and element_revisions
  strategy,  \* strategies and strategy_actions
  identity,  \* strategy_action_identities
  debug,     \* strategy_debug_runs, a set of rows with their run_id
  release,   \* strategy_releases
  request    \* what each client's request has read

stratVars == <<element, strategy, identity, debug, release, request>>

-------------------------------------------------------------------------------
\* A definition as the editor sends it.
Draft == [page : Page, ready : ReadyElement, acts : SUBSET ActionElement]

ElementRow == [status : ElementStatus \cup {"absent"},
               rev : 0..MaxRevision, def : Definition,
               known : SUBSET (1..(MaxRevision + 1))]      \* element_revisions

\* Revision 0 is a row that is not there.  `acts` is the strategy_actions rows.
StrategyRow == [rev : 0..MaxRevision, page : Page, ready : ReadyElement,
                acts : SUBSET ActionElement]

\* _strategy_content_document, what content_checksum is the checksum of
Document == [page : Page, ready : ReadyElement, acts : SUBSET ActionElement,
             elements : [Element -> [status : ElementStatus \cup {"absent"},
                                     rev : 0..MaxRevision, def : Definition]]]

Unused(e) == [status |-> "absent", rev |-> 0, def |-> CHOOSE d \in Definition : TRUE]
Blank == [rev |-> 0, page |-> CHOOSE p \in Page : TRUE, ready |-> CHOOSE e \in ReadyElement : TRUE,
          acts |-> {}]

Uses(r) == {r.ready} \cup r.acts              \* referenced_element_ids
Exists(s) == strategy[s].rev # 0
Readable(s) == \A e \in Uses(strategy[s]) : element[e].status # "absent"

ContentOf(s) ==
  [page |-> strategy[s].page, ready |-> strategy[s].ready, acts |-> strategy[s].acts,
   elements |-> [e \in Element |->
     IF e \in Uses(strategy[s])
     THEN [status |-> element[e].status, rev |-> element[e].rev, def |-> element[e].def]
     ELSE Unused(e)]]

\* An identity: bound to a strategy, or free (never used), or left by a deleted one.
\* `sum` holds the empty checksum or the document the checksum is of.
Identity == [strategy : Strategy \cup {NoStrategy}, src : Nat, sum : SUBSET Document,
             used : BOOLEAN, dead : BOOLEAN]

DebugRow == [id : Nat, action : ActionId, src : Nat, sum : Document,
             status : {"RUNNING", "SUCCEEDED", "FAILED"}]

ReleaseRow == [action : ActionId, revision : Nat, src : Nat, sum : Document,
               validated : BOOLEAN, central : 0..2]

Requests == [pc : {"idle", "validate", "write", "insert", "delete", "repick", "refs", "drop",
                   "record", "prepare"},
             strategy : Strategy, expected : 0..MaxRevision, draft : Draft,
             elements : SUBSET Element, actions : SUBSET ActionId, src : Nat]

AnyDraft == [page |-> CHOOSE p \in Page : TRUE, ready |-> CHOOSE e \in ReadyElement : TRUE,
             acts |-> {}]
NoRequest == [pc |-> "idle", strategy |-> CHOOSE s \in Strategy : TRUE, expected |-> 0,
           draft |-> AnyDraft, elements |-> {}, actions |-> {}, src |-> 0]

StratInit ==
  /\ element = [e \in Element |-> [status |-> "active", rev |-> 1, def |-> Unused(e).def,
                                   known |-> {1}]]
  /\ strategy = [s \in Strategy |-> Blank]
  /\ identity = [a \in ActionId |-> [strategy |-> NoStrategy, src |-> 1, sum |-> {},
                                     used |-> FALSE, dead |-> FALSE]]
  /\ debug = {} /\ release = {}
  /\ request = [c \in Client |-> NoRequest]

Goes(c, r) == request' = [request EXCEPT ![c] = r]
Ends(c) == Goes(c, NoRequest)

-------------------------------------------------------------------------------
(* Elements *)

CreateElement(e) ==
  /\ element[e].status = "absent"
  /\ \E d \in Definition :
       element' = [element EXCEPT ![e] = [status |-> "active", rev |-> 1, def |-> d,
                                          known |-> {1}]]
  /\ UNCHANGED <<strategy, identity, debug, release, request>>

\* set_element_status, whose one statement checks the revision; it stays the same.
SetElementStatus(e) ==
  /\ element[e].status # "absent"
  /\ \E status \in ElementStatus \ {element[e].status} :
       element' = [element EXCEPT ![e].status = status]
  /\ UNCHANGED <<strategy, identity, debug, release, request>>

\* repick_element: the revision is read and compared, and then written under a
\* condition; a revision that element_revisions has already rolls everything back.
ReadForRepick(c, e) ==
  /\ request[c].pc = "idle" /\ element[e].status # "absent"
  /\ element[e].rev < MaxRevision
  /\ Goes(c, [NoRequest EXCEPT !.pc = "repick", !.elements = {e}, !.expected = element[e].rev])
  /\ UNCHANGED <<element, strategy, identity, debug, release>>

Repick(c) ==
  /\ request[c].pc = "repick"
  /\ LET new == request[c].expected + 1 IN
     \E e \in request[c].elements, d \in Definition :
       element' =
         IF element[e].status = "absent" \/ new \in element[e].known THEN element
         ELSE IF element[e].rev # request[c].expected
         THEN [element EXCEPT ![e].known = @ \cup {new}]
         ELSE [element EXCEPT ![e] = [status |-> "active", rev |-> new, def |-> d,
                                      known |-> @.known \cup {new}]]
  /\ Ends(c)
  /\ UNCHANGED <<strategy, identity, debug, release>>

\* delete_element reads the revision, then every strategy, and deletes without a
\* condition.
ReadForDelete(c, e) ==
  /\ request[c].pc = "idle" /\ element[e].status # "absent"
  /\ Goes(c, [NoRequest EXCEPT !.pc = "refs", !.elements = {e}])
  /\ UNCHANGED <<element, strategy, identity, debug, release>>

CheckReferences(c) ==
  /\ request[c].pc = "refs"
  /\ IF \E s \in Strategy : Exists(s) /\ request[c].elements \cap Uses(strategy[s]) # {}
     THEN Ends(c)                                         \* ElementInUseError
     ELSE Goes(c, [request[c] EXCEPT !.pc = "drop"])
  /\ UNCHANGED <<element, strategy, identity, debug, release>>

DeleteElement(c) ==
  /\ request[c].pc = "drop"
  /\ element' = [e \in Element |->
       IF e \in request[c].elements
       THEN [status |-> "absent", rev |-> 0, def |-> Unused(e).def, known |-> {}]
       ELSE element[e]]
  /\ Ends(c)
  /\ UNCHANGED <<strategy, identity, debug, release>>

-------------------------------------------------------------------------------
(* Strategies *)

\* _validate_element, for what the draft uses
Valid(draft) == \A e \in Uses(draft) : element[e].status = "active"

\* create_strategy and update_strategy read the elements before they write.
ReadForCreate(c, s, draft) ==
  /\ request[c].pc = "idle" /\ Valid(draft)
  /\ Goes(c, [NoRequest EXCEPT !.pc = "insert", !.strategy = s, !.draft = draft])
  /\ UNCHANGED <<element, strategy, identity, debug, release>>

\* The row, its actions and its identity, a new one; or the id is taken.
CreateStrategy(c) ==
  /\ request[c].pc = "insert"
  /\ LET s == request[c].strategy
         d == request[c].draft
     IN  IF Exists(s) THEN UNCHANGED <<strategy, identity>>
         ELSE \E a \in ActionId :
                /\ ~identity[a].used
                /\ strategy' = [strategy EXCEPT ![s] = [rev |-> 1, page |-> d.page,
                                                        ready |-> d.ready, acts |-> d.acts]]
                /\ identity' = [identity EXCEPT ![a].strategy = s, ![a].used = TRUE]
  /\ Ends(c)
  /\ UNCHANGED <<element, debug, release>>

ReadForUpdate(c, s, draft) ==
  /\ request[c].pc = "idle" /\ Exists(s) /\ strategy[s].rev < MaxRevision
  /\ Goes(c, [NoRequest EXCEPT !.pc = "validate", !.strategy = s, !.draft = draft,
                            !.expected = strategy[s].rev])
  /\ UNCHANGED <<element, strategy, identity, debug, release>>

Validate(c) ==
  /\ request[c].pc = "validate"
  /\ IF Valid(request[c].draft) THEN Goes(c, [request[c] EXCEPT !.pc = "write"]) ELSE Ends(c)
  /\ UNCHANGED <<element, strategy, identity, debug, release>>

\* The row is written if its revision is still the expected one; its actions are
\* replaced in any case, unless the strategy is gone (a foreign key).
UpdateStrategy(c) ==
  /\ request[c].pc = "write"
  /\ LET s == request[c].strategy
         d == request[c].draft
     IN  strategy' =
           IF ~Exists(s) THEN strategy
           ELSE IF strategy[s].rev = request[c].expected
           THEN [strategy EXCEPT ![s] = [rev |-> @.rev + 1, page |-> d.page,
                                         ready |-> d.ready, acts |-> d.acts]]
           ELSE [strategy EXCEPT ![s].acts = d.acts]
  /\ Ends(c)
  /\ UNCHANGED <<element, identity, debug, release>>

\* set_strategy_enabled: another revision of the same content.
SetStrategyEnabled(s) ==
  /\ Exists(s) /\ strategy[s].rev < MaxRevision
  /\ strategy' = [strategy EXCEPT ![s].rev = @ + 1]
  /\ UNCHANGED <<element, identity, debug, release, request>>

\* Fault: the row goes whatever its revision has become.
DeleteAnyRevision(c) ==
  /\ request[c].pc = "delete"
  /\ LET s == request[c].strategy IN
     /\ strategy' = [strategy EXCEPT ![s] = Blank]
     /\ identity' = [a \in ActionId |->
          [identity[a] EXCEPT !.dead = @ \/ a \in request[c].actions]]
  /\ Ends(c)
  /\ UNCHANGED <<element, debug, release>>

\* delete_strategy reads the identity outside the transaction, tombstones it and
\* deletes the row under a condition on its revision; a conflict rolls both back.
ReadForDeletion(c, s) ==
  /\ request[c].pc = "idle" /\ Exists(s)
  /\ Goes(c, [NoRequest EXCEPT !.pc = "delete", !.strategy = s, !.expected = strategy[s].rev,
                            !.actions = {a \in ActionId : identity[a].strategy = s}])
  /\ UNCHANGED <<element, strategy, identity, debug, release>>

DeleteStrategy(c) ==
  /\ request[c].pc = "delete"
  /\ LET s == request[c].strategy IN
     IF strategy[s].rev # request[c].expected THEN UNCHANGED <<strategy, identity>>
     ELSE /\ strategy' = [strategy EXCEPT ![s] = Blank]
          /\ identity' = [a \in ActionId |->
               [identity[a] EXCEPT
                  !.dead = @ \/ a \in request[c].actions,
                  !.strategy = IF @ = s THEN NoStrategy ELSE @]]   \* ON DELETE SET NULL
  /\ Ends(c)
  /\ UNCHANGED <<element, debug, release>>

-------------------------------------------------------------------------------
(* Publication *)

Live(a) == identity[a].strategy # NoStrategy /\ ~identity[a].dead /\ Readable(identity[a].strategy)

\* Fault: other content does not make another source revision.
RefreshedInPlace(a) == [identity[a] EXCEPT !.sum = {ContentOf(identity[a].strategy)}]

\* _refresh_strategy_metadata: other content makes another source revision.
Refreshed(a) ==
  LET sum == {ContentOf(identity[a].strategy)} IN
  [identity[a] EXCEPT !.sum = sum,
                      !.src = IF identity[a].sum \notin {{}, sum} THEN @ + 1 ELSE @]

\* get_action_publication_metadata, the first transaction of begin_debug_run and of
\* prepare_strategy_release.
Look(c, a, pc) ==
  /\ request[c].pc = "idle" /\ pc \in {"record", "prepare"}
  /\ IF pc = "record" THEN Cardinality(debug) < MaxRuns ELSE Cardinality(release) < MaxReleases
  /\ identity[a].strategy # NoStrategy /\ Readable(identity[a].strategy)
  /\ Refreshed(a).src <= MaxSource
  /\ identity' = [identity EXCEPT ![a] = Refreshed(a)]
  /\ Goes(c, [NoRequest EXCEPT !.pc = pc, !.actions = {a}, !.src = Refreshed(a).src,
                            !.strategy = identity[a].strategy])
  /\ UNCHANGED <<element, strategy, debug, release>>

\* The source revision that was looked up is the current one.
Current(c, a) == Live(a) /\ Refreshed(a).src = request[c].src

\* record_debug_run, of a new run
BeginDebugRun(c) ==
  /\ request[c].pc = "record"
  /\ \E a \in request[c].actions :
       IF Current(c, a) /\ Cardinality(debug) < MaxRuns
       THEN /\ identity' = [identity EXCEPT ![a] = Refreshed(a)]
            /\ debug' = debug \cup {[id |-> Cardinality(debug), action |-> a,
                                     src |-> request[c].src, sum |-> ContentOf(identity[a].strategy),
                                     status |-> "RUNNING"]}
       ELSE UNCHANGED <<identity, debug>>
  /\ Ends(c)
  /\ UNCHANGED <<element, strategy, release>>

\* complete_debug_run
CompleteDebugRun(d) ==
  /\ d \in debug /\ d.status = "RUNNING"
  /\ \E status \in {"SUCCEEDED", "FAILED"} :
       debug' = (debug \ {d}) \cup {[d EXCEPT !.status = status]}
  /\ UNCHANGED <<element, strategy, identity, release, request>>

\* Fault: a run of this revision is enough, whatever came of it.
DebuggedSomehow(a, src, sum) == \E d \in debug : d.action = a /\ d.src = src

Debugged(a, src, sum) ==
  \E d \in debug : d.action = a /\ d.src = src /\ d.sum = sum /\ d.status = "SUCCEEDED"

\* The UNIQUE and the lookup before it: one release of each content of a revision.
AlreadyReleased(a, src, sum) == \E r \in release : r.action = a /\ r.src = src /\ r.sum = sum

\* prepare_release; an administrator may waive the validation.
PrepareRelease(c) ==
  /\ request[c].pc = "prepare"
  /\ \E a \in request[c].actions, waive \in BOOLEAN :
       LET src == request[c].src
           sum == ContentOf(identity[a].strategy)
       IN  IF Current(c, a) /\ Cardinality(release) < MaxReleases /\ ~AlreadyReleased(a, src, sum) /\ (waive \/ Debugged(a, src, sum))
           THEN /\ identity' = [identity EXCEPT ![a] = Refreshed(a)]
                /\ release' = release \cup
                     {[action |-> a, revision |-> Cardinality({r \in release : r.action = a}) + 1,
                       src |-> src, sum |-> sum, validated |-> ~waive, central |-> 0]}
           ELSE UNCHANGED <<identity, release>>
  /\ Ends(c)
  /\ UNCHANGED <<element, strategy, debug>>

\* Fault: what Central answers last is kept.
Resync(r, central) ==
  /\ r \in release
  /\ release' = (release \ {r}) \cup {[r EXCEPT !.central = central]}
  /\ UNCHANGED <<element, strategy, identity, debug, request>>

\* mark_release_synced, with the revision Central gave the release
MarkSynced(r, central) ==
  /\ r \in release /\ r.central \in {0, central}
  /\ release' = (release \ {r}) \cup {[r EXCEPT !.central = central]}
  /\ UNCHANGED <<element, strategy, identity, debug, request>>

-------------------------------------------------------------------------------
ElementNext ==
  \/ \E e \in Element : CreateElement(e) \/ SetElementStatus(e)
  \/ \E c \in Client, e \in Element : ReadForRepick(c, e) \/ ReadForDelete(c, e)
  \/ \E c \in Client : Repick(c) \/ CheckReferences(c) \/ DeleteElement(c)

EditNext ==
  \/ \E c \in Client, s \in Strategy, draft \in Draft :
       ReadForCreate(c, s, draft) \/ ReadForUpdate(c, s, draft)
  \/ \E c \in Client : CreateStrategy(c) \/ Validate(c) \/ UpdateStrategy(c)
  \/ \E s \in Strategy : SetStrategyEnabled(s)
  \/ \E c \in Client, s \in Strategy : ReadForDeletion(c, s)
  \/ \E c \in Client : DeleteStrategy(c)

PublishNext ==
  \/ \E c \in Client, a \in ActionId, pc \in {"record", "prepare"} : Look(c, a, pc)
  \/ \E c \in Client : BeginDebugRun(c) \/ PrepareRelease(c)
  \/ \E d \in debug : CompleteDebugRun(d)
  \/ \E r \in release, central \in 1..2 : MarkSynced(r, central)

StratNext == ElementNext \/ EditNext \/ PublishNext

StratSpec == StratInit /\ [][StratNext]_stratVars

-------------------------------------------------------------------------------
(* Properties *)

StrategyTypeOK ==
  /\ element \in [Element -> ElementRow]
  /\ strategy \in [Strategy -> StrategyRow]
  /\ identity \in [ActionId -> Identity]
  /\ debug \subseteq DebugRow
  /\ release \subseteq ReleaseRow
  /\ request \in [Client -> Requests]

\* A source revision of an action names one content, whoever was told of it: the debug
\* runs, the releases and the identity (_refresh_strategy_metadata), although saves,
\* repicks and status changes of elements come between any two of them.
RevisionNamesContent ==
  LET Named == {<<d.action, d.src, d.sum>> : d \in debug}
               \cup {<<r.action, r.src, r.sum>> : r \in release}
               \cup UNION {{<<a, identity[a].src, sum>> : sum \in identity[a].sum} : a \in ActionId}
  IN  \A m, n \in Named : m[1] = n[1] /\ m[2] = n[2] => m[3] = n[3]

\* What was released as validated passed a debug run of exactly that content
\* (prepare_release).
ValidatedWasDebugged ==
  \A r \in release : r.validated =>
    \E d \in debug : /\ <<d.action, d.src, d.sum>> = <<r.action, r.src, r.sum>>
                    /\ d.status = "SUCCEEDED"

\* An action id belongs to one strategy, an existing one has one, and the deleted
\* one's is never taken up again, though its strategy's id may be.
OneIdentityEach ==
  /\ \A s \in Strategy : Exists(s) <=> Cardinality({a \in ActionId : identity[a].strategy = s}) = 1
  /\ \A a \in ActionId : identity[a].strategy # NoStrategy => ~identity[a].dead

StrategySafe == StrategyTypeOK /\ RevisionNamesContent /\ ValidatedWasDebugged /\ OneIdentityEach

\* Releases are for good, Central's revision of one is settled once, their numbers leave no
\* gap, and an action whose strategy is gone gets no more of them (strategy_releases,
\* mark_release_synced).
ReleasesStand ==
  [][/\ \A r \in release : \E n \in release' :
          /\ [n EXCEPT !.central = 0] = [r EXCEPT !.central = 0]
          /\ r.central \in {0, n.central}
     /\ \A a \in ActionId :
          LET Numbers == {r.revision : r \in {q \in release' : q.action = a}} IN
          /\ Numbers = 1..Cardinality(Numbers)
          /\ identity[a].used /\ identity[a].strategy = NoStrategy =>
               /\ Numbers = {r.revision : r \in {q \in release : q.action = a}}
               /\ identity'[a].strategy = NoStrategy]_stratVars

\* The actions of a strategy change with its revision: a save that lost against another
\* one stops ("A revision conflict must stop the save").
SaveStopsOnConflict ==
  [][\A s \in Strategy :
       strategy'[s].rev = strategy[s].rev => strategy'[s].acts = strategy[s].acts]_stratVars
===============================================================================
