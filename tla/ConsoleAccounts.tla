---------------------------- MODULE ConsoleAccounts ----------------------------
(***************************************************************************)
(* The accounts of the management console (gateway/auth_store.py,          *)
(* auth_service.py, auth_blueprint.py).  A session is a signed cookie that *)
(* names a user and the revision of the row it was issued for.  A request  *)
(* reads the row outside any transaction, checks a password or a role, and *)
(* writes in a transaction of its own: requests of several threads and     *)
(* processes interleave between these two.                                 *)
(***************************************************************************)
EXTENDS Naturals, FiniteSets

CONSTANTS
  User,          \* ids of management_users rows
  Root,          \* the administrator that admin_users.py created
  Browser,       \* each with its own cookie and at most one request under way
  FailureLimit,  \* MAX_FAILURES
  MaxChanges     \* bound on the changes of the rows

ASSUME AccountsAssumption ==
  Root \in User /\ FailureLimit \in Nat \ {0} /\ MaxChanges \in Nat

VARIABLES
  user,     \* management_users
  session,  \* the cookie of each browser
  request,  \* what each browser's request is doing
  changes   \* history: how often a session_version grew

accVars == <<user, session, request, changes>>

-------------------------------------------------------------------------------
Role == {"administrator", "operator"}

\* A password is the number of its salted hash: no two hashes are equal.
UserRow == [role     : Role \cup {"absent"},
            enabled  : BOOLEAN,
            version  : 1..(MaxChanges + 1),              \* session_version
            password : 1..(MaxChanges + 1),
            mustChange : BOOLEAN,
            failures : 0..FailureLimit,            \* failed_attempt_count
            lock     : {"none", "ahead", "past"}]  \* locked_until

\* version is the payload's; password and role are those of the row it was issued for.
Cookie == [user : User, version : 1..(MaxChanges + 1), password : 1..(MaxChanges + 1), role : Role]

Nothing == [user |-> Root, version |-> 0, password |-> 0, role |-> "operator"]

Pc == {"idle", "succeed", "fail", "update", "reset", "revoke", "create", "change",
       "replace"}

RequestRow == [pc : Pc, user : User, version : 1..(MaxChanges + 1), password : 1..(MaxChanges + 1)]

AccountsTypeOK ==
  /\ user \in [User -> UserRow]
  /\ session \in [Browser -> Cookie \cup {Nothing}]
  /\ request \in [Browser -> RequestRow]
  /\ changes \in 0..MaxChanges

Quiet == [pc |-> "idle", user |-> Root, version |-> 1, password |-> 1]

NewRow(role, mustChange) ==
  [role |-> role, enabled |-> TRUE, version |-> 1, password |-> 1,
   mustChange |-> mustChange, failures |-> 0, lock |-> "none"]

\* Besides the first administrator there may be users who have their own password.
AccInit ==
  /\ \E role \in [User -> Role \cup {"absent"}] :
       /\ role[Root] = "administrator"
       /\ user = [u \in User |-> NewRow(role[u], FALSE)]
  /\ session = [b \in Browser |-> Nothing]
  /\ request = [r \in Browser |-> Quiet]
  /\ changes = 0

\* A request that goes on with what it read of u.
Snapshot(pc, u) ==
  [pc |-> pc, user |-> u, version |-> user[u].version, password |-> user[u].password]

Changes == changes < MaxChanges /\ changes' = changes + 1

Answers(r) == request' = [request EXCEPT ![r] = Quiet]

Present(u) == user[u].role # "absent"

-------------------------------------------------------------------------------
(* Logins *)

\* AuthService.authenticate: a user that is disabled or locked is refused.
BeginLogin(r, u, right) ==
  /\ request[r].pc = "idle"
  /\ Present(u) /\ user[u].enabled /\ user[u].lock # "ahead"
  /\ request' = [request EXCEPT ![r] = Snapshot(IF right THEN "succeed" ELSE "fail", u)]
  /\ UNCHANGED <<user, session, changes>>

\* The row is still the one the password was checked against.
StillCurrent(r) ==
  LET row == user[request[r].user] IN
  /\ row.enabled
  /\ row.password = request[r].password /\ row.version = request[r].version

\* Fault: a lock that came while the password was checked is not noticed.
AdmitsLocked(r) == StillCurrent(r)

\* record_login_success_if_current: its condition.
Admits(r) == StillCurrent(r) /\ user[request[r].user].lock # "ahead"

\* The cookie is issued for the row as this transaction left it.
LoginSucceeds(r) ==
  /\ request[r].pc = "succeed"
  /\ LET u == request[r].user IN
     IF Admits(r)
     THEN /\ user' = [user EXCEPT ![u].failures = 0, ![u].lock = "none"]
          /\ session' = [session EXCEPT ![r] =
                           [user |-> u, version |-> user[u].version,
                            password |-> request[r].password, role |-> user[u].role]]
     ELSE UNCHANGED <<user, session>>
  /\ Answers(r)
  /\ UNCHANGED changes

\* Fault: failures are counted although the user is locked already.
CountsLocked(r) == StillCurrent(r)

\* record_login_failure_if_current: its condition.
Counts(r) == StillCurrent(r) /\ user[request[r].user].lock # "ahead"

Failed(row) ==
  LET failures == IF row.lock = "past" THEN 1 ELSE row.failures + 1 IN
  [row EXCEPT !.failures = failures,
              !.lock = IF failures >= FailureLimit THEN "ahead" ELSE "none"]

LoginFails(r) ==
  /\ request[r].pc = "fail"
  /\ user' = IF Counts(r) THEN [user EXCEPT ![request[r].user] = Failed(@)] ELSE user
  /\ Answers(r)
  /\ UNCHANGED <<session, changes>>

\* Fifteen minutes later.  A request takes its time at its beginning and does not last that
\* long: none that began before this lock is still being answered.
LockExpires(u) ==
  /\ user[u].lock = "ahead"
  /\ \A r \in Browser : request[r].pc \in {"succeed", "fail"} => request[r].user # u
  /\ user' = [user EXCEPT ![u].lock = "past"]
  /\ UNCHANGED <<session, request, changes>>

-------------------------------------------------------------------------------
(* Requests of a session *)

\* validate_session; a session that is too old is gone (EndSession).
Valid(s) ==
  Present(s.user) /\ user[s.user].enabled /\ user[s.user].version = s.version

\* The guard before an administrator's request about u.  A page sends the revision it has
\* read: an older one is refused for ever.
BeginAdministration(r, pc, u) ==
  /\ request[r].pc = "idle" /\ pc \in {"update", "reset", "revoke", "create"}
  /\ LET actor == user[session[r].user] IN
     Valid(session[r]) /\ actor.role = "administrator" /\ ~actor.mustChange
  /\ Present(u) <=> pc # "create"
  /\ request' = [request EXCEPT ![r] =
                   IF pc = "update" THEN Snapshot(pc, u) ELSE [Quiet EXCEPT !.pc = pc, !.user = u]]
  /\ UNCHANGED <<user, session, changes>>

EnabledAdministrators == {u \in User : user[u].role = "administrator" /\ user[u].enabled}

\* Fault: only disabling is seen to take an administrator away.
DismissesDisabled(u, role, enabled) ==
  EnabledAdministrators = {u} /\ ~enabled

\* The row is the last enabled administrator and would no longer be one.
Dismisses(u, role, enabled) ==
  EnabledAdministrators = {u} /\ (role # "administrator" \/ ~enabled)

\* update_access_if_revision: the revision grows even if nothing else changes.
UpdateAccess(r, role, enabled) ==
  /\ request[r].pc = "update"
  /\ LET u == request[r].user IN
     IF user[u].version = request[r].version /\ ~Dismisses(u, role, enabled)
     THEN /\ Changes
          /\ user' = [user EXCEPT ![u].role = role, ![u].enabled = enabled,
                                  ![u].version = @ + 1]
     ELSE UNCHANGED <<user, changes>>
  /\ Answers(r)
  /\ UNCHANGED session

\* Fault: a reset leaves the sessions of the user alone.
RekeyedInPlace(row, mustChange) ==
  [row EXCEPT !.password = @ + 1, !.mustChange = mustChange,
              !.failures = 0, !.lock = "none"]

Rekeyed(row, mustChange) ==
  [row EXCEPT !.password = @ + 1, !.version = @ + 1, !.mustChange = mustChange,
              !.failures = 0, !.lock = "none"]

\* replace_password, unconditional.
ResetPassword(r) ==
  /\ request[r].pc = "reset"
  /\ LET u == request[r].user IN
     /\ Changes
     /\ user' = [user EXCEPT ![u] = Rekeyed(@, TRUE)]
  /\ Answers(r)
  /\ UNCHANGED session

RevokeSessions(r) ==
  /\ request[r].pc = "revoke"
  /\ LET u == request[r].user IN
     /\ Changes
     /\ user' = [user EXCEPT ![u].version = @ + 1]
  /\ Answers(r)
  /\ UNCHANGED session

\* create_user: a name that exists is refused.
CreateUser(r, role) ==
  /\ request[r].pc = "create"
  /\ LET u == request[r].user IN
     user' = IF Present(u) THEN user ELSE [user EXCEPT ![u] = NewRow(role, TRUE)]
  /\ Answers(r)
  /\ UNCHANGED <<session, changes>>

\* The guard before change-password, which a temporary password leaves open.
BeginChange(r) ==
  /\ request[r].pc = "idle" /\ Valid(session[r])
  /\ request' = [request EXCEPT ![r] = [Quiet EXCEPT !.pc = "change", !.user = session[r].user]]
  /\ UNCHANGED <<user, session, changes>>

\* AuthService.change_password reads the row anew and checks the current password.
CheckCurrentPassword(r, right) ==
  /\ request[r].pc = "change"
  /\ LET u == request[r].user IN
     request' = [request EXCEPT ![r] =
                   IF user[u].enabled /\ right THEN Snapshot("replace", u) ELSE Quiet]
  /\ UNCHANGED <<user, session, changes>>

\* Fault: the password is replaced whatever became of it since it was checked.
ReplacesAnyway(r) == user[request[r].user].enabled

\* replace_password_if_current: its condition.
Replaces(r) == StillCurrent(r)

ReplacePassword(r) ==
  /\ request[r].pc = "replace"
  /\ LET u == request[r].user IN
     IF Replaces(r)
     THEN /\ Changes
          /\ user' = [user EXCEPT ![u] = Rekeyed(@, FALSE)]
     ELSE UNCHANGED <<user, changes>>
  /\ Answers(r)
  /\ UNCHANGED session

\* Logout, a changed password, the idle limit or the absolute one.
EndSession(r) ==
  /\ request[r].pc = "idle" /\ session[r] # Nothing
  /\ session' = [session EXCEPT ![r] = Nothing]
  /\ UNCHANGED <<user, request, changes>>

-------------------------------------------------------------------------------
AccNext ==
  \/ \E r \in Browser, u \in User, right \in BOOLEAN : BeginLogin(r, u, right)
  \/ \E r \in Browser : LoginSucceeds(r) \/ LoginFails(r)
  \/ \E u \in User : LockExpires(u)
  \/ \E r \in Browser, pc \in Pc, u \in User : BeginAdministration(r, pc, u)
  \/ \E r \in Browser, role \in Role, enabled \in BOOLEAN : UpdateAccess(r, role, enabled)
  \/ \E r \in Browser : ResetPassword(r) \/ RevokeSessions(r) \/ ReplacePassword(r)
  \/ \E r \in Browser, role \in Role : CreateUser(r, role)
  \/ \E r \in Browser : BeginChange(r) \/ EndSession(r)
  \/ \E r \in Browser, right \in BOOLEAN : CheckCurrentPassword(r, right)

AccSpec == AccInit /\ [][AccNext]_accVars

-------------------------------------------------------------------------------
\* Somebody can always administer the console, whatever administrators do to each other and
\* to themselves at the same time (update_access_if_revision counts in its transaction).
LastAdministrator == EnabledAdministrators # {}

\* However many logins fail at the same time, no more than the limit are counted before a
\* lock, and the count at the limit never stands without one (record_login_failure_if_current).
GuessesBounded == \A u \in User :
  /\ user[u].failures <= FailureLimit
  /\ user[u].failures = FailureLimit => user[u].lock # "none"

\* No cookie is issued while the user is locked, not even to a request that checked the
\* right password before the lock (record_login_success_if_current).
NoLoginWhileLocked ==
  [][\A r \in Browser : session'[r] \notin {session[r], Nothing} =>
       user[session'[r].user].lock # "ahead"]_accVars

\* A cookie that the guard accepts was issued for the password and the role that the user
\* has now: whatever changes them ends the sessions that came before.
SessionIsCurrent == \A r \in Browser : LET s == session[r] IN
  Valid(s) => s.password = user[s.user].password /\ s.role = user[s.user].role

\* A temporary password stays until somebody replaces it who knew it: a change that was
\* begun under the password before it does not undo the reset.
ResetHolds ==
  [][\A u \in User : user[u].mustChange /\ ~user'[u].mustChange =>
       \E r \in Browser : request[r].pc = "replace" /\ request[r].user = u
                          /\ request[r].password = user[u].password]_accVars

\* What a request checked outside its transaction still holds when it commits: nobody is
\* locked out of the administration, guesses past the lock, uses a session that ended or
\* undoes a reset.
AccountsHold == /\ [](/\ AccountsTypeOK /\ LastAdministrator
                      /\ GuessesBounded /\ SessionIsCurrent)
                /\ NoLoginWhileLocked
                /\ ResetHolds
===============================================================================
