------------------------------- MODULE Accounts ------------------------------
(***************************************************************************)
(* Registration, login and the sessions of users (app/services.py), as     *)
(* the routes under /api/auth and /api/workspaces run them (app/main.py).  *)
(*                                                                         *)
(* A request is a transaction of several statements at READ COMMITTED: a   *)
(* SELECT sees what others have committed; an INSERT of a unique value     *)
(* waits for the transaction that holds an uncommitted equal one, and an   *)
(* UPDATE for the one that has updated the row.  Statements of requests    *)
(* interleave freely, as if each had a process of its own (several API     *)
(* processes, the bootstrap script): in one process the event loop allows  *)
(* only some of these orders, and may stop on a row (ApiLoop), so that     *)
(* this module says what requests do to each other and not that they end.  *)
(*                                                                         *)
(* A request makes at most one user, one workspace and one session; each   *)
(* is known by the request that has made it.                               *)
(***************************************************************************)
EXTENDS Naturals, Sequences, FiniteSets

CONSTANTS Requests,
          Emails,
          Names,   \* workspace names, as the words of their slugs
          DbFails  \* a commit may fail

ASSUME NamesAssumption == Names \subseteq Seq(Nat)
ASSUME FaultsAssumption == DbFails \in BOOLEAN

Nobody == "nobody"
ASSUME NobodyAssumption == Nobody \notin Requests

VARIABLES pc,       \* where a request is
          op,       \* what it asks for
          token,    \* the session of its cookie
          email,    \* the e-mail of its form, normalized
          slug,     \* the workspace's slug, at first that of the name alone
          goal,     \* the workspace it switches to
          answer,   \* the status of its response
          accepted, \* it has found the session to be valid
          late,     \* its session had been logged out when it was sent
          users, workspaces, members,
          session,  \* session[t]: its row of auth_sessions
          old       \* sessions past their expires_at

form == <<op, token, email, goal, late>>
tables == <<users, workspaces, members, session>>
vars == <<pc, form, slug, accepted, answer, tables, old>>

Operations == {"register", "bootstrap", "login", "create", "switch", "me", "logout"}
States == {"none", "active", "expired", "revoked"}

TypeOK ==
  /\ pc \in [Requests -> {"idle", "begun", "user", "slug", "workspace", "touch",
                          "commit", "done"}]
  /\ op \in [Requests -> Operations \cup {"none"}]
  /\ token \in [Requests -> Requests \cup {Nobody}]
  /\ email \in [Requests -> Emails \cup {Nobody}]
  /\ slug \in [Requests -> Seq(Nat)]
  /\ goal \in [Requests -> Requests \cup {Nobody}]
  /\ accepted \in [Requests -> BOOLEAN]
  /\ answer \in [Requests -> {0, 200, 400, 401, 403, 500}]
  /\ late \in [Requests -> BOOLEAN]
  /\ users \subseteq Requests
  /\ workspaces \subseteq Requests
  /\ members \subseteq users \X workspaces
  /\ session \in [Requests -> [state : States, user : Requests \cup {Nobody},
                               active : Requests \cup {Nobody}]]
  /\ old \subseteq Requests

Init ==
  /\ pc = [r \in Requests |-> "idle"]
  /\ op = [r \in Requests |-> "none"]
  /\ token = [r \in Requests |-> Nobody]
  /\ email = [r \in Requests |-> Nobody]
  /\ slug = [r \in Requests |-> << >>]
  /\ goal = [r \in Requests |-> Nobody]
  /\ accepted = [r \in Requests |-> FALSE]
  /\ answer = [r \in Requests |-> 0]
  /\ late = [r \in Requests |-> FALSE]
  /\ users = {} /\ workspaces = {} /\ members = {}
  /\ session = [t \in Requests |-> [state |-> "none", user |-> Nobody, active |-> Nobody]]
  /\ old = {}

-----------------------------------------------------------------------------
(***************************************************************************)
(* Requests, and what the statements of one see of the others.             *)
(***************************************************************************)

\* The response to a logout has cleared the cookie.
LoggedOut(t) == \E q \in Requests : op[q] = "logout" /\ token[q] = t /\ answer[q] = 200

\* A browser sends the cookie of a session it was given, or had been given.
Send(r) ==
  /\ pc[r] = "idle"
  /\ pc' = [pc EXCEPT ![r] = "begun"]
  /\ \E o \in Operations, t \in Requests \cup {Nobody}, m \in Emails \cup {Nobody},
        n \in Names, g \in Requests \cup {Nobody} :
       /\ (o \in {"create", "switch", "me", "logout"}) <=> (t # Nobody)
       /\ t # Nobody => session[t].state # "none"
       /\ (o \in {"register", "bootstrap", "login"}) <=> (m # Nobody)
       /\ (o = "switch") <=> (g # Nobody)
       /\ g # Nobody => g \in workspaces
       /\ op' = [op EXCEPT ![r] = o]
       /\ token' = [token EXCEPT ![r] = t]
       /\ email' = [email EXCEPT ![r] = m]
       /\ slug' = [slug EXCEPT ![r] = n]
       /\ goal' = [goal EXCEPT ![r] = g]
       /\ late' = [late EXCEPT ![r] = t # Nobody /\ LoggedOut(t)]
  /\ UNCHANGED <<accepted, answer, tables, old>>

Goes(r, step) == pc' = [pc EXCEPT ![r] = step] /\ UNCHANGED answer
Answers(r, code) ==
  /\ pc' = [pc EXCEPT ![r] = "done"]
  /\ answer' = [answer EXCEPT ![r] = code]
Kept == UNCHANGED <<form, slug, accepted, tables, old>>

HoldsEmail(q, m) ==
  email[q] = m /\ op[q] # "login" /\ pc[q] \in {"slug", "workspace", "commit"}
HoldsSlug(q, s) ==
  slug[q] = s /\ op[q] \in {"register", "bootstrap", "create"} /\ pc[q] \in {"touch", "commit"}
HoldsRow(q, t) == token[q] = t /\ pc[q] = "commit"

-----------------------------------------------------------------------------
(***************************************************************************)
(* register_user_with_workspace, bootstrap_admin, create_workspace_for_user *)
(***************************************************************************)

ChecksEmail(r) ==
  /\ pc[r] = "begun" /\ op[r] \in {"register", "bootstrap"}
  /\ IF \E u \in users : email[u] = email[r] THEN Answers(r, 400) ELSE Goes(r, "user")
  /\ Kept

\* Deliberate error: no unique constraint on e-mails.
InsertsAnyUser(r) ==
  /\ pc[r] = "user"
  /\ Goes(r, "slug")
  /\ Kept

\* The constraint on users.email: an IntegrityError, which is no ValueError.
InsertsUser(r) ==
  /\ pc[r] = "user"
  /\ ~\E q \in Requests \ {r} : HoldsEmail(q, email[r])
  /\ IF \E u \in users : email[u] = email[r] THEN Answers(r, 500) ELSE Goes(r, "slug")
  /\ Kept

Free(s) == ~\E w \in workspaces : slug[w] = s

\* unique_workspace_slug: base, base-2, base-3, ...
PicksSlug(r) ==
  /\ pc[r] = "slug"
  /\ slug' = [slug EXCEPT ![r] =
                IF Free(@) THEN @
                ELSE LET n == CHOOSE n \in 2..(Cardinality(workspaces) + 2) :
                                /\ Free(Append(@, n))
                                /\ \A k \in 2..(n - 1) : ~Free(Append(@, k))
                     IN Append(@, n)]
  /\ Goes(r, "workspace")
  /\ UNCHANGED <<form, accepted, tables, old>>

\* bootstrap_admin takes the slug it is given.
SlugIsGiven(r) ==
  /\ pc[r] = "slug" /\ op[r] = "bootstrap"
  /\ Goes(r, "workspace")
  /\ Kept

\* The constraint on workspaces.slug.
InsertsWorkspace(r) ==
  /\ pc[r] = "workspace"
  /\ ~\E q \in Requests \ {r} : HoldsSlug(q, slug[r])
  /\ IF ~Free(slug[r]) THEN Answers(r, 500)
     ELSE Goes(r, IF op[r] = "create" THEN "touch" ELSE "commit")
  /\ Kept

-----------------------------------------------------------------------------
(***************************************************************************)
(* authenticate_user, resolve_auth_session.                                *)
(***************************************************************************)

\* The password may be wrong.
LogsIn(r) ==
  /\ pc[r] = "begun" /\ op[r] = "login"
  /\ \/ Answers(r, 401)
     \/ (\E u \in users : email[u] = email[r]) /\ Goes(r, "commit")
  /\ Kept

\* A session whose row says ACTIVE, before its expires_at.
Accepted(t) == session[t].state = "active" /\ t \notin old

\* Deliberate error: any workspace may be switched to.
MaySwitchAnywhere(t, w) == TRUE
MaySwitch(t, w) == <<session[t].user, w>> \in members

\* A refused session is marked EXPIRED; the 401 that follows rolls this back,
\* but a logout is answered 200.
Resolves(r) ==
  /\ pc[r] = "begun" /\ token[r] # Nobody
  /\ IF Accepted(token[r])
     THEN IF op[r] = "switch" /\ ~MaySwitch(token[r], goal[r]) THEN Answers(r, 403)
          ELSE Goes(r, IF op[r] = "create" THEN "slug" ELSE "touch")
     ELSE IF op[r] = "logout" THEN Goes(r, "touch") ELSE Answers(r, 401)
  /\ accepted' = [accepted EXCEPT ![r] = Accepted(token[r])]
  /\ UNCHANGED <<form, slug, tables, old>>

\* The UPDATE of the session's row waits for other transactions.
Touches(r) ==
  /\ pc[r] = "touch"
  /\ ~\E q \in Requests \ {r} : HoldsRow(q, token[r])
  /\ Goes(r, "commit")
  /\ Kept

-----------------------------------------------------------------------------
(***************************************************************************)
(* get_db commits, and the response is sent.                               *)
(***************************************************************************)

NewSession(r, u, w) ==
  session' = [session EXCEPT ![r] = [state |-> "active", user |-> u, active |-> w]]

\* When the event loop gets to the exit of get_db, which may be never: another
\* handler may have stopped it to wait for the row that this one holds.
Commit(r, who) ==
  /\ pc[r] = "commit" /\ op[r] \in who
  /\ Answers(r, 200)
  /\ UNCHANGED <<form, slug, accepted, old>>

Registers(r) ==
  /\ Commit(r, {"register", "bootstrap"})
  /\ users' = users \cup {r}
  /\ workspaces' = workspaces \cup {r}
  /\ members' = members \cup {<<r, r>>}
  /\ IF op[r] = "register" THEN NewSession(r, r, r) ELSE UNCHANGED session

\* create_auth_session: the active workspace is the user's first.
StartsSession(r) ==
  /\ Commit(r, {"login"})
  /\ \E u \in users : email[u] = email[r] /\ NewSession(r, u, u)
  /\ UNCHANGED <<users, workspaces, members>>

CreatesWorkspace(r) ==
  /\ Commit(r, {"create"})
  /\ workspaces' = workspaces \cup {r}
  /\ members' = members \cup {<<session[token[r]].user, r>>}
  /\ session' = [session EXCEPT ![token[r]].active = r]
  /\ UNCHANGED users

\* Deliberate error: the whole row is written back as it was read.
SwitchesWholeRow(r) ==
  /\ Commit(r, {"switch"})
  /\ session' = [session EXCEPT ![token[r]].active = goal[r], ![token[r]].state = "active"]
  /\ UNCHANGED <<users, workspaces, members>>

\* Only the changed column is written.
Switches(r) ==
  /\ Commit(r, {"switch"})
  /\ session' = [session EXCEPT ![token[r]].active = goal[r]]
  /\ UNCHANGED <<users, workspaces, members>>

TellsWho(r) ==
  /\ Commit(r, {"me"})
  /\ UNCHANGED tables

\* The session is revoked, or, if it was refused, marked as expired.
LogsOut(r) ==
  /\ Commit(r, {"logout"})
  /\ session' = [session EXCEPT ![token[r]].state =
                   IF accepted[r] THEN "revoked" ELSE "expired"]
  /\ UNCHANGED <<users, workspaces, members>>

CommitFails(r) ==
  /\ DbFails
  /\ pc[r] = "commit"
  /\ Answers(r, 500)
  /\ Kept

\* expires_at passes.
Ages ==
  /\ \E t \in Requests \ old : session[t].state # "none" /\ old' = old \cup {t}
  /\ UNCHANGED <<pc, form, slug, accepted, answer, tables>>

-----------------------------------------------------------------------------

Step(r) ==
  \/ ChecksEmail(r) \/ InsertsUser(r) \/ PicksSlug(r) \/ SlugIsGiven(r)
  \/ InsertsWorkspace(r)
  \/ LogsIn(r) \/ Resolves(r) \/ Touches(r)
  \/ Registers(r) \/ StartsSession(r) \/ CreatesWorkspace(r) \/ Switches(r)
  \/ TellsWho(r) \/ LogsOut(r) \/ CommitFails(r)

Next == Ages \/ \E r \in Requests : Send(r) \/ Step(r)

Spec == Init /\ [][Next]_vars

-----------------------------------------------------------------------------
(***************************************************************************)
(* Properties.                                                             *)
(***************************************************************************)

\* Users are told apart by their e-mails, workspaces by their slugs, although
\* both are looked up before they are inserted.
IdentitiesAreUnique ==
  /\ \A u, v \in users : email[u] = email[v] => u = v
  /\ \A w, x \in workspaces : slug[w] = slug[x] => w = x

\* The active workspace of a session, for which every other route works, is one
\* of its user's.
SessionsStayInTenancy ==
  \A t \in Requests :
    session[t].state # "none" => <<session[t].user, session[t].active>> \in members

\* After a logout no request with the old cookie is served.
LoggedOutIsRefused ==
  \A r \in Requests : late[r] /\ op[r] # "logout" => answer[r] # 200

\* A registration that cannot be completed is told so, with the generic answer.
ConflictsAreExplained == \A r \in Requests : op[r] = "register" => answer[r] # 500

=============================================================================
