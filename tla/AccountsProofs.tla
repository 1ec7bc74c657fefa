---------------------------- MODULE AccountsProofs ----------------------------
(***************************************************************************)
(* Proofs about accounts and sessions, for every set of requests, e-mails  *)
(* and workspace names.                                                    *)
(*                                                                         *)
(* What the runs check speaks of committed rows.  It is kept because an    *)
(* uncommitted row is known to differ from them and from each other        *)
(* (EmailsAreApart, SlugsAreApart), because a session never changes its    *)
(* user (CookiesHaveSessions, RowsAreOfTheDone), and because a session     *)
(* that has ended stays ended (LogoutsLast).                               *)
(***************************************************************************)
EXTENDS Accounts, TLAPS

Registering == {"register", "bootstrap"}
Creating == {"register", "bootstrap", "create"}
WithCookie == {"create", "switch", "me", "logout"}
Over == {"expired", "revoked"}

\* The types of the variables; of slugs no more is needed than whose they are.
Typed ==
  /\ pc \in [Requests -> {"idle", "begun", "user", "slug", "workspace", "touch",
                          "commit", "done"}]
  /\ op \in [Requests -> Operations \cup {"none"}]
  /\ token \in [Requests -> Requests \cup {Nobody}]
  /\ email \in [Requests -> Emails \cup {Nobody}]
  /\ slug = [r \in Requests |-> slug[r]]
  /\ goal \in [Requests -> Requests \cup {Nobody}]
  /\ accepted \in [Requests -> BOOLEAN]
  /\ answer \in [Requests -> {0, 200, 400, 401, 403, 500}]
  /\ late \in [Requests -> BOOLEAN]
  /\ users \subseteq Requests
  /\ workspaces \subseteq Requests
  /\ session \in [Requests -> [state : States, user : Requests \cup {Nobody},
                               active : Requests \cup {Nobody}]]

\* Where a request is tells what it asks for, and that it is unanswered.
Stages ==
  \A r \in Requests :
    /\ pc[r] = "idle" => op[r] = "none"
    /\ pc[r] # "done" => answer[r] = 0
    /\ pc[r] = "user" => op[r] \in Registering
    /\ pc[r] \in {"slug", "workspace"} => op[r] \in Creating
    /\ pc[r] = "touch" => op[r] \in WithCookie
    /\ op[r] \in Registering => email[r] # Nobody
    /\ token[r] # Nobody => op[r] \in WithCookie

\* Rows are those of requests that are done, which change nothing any more.
RowsAreOfTheDone ==
  /\ \A r \in users \cup workspaces : pc[r] = "done"
  /\ \A t \in Requests : session[t].state # "none" => pc[t] = "done"

\* A cookie is of a session there is.
CookiesHaveSessions ==
  \A r \in Requests :
    op[r] \in WithCookie => token[r] \in Requests /\ session[token[r]].state # "none"

\* A user that is not committed yet ...
NewUser(r) == op[r] \in Registering /\ pc[r] \in {"slug", "workspace", "commit"}
\* ... has an e-mail of its own.
EmailsAreApart ==
  /\ \A u, v \in users : email[u] = email[v] => u = v
  /\ \A r \in Requests : NewUser(r) =>
       /\ \A u \in users : email[u] # email[r]
       /\ \A q \in Requests : NewUser(q) /\ email[q] = email[r] => q = r

\* A workspace that is not committed yet ...
NewWorkspace(r) == op[r] \in Creating /\ pc[r] \in {"touch", "commit"}
\* ... has a slug of its own.
SlugsAreApart ==
  /\ \A w, x \in workspaces : slug[w] = slug[x] => w = x
  /\ \A r \in Requests : NewWorkspace(r) =>
       /\ \A w \in workspaces : slug[w] # slug[r]
       /\ \A q \in Requests : NewWorkspace(q) /\ slug[q] = slug[r] => q = r

\* Users are members of the workspace they have registered with.
UsersHaveHomes == \A u \in users : <<u, u>> \in members

\* A switch that is under way has been allowed.
SwitchesAreAllowed ==
  \A r \in Requests :
    op[r] = "switch" /\ pc[r] \in {"touch", "commit"} =>
      <<session[token[r]].user, goal[r]>> \in members

\* A session that was logged out is over.
LogoutsLast ==
  \A r \in Requests :
    op[r] = "logout" /\ answer[r] = 200 => session[token[r]].state \in Over

\* Who comes too late gets no further than the check of the session.
LateOnesAreRefused ==
  \A r \in Requests : late[r] =>
    /\ op[r] \in WithCookie /\ session[token[r]].state \in Over
    /\ op[r] # "logout" => pc[r] \in {"begun", "done"} /\ answer[r] # 200

Inv ==
  /\ Typed /\ Stages /\ RowsAreOfTheDone /\ CookiesHaveSessions
  /\ EmailsAreApart /\ SlugsAreApart
  /\ UsersHaveHomes /\ SwitchesAreAllowed /\ SessionsStayInTenancy
  /\ LogoutsLast /\ LateOnesAreRefused

-----------------------------------------------------------------------------

\* Before its commit a request changes no row, but it may hold new ones.
Before(r) ==
  \/ ChecksEmail(r) \/ InsertsUser(r) \/ PicksSlug(r) \/ SlugIsGiven(r)
  \/ InsertsWorkspace(r) \/ LogsIn(r) \/ Resolves(r) \/ Touches(r)
AtCommit(r) ==
  \/ Registers(r) \/ StartsSession(r) \/ CreatesWorkspace(r) \/ Switches(r)
  \/ TellsWho(r) \/ LogsOut(r) \/ CommitFails(r)

\* A step of a request is its own: forms, and what concerns others, stay.
LEMMA StepIsOnesOwn ==
  ASSUME Typed, NEW r \in Requests, Step(r)
  PROVE  /\ UNCHANGED form
         /\ pc[r] \notin {"idle", "done"}
         /\ \A q \in Requests \ {r} : pc'[q] = pc[q] /\ answer'[q] = answer[q]
                                      /\ slug'[q] = slug[q]
<1> USE DEF Typed, form, Goes, Answers, Kept, Commit
<1>1. CASE ChecksEmail(r) \/ InsertsUser(r) \/ SlugIsGiven(r) \/ InsertsWorkspace(r)
  BY <1>1 DEF ChecksEmail, InsertsUser, SlugIsGiven, InsertsWorkspace
<1>2. CASE LogsIn(r) \/ Resolves(r) \/ Touches(r)
  BY <1>2 DEF LogsIn, Resolves, Touches
<1>3. CASE PicksSlug(r)
  BY <1>3 DEF PicksSlug
<1>4. CASE AtCommit(r)
  BY <1>4 DEF AtCommit, Registers, StartsSession, CreatesWorkspace, Switches, TellsWho,
              LogsOut, CommitFails
<1> QED
  BY <1>1, <1>2, <1>3, <1>4 DEF Step, AtCommit

\* Only a commit changes rows.
LEMMA RowsAwaitTheCommit ==
  ASSUME NEW r \in Requests, Before(r)
  PROVE  UNCHANGED tables
BY DEF Before, ChecksEmail, InsertsUser, PicksSlug, SlugIsGiven, InsertsWorkspace, LogsIn,
       Resolves, Touches, Goes, Answers, Kept, tables

\* What Send puts into the form of its request, and what it leaves alone.
LEMMA SendFillsTheForm ==
  ASSUME Typed, NEW r \in Requests, Send(r)
  PROVE  /\ pc[r] = "idle" /\ pc' = [pc EXCEPT ![r] = "begun"]
         /\ UNCHANGED <<accepted, answer, users, workspaces, members, session>>
         /\ \A q \in Requests \ {r} :
              /\ op'[q] = op[q] /\ token'[q] = token[q] /\ email'[q] = email[q]
              /\ slug'[q] = slug[q] /\ goal'[q] = goal[q] /\ late'[q] = late[q]
         /\ op'[r] \in Operations
         /\ op'[r] \in WithCookie <=> token'[r] # Nobody
         /\ token'[r] # Nobody =>
              token'[r] \in Requests /\ session[token'[r]].state # "none"
         /\ op'[r] \in Registering => email'[r] # Nobody
         /\ late'[r] => token'[r] # Nobody /\ LoggedOut(token'[r])
         /\ Typed'
<1>1. PICK o \in Operations, t \in Requests \cup {Nobody}, m \in Emails \cup {Nobody},
           n \in Names, g \in Requests \cup {Nobody} :
        /\ (o \in {"create", "switch", "me", "logout"}) <=> (t # Nobody)
        /\ t # Nobody => session[t].state # "none"
        /\ (o \in {"register", "bootstrap", "login"}) <=> (m # Nobody)
        /\ (o = "switch") <=> (g # Nobody)
        /\ g # Nobody => g \in workspaces
        /\ op' = [op EXCEPT ![r] = o]
        /\ token' = [token EXCEPT ![r] = t]
        /\ email' = [email EXCEPT ![r] = m]
        /\ slug' = [slug EXCEPT ![r] = n]
        /\ goal' = [goal EXCEPT ![r] = g]
        /\ late' = [late EXCEPT ![r] = t # Nobody /\ LoggedOut(t)]
  BY DEF Send
<1>2. pc[r] = "idle" /\ pc' = [pc EXCEPT ![r] = "begun"]
  BY DEF Send
<1>3. UNCHANGED <<accepted, answer, users, workspaces, members, session>>
  BY DEF Send, tables
<1>4. \A q \in Requests \ {r} :
        /\ op'[q] = op[q] /\ token'[q] = token[q] /\ email'[q] = email[q]
        /\ slug'[q] = slug[q] /\ goal'[q] = goal[q] /\ late'[q] = late[q]
  BY <1>1 DEF Typed
<1>5. op'[r] = o /\ token'[r] = t /\ email'[r] = m
  BY <1>1 DEF Typed
<1>6. late'[r] = (t # Nobody /\ LoggedOut(t))
  BY <1>1 DEF Typed
<1>7. (t # Nobody /\ LoggedOut(t)) \in BOOLEAN
  BY DEF LoggedOut
<1>8. late' \in [Requests -> BOOLEAN]
  BY <1>1, <1>7 DEF Typed
<1>9. slug' = [q \in Requests |-> slug'[q]]
  BY <1>1 DEF Typed
<1>10. /\ op' \in [Requests -> Operations \cup {"none"}]
       /\ token' \in [Requests -> Requests \cup {Nobody}]
       /\ goal' \in [Requests -> Requests \cup {Nobody}]
       /\ email' \in [Requests -> Emails \cup {Nobody}]
  BY <1>1 DEF Typed
<1>11. pc' \in [Requests -> {"idle", "begun", "user", "slug", "workspace", "touch",
                            "commit", "done"}]
  BY <1>2 DEF Typed
<1>12. Typed'
  BY <1>3, <1>8, <1>9, <1>10, <1>11 DEF Typed
<1>13. /\ op'[r] \in Operations
       /\ op'[r] \in WithCookie <=> token'[r] # Nobody
       /\ op'[r] \in Registering => email'[r] # Nobody
  BY <1>1, <1>5 DEF WithCookie, Registering
<1>14. token'[r] # Nobody => token'[r] \in Requests /\ session[token'[r]].state # "none"
  BY <1>1, <1>5
<1> QED
  BY <1>2, <1>3, <1>4, <1>5, <1>6, <1>12, <1>13, <1>14

LEMMA SessionIsTyped ==
  ASSUME Typed, CookiesHaveSessions, NEW r \in Requests, AtCommit(r)
  PROVE  session' \in [Requests -> [state : States, user : Requests \cup {Nobody},
                                   active : Requests \cup {Nobody}]]
<1>1. CASE Registers(r)
  BY <1>1 DEF Typed, Registers, NewSession, States
<1>2. CASE StartsSession(r)
  BY <1>2 DEF Typed, StartsSession, NewSession, States
<1>3. CASE CreatesWorkspace(r) \/ Switches(r) \/ LogsOut(r)
  <2>1. token[r] \in Requests
    BY <1>3 DEF CreatesWorkspace, Switches, LogsOut, CookiesHaveSessions, WithCookie, Commit
  <2>2. session[token[r]] \in [state : States, user : Requests \cup {Nobody},
                               active : Requests \cup {Nobody}]
    BY <2>1 DEF Typed
  <2>3. CASE CreatesWorkspace(r)
    BY <2>1, <2>2, <2>3 DEF Typed, CreatesWorkspace
  <2>4. CASE Switches(r)
    <3>1. goal[r] \in Requests \cup {Nobody}
      BY DEF Typed
    <3> QED
      BY <2>1, <2>2, <2>4, <3>1 DEF Typed, Switches
  <2>5. CASE LogsOut(r)
    BY <2>1, <2>2, <2>5 DEF Typed, LogsOut, States
  <2> QED
    BY <1>3, <2>3, <2>4, <2>5
<1>4. CASE TellsWho(r) \/ CommitFails(r)
  BY <1>4 DEF Typed, TellsWho, CommitFails, Kept, tables
<1> QED
  BY <1>1, <1>2, <1>3, <1>4 DEF AtCommit

LEMMA TypedStep ==
  ASSUME Typed, Stages, CookiesHaveSessions, NEW r \in Requests, Step(r)
  PROVE  Typed'
<1>1. CASE Before(r)
  <2>1. UNCHANGED <<form, tables>>
    BY <1>1, RowsAwaitTheCommit, StepIsOnesOwn
  <2>2. pc' \in [Requests -> {"idle", "begun", "user", "slug", "workspace", "touch",
                            "commit", "done"}]
    BY <1>1 DEF Typed, Before, ChecksEmail, InsertsUser, PicksSlug, SlugIsGiven,
       InsertsWorkspace, LogsIn, Resolves, Touches, Goes, Answers
  <2>3. answer' \in [Requests -> {0, 200, 400, 401, 403, 500}]
    BY <1>1 DEF Typed, Before, ChecksEmail, InsertsUser, PicksSlug, SlugIsGiven,
       InsertsWorkspace, LogsIn, Resolves, Touches, Goes, Answers
  <2>4. accepted' \in [Requests -> BOOLEAN]
    <3>1. CASE Resolves(r)
      BY <3>1 DEF Typed, Resolves, Accepted
    <3>2. CASE ~Resolves(r)
      BY <1>1, <3>2 DEF Typed, Before, ChecksEmail, InsertsUser, PicksSlug, SlugIsGiven,
         InsertsWorkspace, LogsIn, Touches, Kept
    <3> QED
      BY <3>1, <3>2
  <2>5. slug' = [q \in Requests |-> slug'[q]]
    BY <1>1 DEF Typed, Before, ChecksEmail, InsertsUser, PicksSlug, SlugIsGiven,
       InsertsWorkspace, LogsIn, Resolves, Touches, Kept
  <2> QED
    BY <2>1, <2>2, <2>3, <2>4, <2>5 DEF Typed, form, tables
<1>2. CASE AtCommit(r)
  <2>1. UNCHANGED <<form, slug, accepted>>
    BY <1>2 DEF AtCommit, Registers, StartsSession, CreatesWorkspace, Switches, TellsWho,
       LogsOut, CommitFails, Commit, Kept
  <2>2. /\ pc' \in [Requests -> {"idle", "begun", "user", "slug", "workspace", "touch",
                               "commit", "done"}]
        /\ answer' \in [Requests -> {0, 200, 400, 401, 403, 500}]
    BY <1>2 DEF Typed, AtCommit, Registers, StartsSession, CreatesWorkspace, Switches,
       TellsWho, LogsOut, CommitFails, Commit, Answers
  <2>3. users' \subseteq Requests /\ workspaces' \subseteq Requests
    BY <1>2 DEF Typed, AtCommit, Registers, StartsSession, CreatesWorkspace, Switches,
       TellsWho, LogsOut, CommitFails, Kept, tables
  <2>4. session' \in [Requests -> [state : States, user : Requests \cup {Nobody},
                                  active : Requests \cup {Nobody}]]
    BY <1>2, SessionIsTyped
  <2> QED
    BY <2>1, <2>2, <2>3, <2>4 DEF Typed, form
<1> QED
  BY <1>1, <1>2 DEF Step, Before, AtCommit

LEMMA StagesStep ==
  ASSUME Typed, Stages, NEW r \in Requests, Step(r)
  PROVE  Stages'
<1> USE DEF Typed, Goes, Answers, Kept, Commit, Stages, Registering, Creating, WithCookie
<1>1. UNCHANGED form /\ \A q \in Requests \ {r} : pc'[q] = pc[q] /\ answer'[q] = answer[q]
  BY StepIsOnesOwn
<1> SUFFICES ASSUME NEW q \in Requests
             PROVE  /\ pc'[q] = "idle" => op[q] = "none"
                    /\ pc'[q] # "done" => answer'[q] = 0
                    /\ pc'[q] = "user" => op[q] \in Registering
                    /\ pc'[q] \in {"slug", "workspace"} => op[q] \in Creating
                    /\ pc'[q] = "touch" => op[q] \in WithCookie
                    /\ op[q] \in Registering => email[q] # Nobody
                    /\ token[q] # Nobody => op[q] \in WithCookie
  BY <1>1 DEF form
<1>2. CASE q # r
  BY <1>1, <1>2
<1>3. CASE q = r /\ (ChecksEmail(r) \/ InsertsUser(r) \/ SlugIsGiven(r) \/ InsertsWorkspace(r))
  BY <1>3 DEF ChecksEmail, InsertsUser, SlugIsGiven, InsertsWorkspace
<1>4. CASE q = r /\ (LogsIn(r) \/ Touches(r) \/ PicksSlug(r))
  BY <1>4 DEF LogsIn, Touches, PicksSlug
<1>5. CASE q = r /\ Resolves(r)
  BY <1>5 DEF Resolves
<1>6. CASE q = r /\ AtCommit(r)
  BY <1>6 DEF AtCommit, Registers, StartsSession, CreatesWorkspace, Switches, TellsWho,
              LogsOut, CommitFails
<1> QED
  BY <1>2, <1>3, <1>4, <1>5, <1>6 DEF Step, AtCommit

LEMMA RowsStep ==
  ASSUME Inv, NEW r \in Requests, Step(r)
  PROVE  RowsAreOfTheDone'
<1>1. /\ pc[r] \notin {"idle", "done"}
      /\ \A q \in Requests \ {r} : pc'[q] = pc[q]
  BY StepIsOnesOwn DEF Inv
<1>2. r \notin users \cup workspaces /\ session[r].state = "none"
  BY <1>1 DEF Inv, RowsAreOfTheDone
<1>3. users \subseteq Requests /\ workspaces \subseteq Requests /\ DOMAIN session = Requests
      /\ DOMAIN pc = Requests
  BY DEF Inv, Typed
<1>4. CASE Before(r)
  <2>1. UNCHANGED tables
    BY <1>4, RowsAwaitTheCommit
  <2> QED
    BY <1>1, <1>2, <1>3, <2>1 DEF Inv, RowsAreOfTheDone, tables
<1>5. CASE AtCommit(r)
  <2>1. pc'[r] = "done"
    BY <1>3, <1>5 DEF AtCommit, Registers, StartsSession, CreatesWorkspace, Switches, TellsWho,
              LogsOut, CommitFails, Commit, Answers
  <2>2. users' \subseteq users \cup {r} /\ workspaces' \subseteq workspaces \cup {r}
    BY <1>5 DEF AtCommit, Registers, StartsSession, CreatesWorkspace, Switches, TellsWho,
              LogsOut, CommitFails, Commit, Kept, tables
  <2>3. \A t \in Requests \ {r} : session'[t].state # "none" => session[t].state # "none"
    <3>1. CASE Registers(r) \/ StartsSession(r) \/ TellsWho(r) \/ CommitFails(r)
      BY <1>3, <3>1 DEF Registers, StartsSession, TellsWho, CommitFails, NewSession, Kept, tables
    <3>2. CASE CreatesWorkspace(r) \/ Switches(r) \/ LogsOut(r)
      <4>1. token[r] \in Requests /\ session[token[r]].state # "none"
        BY <3>2 DEF Inv, CookiesHaveSessions, WithCookie, CreatesWorkspace, Switches, LogsOut, Commit
      <4>2. \A t \in Requests \ {token[r]} : session'[t] = session[t]
        BY <1>3, <3>2 DEF CreatesWorkspace, Switches, LogsOut
      <4> QED
        BY <4>1, <4>2
    <3> QED
      BY <1>5, <3>1, <3>2 DEF AtCommit
  <2> QED
    BY <1>1, <1>3, <2>1, <2>2, <2>3 DEF Inv, RowsAreOfTheDone
<1> QED
  BY <1>4, <1>5 DEF Step, Before, AtCommit

\* A session keeps its user, and does not come back to life.
LEMMA SessionsLast ==
  ASSUME Inv, NEW r \in Requests, Step(r), NEW t \in Requests, session[t].state # "none"
  PROVE  /\ session'[t].state # "none" /\ session'[t].user = session[t].user
         /\ session[t].state \in Over => session'[t].state \in Over
<1>1. t # r
  BY StepIsOnesOwn DEF Inv, RowsAreOfTheDone
<1>2. session \in [Requests -> [state : States, user : Requests \cup {Nobody},
                               active : Requests \cup {Nobody}]]
  BY DEF Inv, Typed
<1>3. CASE Before(r) \/ TellsWho(r) \/ CommitFails(r)
  BY <1>3, RowsAwaitTheCommit DEF TellsWho, CommitFails, Kept, tables
<1>4. CASE Registers(r) \/ StartsSession(r)
  BY <1>1, <1>2, <1>4 DEF Registers, StartsSession, NewSession
<1>5. CASE CreatesWorkspace(r) \/ Switches(r)
  BY <1>2, <1>5 DEF CreatesWorkspace, Switches
<1>6. CASE LogsOut(r)
  BY <1>2, <1>6 DEF LogsOut, Over
<1> QED
  BY <1>3, <1>4, <1>5, <1>6 DEF Step, Before

LEMMA CookiesStep ==
  ASSUME Inv, NEW r \in Requests, Step(r)
  PROVE  CookiesHaveSessions'
<1>1. UNCHANGED form
  BY StepIsOnesOwn DEF Inv
<1>2. \A q \in Requests : op[q] \in WithCookie => token[q] \in Requests /\ session[token[q]].state # "none"
  BY DEF Inv, CookiesHaveSessions
<1> QED
  BY <1>1, <1>2, SessionsLast DEF CookiesHaveSessions, form

LEMMA EmailsStep ==
  ASSUME Inv, NEW r \in Requests, Step(r)
  PROVE  EmailsAreApart'
<1>1. /\ UNCHANGED email /\ UNCHANGED op
      /\ \A q \in Requests \ {r} : pc'[q] = pc[q]
  BY StepIsOnesOwn DEF Inv, form
<1>2. DOMAIN pc = Requests /\ users \subseteq Requests
  BY DEF Inv, Typed
<1>3. CASE InsertsUser(r)
  <2>1. UNCHANGED users
    BY <1>3, RowsAwaitTheCommit DEF Before, tables
  <2>2. op[r] \in Registering /\ email[r] # Nobody
    BY <1>3 DEF Inv, Stages, InsertsUser
  <2>3. \A q \in Requests \ {r} : NewUser(q) => email[q] # email[r]
    BY <1>3 DEF InsertsUser, HoldsEmail, NewUser, Registering
  <2>4. NewUser(r)' => \A u \in users : email[u] # email[r]
    BY <1>2, <1>3 DEF InsertsUser, NewUser, Answers
  <2>5. \A q \in Requests \ {r} : NewUser(q)' <=> NewUser(q)
    BY <1>1 DEF NewUser
  <2>6. ~NewUser(r)
    BY <1>3 DEF NewUser, InsertsUser
  <2> QED
    BY <1>1, <1>2, <2>1, <2>3, <2>4, <2>5, <2>6 DEF Inv, EmailsAreApart
<1>4. CASE Registers(r)
  <2>1. users' = users \cup {r} /\ NewUser(r)
    BY <1>4 DEF Registers, Commit, NewUser, Registering
  <2>2. ~NewUser(r)'
    BY <1>2, <1>4 DEF Registers, Commit, Answers, NewUser
  <2>3. \A q \in Requests \ {r} : NewUser(q)' <=> NewUser(q)
    BY <1>1 DEF NewUser
  <2> QED
    BY <1>1, <1>2, <2>1, <2>2, <2>3 DEF Inv, EmailsAreApart
<1>5. CASE ~InsertsUser(r) /\ ~Registers(r)
  <2>1. UNCHANGED users
    BY <1>5, RowsAwaitTheCommit DEF Step, Before, StartsSession, CreatesWorkspace, Switches, TellsWho,
              LogsOut, CommitFails, Kept, tables
  <2>2. NewUser(r)' => NewUser(r)
    <3>1. CASE ChecksEmail(r) \/ LogsIn(r) \/ Touches(r)
      BY <1>1, <1>2, <3>1 DEF ChecksEmail, LogsIn, Touches, Goes, Answers, NewUser, Registering,
              Inv, Stages, WithCookie
    <3>2. CASE Resolves(r)
      <4>1. op[r] \notin Registering
        BY <3>2 DEF Resolves, Inv, Stages, WithCookie, Registering
      <4> QED
        BY <1>1, <4>1 DEF NewUser
    <3>3. CASE PicksSlug(r) \/ SlugIsGiven(r) \/ InsertsWorkspace(r)
      BY <1>1, <3>3 DEF PicksSlug, SlugIsGiven, InsertsWorkspace, NewUser
    <3>4. CASE StartsSession(r) \/ CreatesWorkspace(r) \/ Switches(r) \/ TellsWho(r)
                 \/ LogsOut(r) \/ CommitFails(r)
      BY <1>1, <3>4 DEF StartsSession, CreatesWorkspace, Switches, TellsWho, LogsOut, CommitFails,
              Commit, NewUser
    <3> QED
      BY <1>5, <3>1, <3>2, <3>3, <3>4 DEF Step
  <2>3. \A q \in Requests : NewUser(q)' => NewUser(q)
    BY <1>1, <2>2 DEF NewUser
  <2> QED
    BY <1>1, <2>1, <2>3 DEF Inv, EmailsAreApart
<1> QED
  BY <1>3, <1>4, <1>5

LEMMA SlugsStep ==
  ASSUME Inv, NEW r \in Requests, Step(r)
  PROVE  SlugsAreApart'
<1>1. /\ UNCHANGED op
      /\ \A q \in Requests \ {r} : pc'[q] = pc[q] /\ slug'[q] = slug[q]
  BY StepIsOnesOwn DEF Inv, form
<1>2. DOMAIN pc = Requests /\ workspaces \subseteq Requests
  BY DEF Inv, Typed
<1>3. r \notin workspaces
  BY StepIsOnesOwn DEF Inv, RowsAreOfTheDone
<1>4. \A q \in Requests \ {r} : NewWorkspace(q)' <=> NewWorkspace(q)
  BY <1>1 DEF NewWorkspace
<1>5. CASE InsertsWorkspace(r)
  <2>1. UNCHANGED workspaces /\ UNCHANGED slug
    BY <1>5, RowsAwaitTheCommit DEF Before, tables, InsertsWorkspace, Kept
  <2>2. \A q \in Requests \ {r} : NewWorkspace(q) => slug[q] # slug[r]
    BY <1>5 DEF InsertsWorkspace, HoldsSlug, NewWorkspace, Creating
  <2>3. NewWorkspace(r)' => \A w \in workspaces : slug[w] # slug[r]
    BY <1>2, <1>5 DEF InsertsWorkspace, Free, NewWorkspace, Answers
  <2>4. ~NewWorkspace(r)
    BY <1>5 DEF NewWorkspace, InsertsWorkspace
  <2> QED
    BY <1>2, <1>4, <2>1, <2>2, <2>3, <2>4 DEF Inv, SlugsAreApart
<1>6. CASE Registers(r) \/ CreatesWorkspace(r)
  <2>1. workspaces' = workspaces \cup {r} /\ UNCHANGED slug /\ NewWorkspace(r)
    BY <1>6 DEF Registers, CreatesWorkspace, Commit, NewWorkspace, Creating
  <2>2. ~NewWorkspace(r)'
    BY <1>2, <1>6 DEF Registers, CreatesWorkspace, Commit, Answers, NewWorkspace
  <2> QED
    BY <1>2, <1>4, <2>1, <2>2 DEF Inv, SlugsAreApart
<1>7. CASE PicksSlug(r)
  <2>1. UNCHANGED workspaces
    BY <1>7, RowsAwaitTheCommit DEF Before, tables
  <2>2. ~NewWorkspace(r)'
    BY <1>2, <1>7 DEF PicksSlug, Goes, NewWorkspace
  <2> QED
    BY <1>1, <1>2, <1>3, <1>4, <2>1, <2>2 DEF Inv, SlugsAreApart
<1>8. CASE ~InsertsWorkspace(r) /\ ~Registers(r) /\ ~CreatesWorkspace(r) /\ ~PicksSlug(r)
  <2>1. UNCHANGED workspaces /\ UNCHANGED slug
    BY <1>8, RowsAwaitTheCommit DEF Step, Before, ChecksEmail, InsertsUser, SlugIsGiven, LogsIn, Resolves, Touches,
              StartsSession, Switches, TellsWho, LogsOut, CommitFails, Commit, Kept, tables
  <2>2. NewWorkspace(r)' => NewWorkspace(r)
    <3>1. CASE ChecksEmail(r) \/ InsertsUser(r) \/ SlugIsGiven(r)
      BY <1>2, <3>1 DEF ChecksEmail, InsertsUser, SlugIsGiven, Goes, Answers, NewWorkspace
    <3>2. CASE LogsIn(r)
      BY <1>1, <3>2 DEF LogsIn, NewWorkspace, Creating
    <3>3. CASE Resolves(r)
      BY <1>1, <1>2, <3>3 DEF Resolves, Goes, Answers, NewWorkspace, Creating, Inv, Stages, WithCookie
    <3>4. CASE Touches(r)
      BY <1>1, <3>4 DEF Touches, NewWorkspace
    <3>5. CASE StartsSession(r) \/ Switches(r) \/ TellsWho(r) \/ LogsOut(r) \/ CommitFails(r)
      BY <1>1, <3>5 DEF StartsSession, Switches, TellsWho, LogsOut, CommitFails, Commit, NewWorkspace
    <3> QED
      BY <1>8, <3>1, <3>2, <3>3, <3>4, <3>5 DEF Step
  <2>3. \A q \in Requests : NewWorkspace(q)' => NewWorkspace(q)
    BY <1>4, <2>2
  <2> QED
    BY <2>1, <2>3 DEF Inv, SlugsAreApart
<1> QED
  BY <1>5, <1>6, <1>7, <1>8

\* Nobody loses a membership.
LEMMA MembersStay ==
  ASSUME NEW r \in Requests, Step(r)
  PROVE  members \subseteq members'
BY RowsAwaitTheCommit DEF Step, Before, Registers, StartsSession, CreatesWorkspace, Switches,
   TellsWho, LogsOut, CommitFails, Kept, tables

LEMMA HomesStep ==
  ASSUME Inv, NEW r \in Requests, Step(r)
  PROVE  UsersHaveHomes'
<1>1. members \subseteq members'
  BY MembersStay
<1>2. CASE Registers(r)
  BY <1>1, <1>2 DEF Registers, Inv, UsersHaveHomes
<1>3. CASE ~Registers(r)
  <2>1. UNCHANGED users
    BY <1>3, RowsAwaitTheCommit DEF Step, Before, StartsSession, CreatesWorkspace, Switches,
       TellsWho, LogsOut, CommitFails, Kept, tables
  <2> QED
    BY <1>1, <2>1 DEF Inv, UsersHaveHomes
<1> QED
  BY <1>2, <1>3

LEMMA SwitchesStep ==
  ASSUME Inv, NEW r \in Requests, Step(r)
  PROVE  SwitchesAreAllowed'
<1>1. /\ UNCHANGED <<op, token, goal>>
      /\ \A q \in Requests \ {r} : pc'[q] = pc[q]
  BY StepIsOnesOwn DEF Inv, form
<1>2. members \subseteq members'
  BY MembersStay
<1> SUFFICES ASSUME NEW q \in Requests, op[q] = "switch", pc'[q] \in {"touch", "commit"}
             PROVE  <<session'[token[q]].user, goal[q]>> \in members'
  BY <1>1 DEF SwitchesAreAllowed
<1>3. token[q] \in Requests /\ session[token[q]].state # "none"
  BY DEF Inv, CookiesHaveSessions, WithCookie
<1>4. session'[token[q]].user = session[token[q]].user
  BY <1>3, SessionsLast
<1>5. <<session[token[q]].user, goal[q]>> \in members
  <2>1. CASE pc[q] \in {"touch", "commit"}
    BY <2>1 DEF Inv, SwitchesAreAllowed
  <2>2. CASE pc[q] \notin {"touch", "commit"}
    <3>1. q = r
      BY <1>1, <2>2
    <3>2. Resolves(r)
      <4>1. op[r] = "switch" /\ op[r] \notin Creating /\ op[r] \notin Registering
        BY <3>1 DEF Creating, Registering
      <4>2. pc[r] \notin {"user", "slug", "workspace"}
        BY <4>1 DEF Inv, Stages
      <4> QED
        BY <2>2, <3>1, <4>1, <4>2 DEF Step, ChecksEmail, InsertsUser, PicksSlug, SlugIsGiven,
           InsertsWorkspace, LogsIn, Touches, Registers, StartsSession, CreatesWorkspace, Switches,
           TellsWho, LogsOut, CommitFails, Commit
    <3>3. MaySwitch(token[r], goal[r])
      <4>1. DOMAIN pc = Requests
        BY DEF Inv, Typed
      <4> QED
        BY <3>1, <3>2, <4>1 DEF Resolves, Answers
    <3> QED
      BY <3>1, <3>3 DEF MaySwitch
  <2> QED
    BY <2>1, <2>2
<1> QED
  BY <1>2, <1>4, <1>5

LEMMA TenancyStep ==
  ASSUME Inv, NEW r \in Requests, Step(r)
  PROVE  SessionsStayInTenancy'
<1>1. members \subseteq members'
  BY MembersStay
<1>2. session \in [Requests -> [state : States, user : Requests \cup {Nobody},
                               active : Requests \cup {Nobody}]]
  BY DEF Inv, Typed
<1> SUFFICES ASSUME NEW t \in Requests, session'[t].state # "none"
             PROVE  <<session'[t].user, session'[t].active>> \in members'
  BY DEF SessionsStayInTenancy
<1>3. session[t].state # "none" => <<session[t].user, session[t].active>> \in members
  BY DEF Inv, SessionsStayInTenancy
<1>4. op[r] \in WithCookie => token[r] \in Requests /\ session[token[r]].state # "none"
  BY DEF Inv, CookiesHaveSessions
<1>5. CASE Before(r) \/ TellsWho(r) \/ CommitFails(r)
  <2>1. session' = session
    BY <1>5, RowsAwaitTheCommit DEF TellsWho, CommitFails, Kept, tables
  <2> QED
    BY <1>1, <1>3, <2>1
<1>6. CASE Registers(r)
  <2>1. CASE t = r /\ op[r] = "register"
    BY <1>2, <1>6, <2>1 DEF Registers, NewSession
  <2>2. CASE ~(t = r /\ op[r] = "register")
    <3>1. session'[t] = session[t]
      BY <1>2, <1>6, <2>2 DEF Registers, NewSession
    <3> QED
      BY <1>1, <1>3, <3>1
  <2> QED
    BY <2>1, <2>2
<1>7. CASE StartsSession(r)
  <2>1. PICK u \in users : session' = [session EXCEPT ![r] = [state |-> "active", user |-> u, active |-> u]]
    BY <1>7 DEF StartsSession, NewSession
  <2>2. <<u, u>> \in members
    BY DEF Inv, UsersHaveHomes
  <2>3. CASE t = r
    BY <1>1, <1>2, <2>1, <2>2, <2>3
  <2>4. CASE t # r
    <3>1. session'[t] = session[t]
      BY <2>1, <2>4
    <3> QED
      BY <1>1, <1>3, <3>1
  <2> QED
    BY <2>3, <2>4
<1>8. CASE CreatesWorkspace(r) \/ Switches(r) \/ LogsOut(r)
  <2>1. token[r] \in Requests /\ session[token[r]].state # "none"
    BY <1>4, <1>8 DEF CreatesWorkspace, Switches, LogsOut, Commit, WithCookie
  <2>2. CASE t # token[r]
    <3>1. session'[t] = session[t]
      BY <1>2, <1>8, <2>2 DEF CreatesWorkspace, Switches, LogsOut
    <3> QED
      BY <1>1, <1>3, <3>1
  <2>3. CASE t = token[r] /\ CreatesWorkspace(r)
    <3>1. session'[t].user = session[t].user /\ session'[t].active = r
      BY <1>2, <2>3 DEF CreatesWorkspace
    <3> QED
      BY <2>3, <3>1 DEF CreatesWorkspace
  <2>4. CASE t = token[r] /\ Switches(r)
    <3>1. session'[t].user = session[t].user /\ session'[t].active = goal[r]
      BY <1>2, <2>4 DEF Switches
    <3>2. <<session[token[r]].user, goal[r]>> \in members
      BY <2>4 DEF Switches, Commit, Inv, SwitchesAreAllowed
    <3> QED
      BY <1>1, <2>4, <3>1, <3>2
  <2>5. CASE t = token[r] /\ LogsOut(r)
    <3>1. session'[t].user = session[t].user /\ session'[t].active = session[t].active
      BY <1>2, <2>5 DEF LogsOut
    <3> QED
      BY <1>1, <1>3, <2>1, <2>5, <3>1
  <2> QED
    BY <1>8, <2>2, <2>3, <2>4, <2>5
<1> QED
  BY <1>5, <1>6, <1>7, <1>8 DEF Step, Before

LEMMA LogoutsStep ==
  ASSUME Inv, NEW r \in Requests, Step(r)
  PROVE  LogoutsLast'
<1>1. /\ UNCHANGED <<op, token>>
      /\ pc[r] \notin {"idle", "done"}
      /\ \A q \in Requests \ {r} : answer'[q] = answer[q]
  BY StepIsOnesOwn DEF Inv, form
<1> SUFFICES ASSUME NEW q \in Requests, op[q] = "logout", answer'[q] = 200
             PROVE  session'[token[q]].state \in Over
  BY <1>1 DEF LogoutsLast
<1>2. token[q] \in Requests /\ session[token[q]].state # "none"
  BY DEF Inv, CookiesHaveSessions, WithCookie
<1>3. CASE answer[q] = 200
  <2>1. session[token[q]].state \in Over
    BY <1>3 DEF Inv, LogoutsLast
  <2> QED
    BY <1>2, <2>1, SessionsLast
<1>4. CASE answer[q] # 200
  <2>1. q = r
    BY <1>1, <1>4
  <2>2. answer \in [Requests -> {0, 200, 400, 401, 403, 500}]
    BY DEF Inv, Typed
  <2>3. LogsOut(r)
    <3>1. answer'[r] # answer[r] /\ answer'[r] = 200
      BY <1>4, <2>1
    <3>3. ASSUME NEW c \in {400, 401, 403, 500} PROVE ~Answers(r, c)
      BY <2>2, <3>1 DEF Answers
    <3>4. ~ChecksEmail(r) /\ ~InsertsUser(r) /\ ~PicksSlug(r) /\ ~SlugIsGiven(r)
          /\ ~InsertsWorkspace(r) /\ ~Touches(r) /\ ~CommitFails(r)
      BY <3>1, <3>3 DEF ChecksEmail, InsertsUser, PicksSlug, SlugIsGiven, InsertsWorkspace,
         Touches, CommitFails, Goes
    <3>5. ~LogsIn(r) /\ ~Resolves(r)
      BY <3>1, <3>3 DEF LogsIn, Resolves, Goes
    <3>2. op[r] = "logout"
      BY <2>1
    <3> QED
      BY <3>2, <3>4, <3>5 DEF Step, Registers, StartsSession, CreatesWorkspace, Switches,
         TellsWho, Commit
  <2>4. session \in [Requests -> [state : States, user : Requests \cup {Nobody},
                                 active : Requests \cup {Nobody}]]
    BY DEF Inv, Typed
  <2> QED
    BY <1>2, <2>1, <2>3, <2>4 DEF LogsOut, Over
<1> QED
  BY <1>3, <1>4

LEMMA LateStep ==
  ASSUME Inv, NEW r \in Requests, Step(r)
  PROVE  LateOnesAreRefused'
<1>1. /\ UNCHANGED <<op, token, late>>
      /\ pc[r] \notin {"idle", "done"}
      /\ \A q \in Requests \ {r} : pc'[q] = pc[q] /\ answer'[q] = answer[q]
  BY StepIsOnesOwn DEF Inv, form
<1> SUFFICES ASSUME NEW q \in Requests, late[q]
             PROVE  /\ op[q] \in WithCookie /\ session'[token[q]].state \in Over
                    /\ op[q] # "logout" => pc'[q] \in {"begun", "done"} /\ answer'[q] # 200
  BY <1>1 DEF LateOnesAreRefused
<1>2. op[q] \in WithCookie /\ session[token[q]].state \in Over
  BY DEF Inv, LateOnesAreRefused
<1>3. token[q] \in Requests /\ session[token[q]].state # "none"
  BY <1>2 DEF Inv, CookiesHaveSessions
<1>4. session'[token[q]].state \in Over
  BY <1>2, <1>3, SessionsLast
<1>5. ASSUME op[q] # "logout" PROVE pc'[q] \in {"begun", "done"} /\ answer'[q] # 200
  <2>1. pc[q] \in {"begun", "done"} /\ answer[q] # 200
    BY <1>5 DEF Inv, LateOnesAreRefused
  <2>2. CASE q # r
    BY <1>1, <2>1, <2>2
  <2>3. CASE q = r
    <3>1. pc[r] = "begun" /\ op[r] \in WithCookie
      BY <1>1, <1>2, <2>1, <2>3
    <3>2. Resolves(r)
      BY <3>1 DEF Step, ChecksEmail, InsertsUser, PicksSlug, SlugIsGiven, InsertsWorkspace,
         LogsIn, Touches, Registers, StartsSession, CreatesWorkspace, Switches,
         TellsWho, LogsOut, CommitFails, Commit, WithCookie
    <3>3. ~Accepted(token[r])
      BY <1>2, <2>3 DEF Accepted, Over
    <3>4. DOMAIN pc = Requests /\ DOMAIN answer = Requests
      BY DEF Inv, Typed
    <3> QED
      BY <1>5, <2>3, <3>2, <3>3, <3>4 DEF Resolves, Answers
  <2> QED
    BY <2>2, <2>3
<1> QED
  BY <1>2, <1>4, <1>5

\* A request that is sent has no effect yet.
LEMMA InvSend ==
  ASSUME Inv, NEW r \in Requests, Send(r)
  PROVE  Inv'
<1> USE SendFillsTheForm
<1>1. Typed
  BY DEF Inv
<1>2. Typed' /\ pc[r] = "idle" /\ pc' = [pc EXCEPT ![r] = "begun"]
  BY <1>1
<1>3. UNCHANGED <<accepted, answer, users, workspaces, members, session>>
  BY <1>1
<1>4. \A q \in Requests \ {r} :
        /\ op'[q] = op[q] /\ token'[q] = token[q] /\ email'[q] = email[q]
        /\ slug'[q] = slug[q] /\ goal'[q] = goal[q] /\ late'[q] = late[q]
  BY <1>1
<1>5. pc'[r] = "begun" /\ \A q \in Requests \ {r} : pc'[q] = pc[q]
  BY <1>1, <1>2 DEF Typed
<1>6. /\ op'[r] \in WithCookie <=> token'[r] # Nobody
      /\ token'[r] # Nobody =>
           token'[r] \in Requests /\ session[token'[r]].state # "none"
      /\ op'[r] \in Registering => email'[r] # Nobody
      /\ late'[r] => token'[r] # Nobody /\ LoggedOut(token'[r])
  BY <1>1
<1>7. users \subseteq Requests /\ workspaces \subseteq Requests
  BY DEF Inv, Typed
<1>8. r \notin users /\ r \notin workspaces
  BY <1>2 DEF Inv, RowsAreOfTheDone
<1>9. Stages'
  <2> SUFFICES ASSUME NEW q \in Requests
               PROVE  /\ pc'[q] = "idle" => op'[q] = "none"
                      /\ pc'[q] # "done" => answer'[q] = 0
                      /\ pc'[q] = "user" => op'[q] \in Registering
                      /\ pc'[q] \in {"slug", "workspace"} => op'[q] \in Creating
                      /\ pc'[q] = "touch" => op'[q] \in WithCookie
                      /\ op'[q] \in Registering => email'[q] # Nobody
                      /\ token'[q] # Nobody => op'[q] \in WithCookie
    BY DEF Stages
  <2>1. CASE q = r
    BY <1>2, <1>3, <1>5, <1>6, <2>1 DEF Inv, Stages
  <2>2. CASE q # r
    BY <1>3, <1>4, <1>5, <2>2 DEF Inv, Stages
  <2> QED
    BY <2>1, <2>2
<1>10. RowsAreOfTheDone'
  BY <1>2, <1>3, <1>5, <1>7 DEF Inv, RowsAreOfTheDone
<1>11. CookiesHaveSessions'
  BY <1>3, <1>4, <1>6 DEF Inv, CookiesHaveSessions
<1>12. EmailsAreApart'
  <2>1. ~NewUser(r)' /\ \A q \in Requests \ {r} : NewUser(q)' <=> NewUser(q)
    BY <1>4, <1>5 DEF NewUser
  <2> QED
    BY <1>3, <1>4, <1>7, <1>8, <2>1 DEF Inv, EmailsAreApart
<1>13. SlugsAreApart'
  <2>1. ~NewWorkspace(r)' /\ \A q \in Requests \ {r} : NewWorkspace(q)' <=> NewWorkspace(q)
    BY <1>4, <1>5 DEF NewWorkspace
  <2> QED
    BY <1>3, <1>4, <1>7, <1>8, <2>1 DEF Inv, SlugsAreApart
<1>14. UsersHaveHomes' /\ SessionsStayInTenancy'
  BY <1>3 DEF Inv, UsersHaveHomes, SessionsStayInTenancy
<1>15. SwitchesAreAllowed'
  BY <1>3, <1>4, <1>5 DEF Inv, SwitchesAreAllowed
<1>16. LogoutsLast'
  <2>1. answer'[r] # 200
    BY <1>2, <1>3 DEF Inv, Stages
  <2> QED
    BY <1>3, <1>4, <2>1 DEF Inv, LogoutsLast
<1>17. LateOnesAreRefused'
  <2> SUFFICES ASSUME NEW q \in Requests, late'[q]
               PROVE  /\ op'[q] \in WithCookie /\ session'[token'[q]].state \in Over
                      /\ op'[q] # "logout" => pc'[q] \in {"begun", "done"} /\ answer'[q] # 200
    BY DEF LateOnesAreRefused
  <2>1. CASE q # r
    BY <1>3, <1>4, <1>5, <2>1 DEF Inv, LateOnesAreRefused
  <2>2. CASE q = r
    <3>1. op'[r] \in WithCookie /\ LoggedOut(token'[r])
      BY <1>6, <2>2
    <3>2. session[token'[r]].state \in Over
      BY <3>1 DEF LoggedOut, Inv, LogoutsLast
    <3>3. answer'[r] # 200
      BY <1>2, <1>3 DEF Inv, Stages
    <3> QED
      BY <1>3, <1>5, <2>2, <3>1, <3>2, <3>3
  <2> QED
    BY <2>1, <2>2
<1> QED
  BY <1>2, <1>9, <1>10, <1>11, <1>12, <1>13, <1>14, <1>15, <1>16, <1>17 DEF Inv

\* Nothing has been asked for, and no row is there.
LEMMA InitInv == Init => Inv
<1> SUFFICES ASSUME Init PROVE Inv
  OBVIOUS
<1> USE DEF Init
<1>1. Typed
  BY DEF Typed, States
<1>2. Stages /\ RowsAreOfTheDone
  BY DEF Stages, RowsAreOfTheDone, Registering
<1>3. CookiesHaveSessions /\ SwitchesAreAllowed /\ LogoutsLast /\ LateOnesAreRefused
  BY DEF CookiesHaveSessions, WithCookie, SwitchesAreAllowed, LogoutsLast, LateOnesAreRefused
<1>4. EmailsAreApart /\ SlugsAreApart
  BY DEF EmailsAreApart, NewUser, SlugsAreApart, NewWorkspace
<1>5. UsersHaveHomes /\ SessionsStayInTenancy
  BY DEF UsersHaveHomes, SessionsStayInTenancy
<1> QED
  BY <1>1, <1>2, <1>3, <1>4, <1>5 DEF Inv

LEMMA InvStep ==
  ASSUME Inv, NEW r \in Requests, Step(r)
  PROVE  Inv'
<1>1. Typed' /\ Stages'
  BY TypedStep, StagesStep DEF Inv
<1>2. RowsAreOfTheDone' /\ CookiesHaveSessions' /\ EmailsAreApart' /\ SlugsAreApart'
  BY RowsStep, CookiesStep, EmailsStep, SlugsStep
<1>3. UsersHaveHomes' /\ SwitchesAreAllowed' /\ SessionsStayInTenancy'
  BY HomesStep, SwitchesStep, TenancyStep
<1>4. LogoutsLast' /\ LateOnesAreRefused'
  BY LogoutsStep, LateStep
<1> QED
  BY <1>1, <1>2, <1>3, <1>4 DEF Inv

\* No part of the invariant speaks of the age of a session.
LEMMA InvKept ==
  ASSUME Inv, UNCHANGED <<pc, form, slug, accepted, answer, tables>>
  PROVE  Inv'
<1>1. /\ UNCHANGED <<pc, op, token, email, goal, late, slug, accepted, answer>>
      /\ UNCHANGED <<users, workspaces, members, session>>
  BY DEF form, tables
<1>2. Typed' /\ Stages' /\ RowsAreOfTheDone' /\ CookiesHaveSessions'
  BY <1>1 DEF Inv, Typed, Stages, RowsAreOfTheDone, CookiesHaveSessions
<1>3. EmailsAreApart' /\ SlugsAreApart'
  BY <1>1 DEF Inv, EmailsAreApart, NewUser, SlugsAreApart, NewWorkspace
<1>4. UsersHaveHomes' /\ SwitchesAreAllowed' /\ SessionsStayInTenancy'
  BY <1>1 DEF Inv, UsersHaveHomes, SwitchesAreAllowed, SessionsStayInTenancy
<1>5. LogoutsLast' /\ LateOnesAreRefused'
  BY <1>1 DEF Inv, LogoutsLast, LateOnesAreRefused
<1> QED
  BY <1>2, <1>3, <1>4, <1>5 DEF Inv

LEMMA AlwaysInv == Spec => []Inv
<1>1. Inv /\ [Next]_vars => Inv'
  <2> SUFFICES ASSUME Inv, [Next]_vars PROVE Inv'
    OBVIOUS
  <2>1. ASSUME NEW r \in Requests, Send(r) PROVE Inv'
    BY <2>1, InvSend
  <2>2. ASSUME NEW r \in Requests, Step(r) PROVE Inv'
    BY <2>2, InvStep
  <2>3. CASE Ages
    BY <2>3, InvKept DEF Ages
  <2>4. CASE UNCHANGED vars
    BY <2>4, InvKept DEF vars
  <2> QED
    BY <2>1, <2>2, <2>3, <2>4 DEF Next
<1> QED
  BY InitInv, <1>1, PTL DEF Spec

-----------------------------------------------------------------------------

\* Registrations of one e-mail and workspaces of one name may be processed at
\* the same time, in the API and in the bootstrap script, each finding in its
\* SELECT that the value is free: only one of them is committed, and the
\* suffixes that unique_workspace_slug tries never lead to a second one.
THEOREM UniqueIdentities == Spec => []IdentitiesAreUnique
<1>1. Inv => IdentitiesAreUnique
  BY DEF Inv, EmailsAreApart, SlugsAreApart, IdentitiesAreUnique
<1> QED
  BY AlwaysInv, <1>1, PTL

\* The membership that a switch has read is still there when it commits, and the
\* session it writes to is still of the same user, whatever other requests with
\* the same cookie, or the creation of a workspace, have written in between.
THEOREM Tenancy == Spec => []SessionsStayInTenancy
<1>1. Inv => SessionsStayInTenancy
  BY DEF Inv
<1> QED
  BY AlwaysInv, <1>1, PTL

\* No statement that was under way during a logout, the mark of the last use or
\* a switch of workspaces, revives the session for the requests after it.
THEOREM LogoutsHold == Spec => []LoggedOutIsRefused
<1>1. Inv => LoggedOutIsRefused
  BY DEF Inv, LateOnesAreRefused, LoggedOutIsRefused
<1> QED
  BY AlwaysInv, <1>1, PTL

=============================================================================
