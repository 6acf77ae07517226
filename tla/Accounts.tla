------------------------------- MODULE Accounts -------------------------------
(***************************************************************************)
(* The user service (src/user-service) and the pages that sign in to it    *)
(* (src/frontend/src/hooks/useAuth.jsx, services/api.js): accounts, the    *)
(* limit on attempts, tokens, and what a page takes its user to be.        *)
(*                                                                         *)
(* Each tab is a browser of its own.  A request goes on in the service     *)
(* when its page is reloaded or gives up on it; then nobody gets the       *)
(* answer.  Passwords and emails are model values: that a hash matches     *)
(* only its password and a signed token says what it was issued with is    *)
(* taken for granted.  A request that is refused for what it lacks changes *)
(* nothing, and the list of a history is only read: both are left out.     *)
(***************************************************************************)
EXTENDS Integers, FiniteSets, FiniteSetsExt, Functions

CONSTANTS
  Tabs, Requests,
  Emails, Passwords,
  Host,        \* the address of each tab
  None,
  Burst,       \* attempts at once
  Unit, Rate,  \* Rate / Unit attempts a tick
  TokenTTL,
  Watched,     \* the bucket a window is opened on, see WindowBounded
  MaxTime,     \* bound of the clock
  MaxEntries   \* bound of the number of history entries

ASSUME AccountsAssumption ==
  /\ None \notin Tabs \cup Emails
  /\ Host \in [Tabs -> Range(Host)]
  /\ IsFiniteSet(Emails)
  /\ Burst \in Nat \ {0} /\ Unit \in Nat \ {0} /\ Rate \in Nat
  /\ {TokenTTL, MaxTime, MaxEntries} \subseteq Nat

VARIABLES
  now,
  buckets,   \* one for each route and host seen
  users,     \* the table of users
  entries,   \* the table of history entries
  srv,       \* the requests in the service
  token,     \* localStorage's token of each tab
  shown,     \* the email each page shows as its user's
  loggedIn,  \* whether each page takes its user to be logged in
  window,    \* history: when it was opened, how many attempts it has let through
  crossed    \* history: a profile of another token has been taken for that of this

tabVars == <<token, shown, loggedIn, crossed>>
dbVars  == <<users, entries>>
vars    == <<now, buckets, dbVars, srv, tabVars, window>>

Routes  == {"register", "login"}
Ids     == Nat \ {0}
Free    == [pc |-> "free"]
NoToken == [user |-> 0, email |-> None, exp |-> 0]

\* The requests of a page, at their places in the service, and the answers.
Tokens   == [user : Ids, email : Emails, exp : Nat] \cup {NoToken}
Attempts == [pc : {"arrived", "lookup", "create"}, tab : Tabs \cup {None}, host : Range(Host),
             op : Routes, email : Emails, password : Passwords]
Profiles == [pc : {"arrived"}, tab : Tabs \cup {None}, op : {"me"}, token : Tokens]
Saves    == [pc : {"arrived"}, tab : Tabs \cup {None}, op : {"save"}, token : Tokens, by : Emails \cup {None}]
Answers  == [pc : {"answered"}, tab : Tabs, op : Routes \cup {"me", "save"},
             status : {200, 201, 400, 401, 429, 500}, body : Tokens,
             of : [token : Tokens] \cup [email : Emails, password : Passwords]]

TypeOK ==
  /\ now \in Nat
  /\ buckets \in [DOMAIN buckets -> [tokens : 0..(Burst * Unit), last : 0..now]]
  /\ users \subseteq [id : Ids, email : Emails, password : Passwords]
  /\ entries \subseteq [id : Nat, user : Ids, by : Emails \cup {None}]
  /\ srv \in [Requests -> {Free} \cup Attempts \cup Profiles \cup Saves \cup Answers]
  /\ token \in [Tabs -> Tokens]
  /\ shown \in [Tabs -> Emails \cup {None}]
  /\ loggedIn \in [Tabs -> BOOLEAN]
  /\ crossed \in [Tabs -> BOOLEAN]
  /\ window \in [from : 0..now, passed : Nat]

Init ==
  /\ now = 0
  /\ buckets = [b \in {} |-> 0]
  /\ users = {} /\ entries = {}
  /\ srv = [r \in Requests |-> Free]
  /\ token = [t \in Tabs |-> NoToken]
  /\ shown = [t \in Tabs |-> None]
  /\ loggedIn = [t \in Tabs |-> FALSE]
  /\ window = [from |-> 0, passed |-> 0]
  /\ crossed = [t \in Tabs |-> FALSE]

-------------------------------------------------------------------------------
\* What a page asks for.

Send(r, req) ==
  /\ srv[r].pc = "free"
  /\ srv' = [srv EXCEPT ![r] = req]

\* Submitting the form on the login page.
Submit(t, r, op, email, password) ==
  /\ Send(r, [pc |-> "arrived", tab |-> t, host |-> Host[t], op |-> op, email |-> email, password |-> password])
  /\ UNCHANGED <<now, buckets, dbVars, tabVars, window>>

\* "Save to History", which is there for a user who is logged in.
Save(t, r) ==
  /\ loggedIn[t]
  /\ Send(r, [pc |-> "arrived", tab |-> t, op |-> "save", token |-> token[t],
              by |-> IF crossed[t] THEN None ELSE shown[t]])
  /\ UNCHANGED <<now, buckets, dbVars, tabVars, window>>

\* The answers to what the page before has asked for find nobody.
Orphaned(t) ==
  [r \in Requests |-> IF srv[r].pc = "free" \/ srv[r].tab # t THEN srv[r]
                      ELSE IF srv[r].pc = "answered" THEN Free ELSE [srv[r] EXCEPT !.tab = None]]

\* The page is loaded again; with a token in store it asks for the profile.
Load(t, r) ==
  /\ loggedIn' = [loggedIn EXCEPT ![t] = token[t] # NoToken]
  /\ shown' = [shown EXCEPT ![t] = None]
  /\ crossed' = [crossed EXCEPT ![t] = FALSE]
  /\ IF token[t] = NoToken THEN srv' = Orphaned(t)
     ELSE /\ Orphaned(t)[r] = Free
          /\ srv' = [Orphaned(t) EXCEPT ![r] = [pc |-> "arrived", tab |-> t, op |-> "me", token |-> token[t]]]
  /\ UNCHANGED <<now, buckets, dbVars, token, window>>

\* Bug: logging out leaves the token in store.
SignedOut_KeepsToken(t) == token

SignedOut(t) == [token EXCEPT ![t] = NoToken]

Logout(t) ==
  /\ loggedIn[t]
  /\ token' = SignedOut(t)
  /\ shown' = [shown EXCEPT ![t] = None]
  /\ loggedIn' = [loggedIn EXCEPT ![t] = FALSE]
  /\ crossed' = [crossed EXCEPT ![t] = FALSE]
  /\ UNCHANGED <<now, buckets, dbVars, srv, window>>

-------------------------------------------------------------------------------
\* The service.

\* What the page does with an answer depends on what it has asked.
AskedBy(req, status) ==
  IF req.op = "me" THEN [token |-> req.token]
  ELSE IF req.op \in Routes /\ status \in {200, 201} THEN [email |-> req.email, password |-> req.password]
  ELSE [token |-> NoToken]

\* The answer, if there is still somebody to receive it.
Reply(r, status, body) ==
  srv' = [srv EXCEPT ![r] = IF @.tab = None THEN Free
                            ELSE [pc |-> "answered", tab |-> @.tab, op |-> @.op, status |-> status,
                                  body |-> body, of |-> AskedBy(@, status)]]

Go(r, pc) == srv' = [srv EXCEPT ![r].pc = pc]

\* Bug: what the pause has earned is added without regard to the burst.
Refilled_Uncapped(b) ==
  IF b \in DOMAIN buckets THEN buckets[b].tokens + Rate * (now - buckets[b].last) ELSE Burst * Unit

Refilled(b) ==
  IF b \in DOMAIN buckets
  THEN Min({Burst * Unit, buckets[b].tokens + Rate * (now - buckets[b].last)})
  ELSE Burst * Unit

\* RateLimit, all of it under its mutex.
RateLimit(r) ==
  /\ srv[r].pc = "arrived"
  /\ srv[r].op \in Routes
  /\ LET b       == <<srv[r].op, srv[r].host>>
         allowed == Refilled(b) >= Unit
         left    == IF allowed THEN Refilled(b) - Unit ELSE Refilled(b)
     IN  /\ buckets' = [c \in DOMAIN buckets \cup {b} |->
                          IF c = b THEN [tokens |-> left, last |-> now] ELSE buckets[c]]
         /\ window' = IF allowed /\ b = Watched THEN [window EXCEPT !.passed = @ + 1] ELSE window
         /\ IF allowed THEN Go(r, "lookup") ELSE Reply(r, 429, NoToken)
  /\ UNCHANGED <<now, dbVars, tabVars>>

TokenFor(u) == [user |-> u.id, email |-> u.email, exp |-> now + TokenTTL]

WithEmail(email) == {u \in users : u.email = email}

\* GetUserByEmail and what follows from it; bcrypt is a pure function.
Lookup(r) ==
  /\ srv[r].pc = "lookup"
  /\ LET known == WithEmail(srv[r].email)
     IN  \/ /\ srv[r].op = "register"
            /\ IF known # {} THEN Reply(r, 400, NoToken) ELSE Go(r, "create")
         \/ /\ srv[r].op = "login"
            /\ \/ /\ \A u \in known : u.password # srv[r].password
                  /\ Reply(r, 401, NoToken)
               \/ \E u \in known : /\ u.password = srv[r].password
                                   /\ Reply(r, 200, TokenFor(u))
  /\ UNCHANGED <<now, buckets, dbVars, tabVars, window>>

\* Bug: the table has no unique index on the email.
Unique_NoIndex(email) == Cardinality(users) < Cardinality(Emails)

Unique(email) == WithEmail(email) = {}

NewUser(r) == [id |-> Cardinality(users) + 1, email |-> srv[r].email, password |-> srv[r].password]

Create(r) ==
  /\ srv[r].pc = "create"
  /\ Unique(srv[r].email)
  /\ users' = users \cup {NewUser(r)}
  /\ Reply(r, 201, TokenFor(NewUser(r)))
  /\ UNCHANGED <<now, buckets, entries, tabVars, window>>

\* ParseToken, in AuthMiddleware.
Valid(tok) == tok # NoToken /\ now < tok.exp

NewEntry(r) == [id |-> Cardinality(entries) + 1, user |-> srv[r].token.user, by |-> srv[r].by]

\* GetMe and AddHistory, behind AuthMiddleware.  The token says who asks.
Authenticated(r) ==
  /\ srv[r].pc = "arrived"
  /\ srv[r].op \in {"me", "save"}
  /\ LET saves == Valid(srv[r].token) /\ srv[r].op = "save"
     IN  /\ saves => Cardinality(entries) < MaxEntries
         /\ entries' = IF saves THEN entries \cup {NewEntry(r)} ELSE entries
         /\ Reply(r, IF ~Valid(srv[r].token) THEN 401 ELSE IF saves THEN 201 ELSE 200, NoToken)
  /\ UNCHANGED <<now, buckets, users, tabVars, window>>

\* The database fails; it may have done what it was asked to all the same.
DatabaseFails(r) ==
  /\ \/ srv[r].pc \in {"lookup", "create"}
     \/ srv[r].pc = "arrived" /\ srv[r].op \in {"me", "save"} /\ Valid(srv[r].token)
  /\ \/ UNCHANGED dbVars
     \/ /\ srv[r].pc = "create" /\ Unique(srv[r].email)
        /\ users' = users \cup {NewUser(r)}
        /\ UNCHANGED entries
     \/ /\ srv[r].pc = "arrived" /\ srv[r].op = "save" /\ Cardinality(entries) < MaxEntries
        /\ entries' = entries \cup {NewEntry(r)}
        /\ UNCHANGED users
  /\ Reply(r, 500, NoToken)
  /\ UNCHANGED <<now, buckets, tabVars, window>>

-------------------------------------------------------------------------------
\* What a page does with an answer, or without one.

\* login and register of useAuth; the name shown is the one typed in.
SignedIn(t, r) ==
  IF srv[r].status \in {200, 201}
  THEN /\ token' = [token EXCEPT ![t] = srv[r].body]
       /\ shown' = [shown EXCEPT ![t] = srv[r].of.email]
       /\ loggedIn' = [loggedIn EXCEPT ![t] = TRUE]
       /\ crossed' = [crossed EXCEPT ![t] = FALSE]
  ELSE UNCHANGED tabVars

\* loadProfile: any failure counts as not being logged in.
Profile(t, status, of) ==
  /\ crossed' = [crossed EXCEPT ![t] = @ \/ of # token[t]]
  /\ IF status = 200
     THEN /\ shown' = [shown EXCEPT ![t] = of.email]
          /\ loggedIn' = [loggedIn EXCEPT ![t] = TRUE]
          /\ UNCHANGED token
     ELSE /\ token' = SignedOut(t)
          /\ shown' = [shown EXCEPT ![t] = None]
          /\ loggedIn' = [loggedIn EXCEPT ![t] = FALSE]

Receive(r) ==
  /\ srv[r].pc = "answered"
  /\ srv' = [srv EXCEPT ![r] = Free]
  /\ \/ srv[r].op \in Routes /\ SignedIn(srv[r].tab, r)
     \/ srv[r].op = "me" /\ Profile(srv[r].tab, srv[r].status, srv[r].of.token)
     \/ srv[r].op = "save" /\ UNCHANGED tabVars
  /\ UNCHANGED <<now, buckets, dbVars, window>>

\* fetch fails: the request or its answer is lost.
NetworkFails(r) ==
  /\ srv[r].pc # "free"
  /\ srv[r].tab # None
  /\ \/ srv[r].pc \in {"arrived", "answered"} /\ srv' = [srv EXCEPT ![r] = Free]
     \/ srv[r].pc # "answered" /\ srv' = [srv EXCEPT ![r].tab = None]
  /\ IF srv[r].op = "me"
     THEN Profile(srv[r].tab, 0, IF srv[r].pc = "answered" THEN srv[r].of.token ELSE srv[r].token)
     ELSE UNCHANGED tabVars
  /\ UNCHANGED <<now, buckets, dbVars, window>>

Tick ==
  /\ now < MaxTime
  /\ now' = now + 1
  /\ UNCHANGED <<buckets, dbVars, srv, tabVars, window>>

\* History only: somebody starts to count attempts.
OpenWindow ==
  /\ window' = [from |-> now, passed |-> 0]
  /\ UNCHANGED <<now, buckets, dbVars, srv, tabVars>>

Next ==
  \/ \E t \in Tabs, r \in Requests :
       \/ \E op \in Routes, e \in Emails, p \in Passwords : Submit(t, r, op, e, p)
       \/ Save(t, r) \/ Load(t, r)
  \/ \E t \in Tabs : Logout(t)
  \/ \E r \in Requests :
       RateLimit(r) \/ Lookup(r) \/ Create(r) \/ Authenticated(r) \/ DatabaseFails(r)
       \/ Receive(r) \/ NetworkFails(r)
  \/ Tick \/ OpenWindow

Spec == Init /\ [][Next]_vars

-------------------------------------------------------------------------------
\* An email has one account, and whoever is told that it was created, or is
\* logged in to it, has it with their password: of two registrations of an email
\* at the same time, both of which find it free, one fails.
OneAccount ==
  /\ \A u, v \in users : u.email = v.email \/ u.id = v.id => u = v
  /\ \A r \in Requests :
       srv[r].pc = "answered" /\ srv[r].op \in Routes /\ srv[r].status \in {200, 201} =>
         \E u \in users : /\ u.email = srv[r].of.email /\ u.password = srv[r].of.password
                         /\ u.id = srv[r].body.user

\* Whenever one starts to count, no more attempts pass than the burst and what
\* the time since then has earned.
WindowBounded == window.passed * Unit <= Burst * Unit + Rate * (now - window.from)

\* A page shows the user whose token it sends, and saves to the history of the
\* user it shows, unless it has taken the profile of an earlier token for that
\* of its own: loadProfile does not look whose answer it gets, and so may also
\* sign out a user who has just signed in.
ShownIsSignedIn ==
  /\ \A t \in Tabs : ~crossed[t] =>
       /\ loggedIn[t] <=> token[t] # NoToken
       /\ shown[t] # None => shown[t] = token[t].email
  /\ \A e \in entries : e.by # None => \E u \in users : u.id = e.user /\ u.email = e.by

\* What makes it so: ids are given out in turn; a token is of a user that is
\* there, and a request says what its page knew; and the attempts that were let
\* through since a window was opened have been taken from the watched bucket.
UsersNumbered ==
  /\ IsFiniteSet(users)
  /\ \A u \in users : u.id \in 1..Cardinality(users)

Known(tok) == tok # NoToken => \E u \in users : u.id = tok.user /\ u.email = tok.email

TokensKnown ==
  /\ \A t \in Tabs : Known(token[t])
  /\ \A r \in Requests :
       /\ srv[r].pc = "arrived" /\ srv[r].op \in {"me", "save"} => Known(srv[r].token)
       /\ srv[r].pc = "arrived" /\ srv[r].op = "me" => srv[r].token # NoToken
       /\ srv[r].pc = "arrived" /\ srv[r].op = "save" /\ srv[r].by # None => srv[r].by = srv[r].token.email
       /\ srv[r].pc = "answered" /\ srv[r].op = "me" => Known(srv[r].of.token) /\ srv[r].of.token # NoToken
       /\ srv[r].pc = "answered" /\ srv[r].op \in Routes /\ srv[r].status \in {200, 201} =>
            /\ srv[r].body # NoToken /\ Known(srv[r].body)
            /\ srv[r].body.email = srv[r].of.email

BucketsOK ==
  \/ window.passed = 0
  \/ /\ Watched \in DOMAIN buckets
     /\ window.from <= buckets[Watched].last
     /\ window.passed * Unit + buckets[Watched].tokens
          <= Burst * Unit + Rate * (buckets[Watched].last - window.from)

IInv == /\ TypeOK /\ OneAccount /\ WindowBounded /\ ShownIsSignedIn
        /\ UsersNumbered /\ TokensKnown /\ BucketsOK
===============================================================================
