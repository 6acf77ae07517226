---------------------------- MODULE AccountsProofs ----------------------------
(***************************************************************************)
(* Proofs about Accounts.  The limit on attempts needs little of IInv: the *)
(* clock, the buckets and the window, which three actions change.  The     *)
(* accounts need the rest.                                                 *)
(***************************************************************************)
EXTENDS Accounts, FiniteSetTheorems, TLAPS

BucketsTyped ==
  /\ now \in Nat
  /\ buckets \in [DOMAIN buckets -> [tokens : 0..(Burst * Unit), last : 0..now]]
  /\ window \in [from : 0..now, passed : Nat]

LimitInv == BucketsTyped /\ BucketsOK

LEMMA MinOfTwo ==
  ASSUME NEW a \in Int, NEW b \in Int
  PROVE  Min({a, b}) \in Int /\ Min({a, b}) <= a /\ Min({a, b}) <= b
         /\ (Min({a, b}) = a \/ Min({a, b}) = b)
<1>1. CASE a <= b
  <2>1. \A y \in {a, b} : a <= y BY <1>1
  <2> QED BY <2>1 DEF Min
<1>2. CASE b < a
  <2>1. \A y \in {a, b} : b <= y BY <1>2
  <2> QED BY <2>1 DEF Min
<1> QED BY <1>1, <1>2

LEMMA Earned ==
  ASSUME NEW x \in Nat, NEW y \in Nat, x <= y
  PROVE  Rate * x \in Nat /\ Rate * x <= Rate * y
<1>1. Rate \in Nat BY AccountsAssumption
<1> QED BY <1>1

LEMMA RefilledBounds ==
  ASSUME BucketsTyped, NEW b
  PROVE  /\ Refilled(b) \in 0..(Burst * Unit)
         /\ b \in DOMAIN buckets => Refilled(b) <= buckets[b].tokens + Rate * (now - buckets[b].last)
<1>1. Burst * Unit \in Nat BY AccountsAssumption
<1>2. CASE b \notin DOMAIN buckets BY <1>1, <1>2 DEF Refilled
<1>3. CASE b \in DOMAIN buckets
  <2>1. buckets[b].tokens \in Nat /\ buckets[b].last \in 0..now /\ now \in Nat BY <1>3 DEF BucketsTyped
  <2>2. now - buckets[b].last \in Nat BY <2>1
  <2>3. Rate * (now - buckets[b].last) \in Nat BY <2>2, Earned
  <2>4. buckets[b].tokens + Rate * (now - buckets[b].last) \in Nat BY <2>1, <2>3
  <2> DEFINE earned == buckets[b].tokens + Rate * (now - buckets[b].last)
             full == Burst * Unit
  <2>5. Refilled(b) = Min({full, earned}) BY <1>3 DEF Refilled
  <2>6. full \in Nat /\ earned \in Nat BY <1>1, <2>4
  <2> HIDE DEF full, earned
  <2>7. Min({full, earned}) \in Int /\ Min({full, earned}) <= full /\ Min({full, earned}) <= earned
        /\ (Min({full, earned}) = full \/ Min({full, earned}) = earned)
    BY <2>6, MinOfTwo
  <2>8. Refilled(b) \in 0..full /\ Refilled(b) <= earned BY <2>5, <2>6, <2>7
  <2> QED BY <2>8 DEF full, earned
<1> QED BY <1>2, <1>3

LEMMA Split ==
  ASSUME NEW x \in Nat, NEW y \in Nat
  PROVE  Rate * x + Rate * y = Rate * (x + y)
<1>1. Rate \in Nat BY AccountsAssumption
<1> QED BY <1>1

(***************************************************************************)
(* An attempt that is let through takes its unit from the bucket.          *)
(***************************************************************************)
LEMMA RateLimitBuckets ==
  ASSUME LimitInv, NEW r \in Requests, RateLimit(r)
  PROVE  LimitInv'
<1> DEFINE b == <<srv[r].op, srv[r].host>>
           allowed == Refilled(b) >= Unit
           left == IF allowed THEN Refilled(b) - Unit ELSE Refilled(b)
<1>1. /\ buckets' = [c \in DOMAIN buckets \cup {b} |->
                       IF c = b THEN [tokens |-> left, last |-> now] ELSE buckets[c]]
      /\ window' = IF allowed /\ b = Watched THEN [window EXCEPT !.passed = @ + 1] ELSE window
      /\ now' = now
  BY DEF RateLimit
<1>2. BucketsTyped /\ BucketsOK BY DEF LimitInv
<1>3. Burst \in Nat /\ Unit \in Nat \ {0} /\ Rate \in Nat /\ Burst * Unit \in Nat BY AccountsAssumption
<1>4. Refilled(b) \in 0..(Burst * Unit) BY <1>2, RefilledBounds
<1>5. left \in 0..(Burst * Unit) BY <1>3, <1>4
<1>6. buckets' \in [DOMAIN buckets' -> [tokens : 0..(Burst * Unit), last : 0..now']]
  BY <1>1, <1>2, <1>5 DEF BucketsTyped
<1>7. window' \in [from : 0..now', passed : Nat] BY <1>1, <1>2 DEF BucketsTyped
<1>11. BucketsTyped' BY <1>1, <1>2, <1>6, <1>7 DEF BucketsTyped
<1>8. CASE b # Watched
  <2>1. window' = window /\ (Watched \in DOMAIN buckets => Watched \in DOMAIN buckets' /\ buckets'[Watched] = buckets[Watched])
    BY <1>1, <1>8
  <2> QED BY <1>2, <1>11, <2>1 DEF LimitInv, BucketsOK
<1>9. CASE b = Watched /\ ~allowed
  <2>1. window' = window /\ Watched \in DOMAIN buckets' /\ buckets'[Watched] = [tokens |-> Refilled(b), last |-> now]
    BY <1>1, <1>9
  <2>2. CASE window.passed = 0 BY <2>1, <2>2, <1>11 DEF LimitInv, BucketsOK
  <2>3. CASE window.passed # 0
    <3> DEFINE last == buckets[Watched].last
               tokens == buckets[Watched].tokens
    <3>1. /\ Watched \in DOMAIN buckets /\ window.from <= last
          /\ window.passed * Unit + tokens <= Burst * Unit + Rate * (last - window.from)
      BY <1>2, <2>3 DEF BucketsOK
    <3>2. last \in 0..now /\ tokens \in Nat /\ now \in Nat /\ window.from \in Nat /\ window.passed \in Nat
      BY <1>2, <3>1 DEF BucketsTyped
    <3>3. Rate * (last - window.from) + Rate * (now - last) = Rate * (now - window.from)
      <4>1. last - window.from \in Nat /\ now - last \in Nat BY <3>1, <3>2
      <4>2. (last - window.from) + (now - last) = now - window.from BY <3>2
      <4> QED BY <4>1, <4>2, Split
    <3>4. Refilled(b) <= tokens + Rate * (now - last) BY <1>2, <1>9, <3>1, RefilledBounds
    <3>5. Rate * (last - window.from) \in Nat /\ Rate * (now - last) \in Nat
      <4>1. last - window.from \in Nat /\ now - last \in Nat BY <3>1, <3>2
      <4> QED BY <4>1, Earned
    <3>6. window.passed * Unit \in Nat BY <1>3, <3>2
    <3> DEFINE P == window.passed * Unit
               C == Burst * Unit
               E1 == Rate * (last - window.from)
               E2 == Rate * (now - last)
    <3>7. P + Refilled(b) <= C + Rate * (now - window.from)
      <4>1. P \in Nat /\ C \in Nat /\ E1 \in Nat /\ E2 \in Nat /\ Refilled(b) \in Nat
        BY <1>3, <1>4, <3>5, <3>6
      <4>2. P + tokens <= C + E1 /\ Refilled(b) <= tokens + E2 /\ Rate * (now - window.from) = E1 + E2
        BY <3>1, <3>3, <3>4
      <4> HIDE DEF P, C, E1, E2
      <4> QED BY <3>2, <4>1, <4>2
    <3>8. window.from <= now BY <3>1, <3>2
    <3> QED BY <2>1, <3>7, <3>8, <1>11 DEF LimitInv, BucketsOK
  <2> QED BY <2>2, <2>3
<1>10. CASE b = Watched /\ allowed
  <2>1. /\ window'.from = window.from /\ window'.passed = window.passed + 1
        /\ Watched \in DOMAIN buckets' /\ buckets'[Watched] = [tokens |-> Refilled(b) - Unit, last |-> now]
    BY <1>1, <1>2, <1>10 DEF BucketsTyped
  <2>2. window.from \in 0..now /\ window.passed \in Nat /\ now \in Nat BY <1>2 DEF BucketsTyped
  <2>3. window.passed * Unit + Refilled(b) <= Burst * Unit + Rate * (now - window.from)
    <3>1. CASE window.passed = 0
      <4>1. now - window.from \in Nat BY <2>2
      <4>2. Rate * (now - window.from) \in Nat BY <4>1, Earned
      <4>3. window.passed * Unit = 0 BY <1>3, <3>1
      <4> QED BY <1>3, <1>4, <4>2, <4>3
    <3>2. CASE window.passed # 0
      <4> DEFINE last == buckets[Watched].last
                 tokens == buckets[Watched].tokens
      <4>1. /\ Watched \in DOMAIN buckets /\ window.from <= last
            /\ window.passed * Unit + tokens <= Burst * Unit + Rate * (last - window.from)
        BY <1>2, <3>2 DEF BucketsOK
      <4>2. last \in 0..now /\ tokens \in Nat BY <1>2, <4>1 DEF BucketsTyped
      <4>3. last - window.from \in Nat /\ now - last \in Nat BY <2>2, <4>1, <4>2
      <4>4. (last - window.from) + (now - last) = now - window.from BY <2>2, <4>2
      <4>5. Rate * (last - window.from) + Rate * (now - last) = Rate * (now - window.from)
        BY <4>3, <4>4, Split
      <4>6. Refilled(b) <= tokens + Rate * (now - last) BY <1>2, <1>10, <4>1, RefilledBounds
      <4>7. Rate * (last - window.from) \in Nat /\ Rate * (now - last) \in Nat BY <4>3, Earned
      <4>8. window.passed * Unit \in Nat BY <1>3, <2>2
      <4> DEFINE P == window.passed * Unit
                 C == Burst * Unit
                 E1 == Rate * (last - window.from)
                 E2 == Rate * (now - last)
      <4>9. P \in Nat /\ C \in Nat /\ E1 \in Nat /\ E2 \in Nat /\ Refilled(b) \in Nat
        BY <1>3, <1>4, <4>7, <4>8
      <4>10. P + tokens <= C + E1 /\ Refilled(b) <= tokens + E2 /\ Rate * (now - window.from) = E1 + E2
        BY <4>1, <4>5, <4>6
      <4> HIDE DEF P, C, E1, E2
      <4>11. P + Refilled(b) <= C + Rate * (now - window.from) BY <4>2, <4>9, <4>10
      <4> QED BY <4>11 DEF P, C
    <3> QED BY <3>1, <3>2
  <2>4. (window.passed + 1) * Unit + (Refilled(b) - Unit) = window.passed * Unit + Refilled(b)
    BY <1>3, <1>4, <2>2
  <2>5. window'.passed * Unit + buckets'[Watched].tokens
          <= Burst * Unit + Rate * (buckets'[Watched].last - window'.from)
    BY <2>1, <2>3, <2>4
  <2> QED BY <2>1, <2>2, <2>5, <1>11 DEF LimitInv, BucketsOK
<1>12. b # Watched \/ (b = Watched /\ ~allowed) \/ (b = Watched /\ allowed) OBVIOUS
<1> QED BY <1>8, <1>9, <1>10, <1>12

(***************************************************************************)
(* A pause earns, and a window that is opened has let nothing through.     *)
(***************************************************************************)
LEMMA LimitStep ==
  ASSUME LimitInv, [Next]_vars
  PROVE  LimitInv'
<1>1. CASE UNCHANGED <<now, buckets, window>>
  BY <1>1 DEF LimitInv, BucketsTyped, BucketsOK
<1>2. ASSUME NEW r \in Requests, RateLimit(r) PROVE LimitInv'
  BY <1>2, RateLimitBuckets
<1>3. CASE Tick
  <2>1. now' = now + 1 /\ buckets' = buckets /\ window' = window BY <1>3 DEF Tick
  <2>2. BucketsTyped'
    <3>1. now' \in Nat /\ 0..now \subseteq 0..now' BY <2>1 DEF LimitInv, BucketsTyped
    <3>2. ASSUME NEW b \in DOMAIN buckets PROVE buckets[b] \in [tokens : 0..(Burst * Unit), last : 0..now']
      BY <3>1 DEF LimitInv, BucketsTyped
    <3> QED BY <2>1, <3>1, <3>2 DEF LimitInv, BucketsTyped
  <2> QED BY <2>1, <2>2 DEF LimitInv, BucketsOK
<1>4. CASE OpenWindow
  BY <1>4 DEF OpenWindow, LimitInv, BucketsTyped, BucketsOK
<1>5. ASSUME Next, ~Tick, ~OpenWindow, ~\E r \in Requests : RateLimit(r)
      PROVE  UNCHANGED <<now, buckets, window>>
  BY <1>5 DEF Next, Submit, Save, Load, Logout, Lookup, Create, Authenticated, DatabaseFails, Receive,
              NetworkFails
<1>6. CASE UNCHANGED vars BY <1>1, <1>6 DEF vars
<1> QED BY <1>1, <1>2, <1>3, <1>4, <1>5, <1>6

LEMMA LimitInit ==
  ASSUME Init PROVE LimitInv
BY DEF Init, LimitInv, BucketsTyped, BucketsOK

LEMMA LimitBounds ==
  ASSUME LimitInv PROVE WindowBounded
<1>1. Burst \in Nat /\ Unit \in Nat /\ Burst * Unit \in Nat BY AccountsAssumption
<1>2. now \in Nat /\ window.from \in 0..now /\ window.passed \in Nat BY DEF LimitInv, BucketsTyped
<1>3. Rate * (now - window.from) \in Nat
  <2>1. now - window.from \in Nat BY <1>2
  <2> QED BY <2>1, Earned
<1>4. CASE window.passed = 0
  <2>1. window.passed * Unit = 0 BY <1>1, <1>4
  <2> QED BY <1>1, <1>3, <2>1 DEF WindowBounded
<1>5. CASE window.passed # 0
  <2> DEFINE last == buckets[Watched].last
             tokens == buckets[Watched].tokens
             P == window.passed * Unit
             C == Burst * Unit
             E1 == Rate * (last - window.from)
             E2 == Rate * (now - window.from)
  <2>1. window.from <= last /\ P + tokens <= C + E1
    BY <1>5 DEF LimitInv, BucketsOK
  <2>2. last \in 0..now /\ tokens \in Nat BY <1>5 DEF LimitInv, BucketsTyped, BucketsOK
  <2>3. last - window.from \in Nat /\ now - window.from \in Nat /\ last - window.from <= now - window.from
    BY <1>2, <2>1, <2>2
  <2>4. E1 \in Nat /\ E1 <= E2 BY <2>3, Earned
  <2>5. P \in Nat BY <1>1, <1>2
  <2>6. WindowBounded <=> P <= C + E2 BY DEF WindowBounded
  <2>7. C \in Nat /\ E2 \in Nat BY <1>1, <1>3
  <2> HIDE DEF tokens, P, C, E1, E2
  <2> QED BY <2>1, <2>2, <2>4, <2>5, <2>6, <2>7
<1> QED BY <1>4, <1>5

(***************************************************************************)
(* Whatever the burst, the rate and the moment one starts to count at, no  *)
(* more attempts pass than the burst and what the time since has earned.   *)
(***************************************************************************)
THEOREM AttemptsBounded == Spec => []WindowBounded
<1>1. Init => LimitInv BY LimitInit
<1>2. LimitInv /\ [Next]_vars => LimitInv' BY LimitStep
<1>3. LimitInv => WindowBounded BY LimitBounds
<1> QED BY <1>1, <1>2, <1>3, PTL DEF Spec

-------------------------------------------------------------------------------
(***************************************************************************)
(* The accounts and the pages.  What IInv says of one request, of one tab  *)
(* and of the tables, as predicates of what they speak of, so that a step  *)
(* needs to be looked at only for what it changes.                         *)
(***************************************************************************)
KnownIn(tok, U) == tok # NoToken => \E u \in U : u.id = tok.user /\ u.email = tok.email

RequestOK(q, U) ==
  /\ q \in {Free} \cup Attempts \cup Profiles \cup Saves \cup Answers
  /\ q.pc = "arrived" /\ q.op \in {"me", "save"} => KnownIn(q.token, U)
  /\ q.pc = "arrived" /\ q.op = "me" => q.token # NoToken
  /\ q.pc = "arrived" /\ q.op = "save" /\ q.by # None => q.by = q.token.email
  /\ q.pc = "answered" /\ q.op = "me" => KnownIn(q.of.token, U) /\ q.of.token # NoToken
  /\ q.pc = "answered" /\ q.op \in Routes /\ q.status \in {200, 201} =>
       /\ q.body # NoToken /\ KnownIn(q.body, U) /\ q.body.email = q.of.email
       /\ \E u \in U : u.email = q.of.email /\ u.password = q.of.password /\ u.id = q.body.user

TabOK(tok, who, in, cross, U) ==
  /\ tok \in Tokens /\ who \in Emails \cup {None} /\ in \in BOOLEAN /\ cross \in BOOLEAN
  /\ KnownIn(tok, U)
  /\ ~cross => /\ in <=> tok # NoToken
               /\ who # None => who = tok.email

UsersOK(U) ==
  /\ U \subseteq [id : Ids, email : Emails, password : Passwords]
  /\ IsFiniteSet(U)
  /\ \A u \in U : u.id \in 1..Cardinality(U)
  /\ \A u, v \in U : u.email = v.email \/ u.id = v.id => u = v

EntriesOK(E, U) ==
  /\ IsFiniteSet(E)
  /\ E \subseteq [id : Nat, user : Ids, by : Emails \cup {None}]
  /\ \A e \in E : e.by # None => \E u \in U : u.id = e.user /\ u.email = e.by

RequestsOK == DOMAIN srv = Requests /\ srv = [r \in Requests |-> srv[r]] /\ \A r \in Requests : RequestOK(srv[r], users)
TabsOK ==
  /\ token = [t \in Tabs |-> token[t]] /\ shown = [t \in Tabs |-> shown[t]]
  /\ loggedIn = [t \in Tabs |-> loggedIn[t]] /\ crossed = [t \in Tabs |-> crossed[t]]
  /\ \A t \in Tabs : TabOK(token[t], shown[t], loggedIn[t], crossed[t], users)

PagesInv == now \in Nat /\ UsersOK(users) /\ EntriesOK(entries, users) /\ RequestsOK /\ TabsOK

LEMMA Constants ==
  /\ None \notin Emails /\ None \notin Tabs /\ TokenTTL \in Nat
  /\ \A t \in Tabs : Host[t] \in Range(Host)
BY AccountsAssumption

\* What is known stays known, as users are only added.
LEMMA Grows ==
  ASSUME NEW U, NEW V, U \subseteq V
  PROVE  /\ \A q : RequestOK(q, U) => RequestOK(q, V)
         /\ \A a, b, c, d : TabOK(a, b, c, d, U) => TabOK(a, b, c, d, V)
         /\ \A E : EntriesOK(E, U) => EntriesOK(E, V)
<1>1. \A tok : KnownIn(tok, U) => KnownIn(tok, V) BY DEF KnownIn
<1>2. ASSUME NEW q, RequestOK(q, U) PROVE RequestOK(q, V) BY <1>1, <1>2 DEF RequestOK
<1>3. ASSUME NEW a, NEW b, NEW c, NEW d, TabOK(a, b, c, d, U) PROVE TabOK(a, b, c, d, V)
  BY <1>1, <1>3 DEF TabOK
<1>4. ASSUME NEW E, EntriesOK(E, U) PROVE EntriesOK(E, V) BY <1>4 DEF EntriesOK
<1> QED BY <1>2, <1>3, <1>4

\* A new user has an id and an email of its own.
LEMMA AddUser ==
  ASSUME NEW U, UsersOK(U), NEW email \in Emails, NEW password \in Passwords,
         \A u \in U : u.email # email
  PROVE  /\ UsersOK(U \cup {[id |-> Cardinality(U) + 1, email |-> email, password |-> password]})
         /\ Cardinality(U) \in Nat
<1> DEFINE new == [id |-> Cardinality(U) + 1, email |-> email, password |-> password]
           n == Cardinality(U)
<1>1. IsFiniteSet(U) BY DEF UsersOK
<1>2. n \in Nat BY <1>1, FS_CardinalityType
<1>3. new \notin U /\ new.id = n + 1 /\ new.email = email BY DEF UsersOK
<1>4. IsFiniteSet(U \cup {new}) /\ Cardinality(U \cup {new}) = n + 1 BY <1>1, <1>3, FS_AddElement
<1>5. \A u \in U : u.id \in 1..n BY DEF UsersOK
<1>6. \A u \in U \cup {new} : u.id \in 1..(n + 1) BY <1>2, <1>3, <1>5
<1>7. \A u \in U : u.id # new.id /\ u.email # new.email BY <1>2, <1>3, <1>5
<1>8. new \in [id : Ids, email : Emails, password : Passwords] BY <1>2 DEF Ids
<1> HIDE DEF new, n
<1>9. UsersOK(U \cup {new}) BY <1>4, <1>6, <1>7, <1>8 DEF UsersOK
<1> QED BY <1>2, <1>9 DEF new, n

\* Where a request is and what it asks for tell what it is.
LEMMA Shapes ==
  ASSUME NEW q \in {Free} \cup Attempts \cup Profiles \cup Saves \cup Answers
  PROVE  /\ q.pc \in {"free", "arrived", "lookup", "create", "answered"}
         /\ q.pc = "free" => q = Free
         /\ q.pc = "arrived" => q \in Attempts \cup Profiles \cup Saves
         /\ q.pc \in {"lookup", "create"} => q \in Attempts
         /\ q.pc = "answered" => q \in Answers
         /\ q.pc # "free" /\ q.pc # "answered" /\ q.op \in Routes => q \in Attempts
         /\ q.pc = "arrived" /\ q.op = "me" => q \in Profiles
         /\ q.pc = "arrived" /\ q.op = "save" => q \in Saves
BY DEF Free, Attempts, Profiles, Saves, Answers, Routes

LEMMA FreeOK == ASSUME NEW U PROVE RequestOK(Free, U)
BY DEF RequestOK, Free

LEMMA ChangeRequest ==
  ASSUME RequestsOK, users \subseteq users', NEW r \in Requests, NEW q,
         RequestOK(q, users'), srv' = [srv EXCEPT ![r] = q]
  PROVE  RequestsOK'
<1>1. \A s \in Requests : RequestOK(srv[s], users') BY Grows DEF RequestsOK
<1>2. \A s \in Requests : srv'[s] = IF s = r THEN q ELSE srv[s] BY DEF RequestsOK
<1>3. \A s \in Requests : RequestOK(srv'[s], users') BY <1>1, <1>2
<1>4. DOMAIN srv' = Requests /\ srv' = [s \in Requests |-> srv'[s]] BY DEF RequestsOK
<1> QED BY <1>3, <1>4 DEF RequestsOK

LEMMA KeepRequests ==
  ASSUME RequestsOK, users \subseteq users', srv' = srv
  PROVE  RequestsOK'
<1>1. \A s \in Requests : RequestOK(srv[s], users') BY Grows DEF RequestsOK
<1> QED BY <1>1 DEF RequestsOK

LEMMA ChangeTab ==
  ASSUME TabsOK, users \subseteq users', NEW t \in Tabs, NEW a, NEW b, NEW c, NEW d,
         TabOK(a, b, c, d, users'), token' = [token EXCEPT ![t] = a], shown' = [shown EXCEPT ![t] = b],
         loggedIn' = [loggedIn EXCEPT ![t] = c], crossed' = [crossed EXCEPT ![t] = d]
  PROVE  TabsOK'
<1>1. \A s \in Tabs : TabOK(token[s], shown[s], loggedIn[s], crossed[s], users') BY Grows DEF TabsOK
<1>2. \A s \in Tabs : /\ token'[s] = (IF s = t THEN a ELSE token[s])
                      /\ shown'[s] = (IF s = t THEN b ELSE shown[s])
                      /\ loggedIn'[s] = (IF s = t THEN c ELSE loggedIn[s])
                      /\ crossed'[s] = (IF s = t THEN d ELSE crossed[s])
  BY DEF TabsOK
<1>3. \A s \in Tabs : TabOK(token'[s], shown'[s], loggedIn'[s], crossed'[s], users') BY <1>1, <1>2
<1>4. /\ token' = [s \in Tabs |-> token'[s]] /\ shown' = [s \in Tabs |-> shown'[s]]
      /\ loggedIn' = [s \in Tabs |-> loggedIn'[s]] /\ crossed' = [s \in Tabs |-> crossed'[s]]
  BY DEF TabsOK
<1> QED BY <1>3, <1>4 DEF TabsOK

LEMMA KeepTabs ==
  ASSUME TabsOK, users \subseteq users', UNCHANGED tabVars
  PROVE  TabsOK'
<1>1. \A s \in Tabs : TabOK(token[s], shown[s], loggedIn[s], crossed[s], users') BY Grows DEF TabsOK
<1> QED BY <1>1 DEF TabsOK, tabVars

(***************************************************************************)
(* An answer says no more than what the service knows.                     *)
(***************************************************************************)
LEMMA ReplyOK ==
  ASSUME PagesInv, users \subseteq users', NEW r \in Requests,
         srv[r].pc \in {"arrived", "lookup", "create"},
         NEW status \in {200, 201, 400, 401, 429, 500}, NEW body \in Tokens, Reply(r, status, body),
         srv[r].pc = "arrived" /\ srv[r].op = "me" /\ status = 200 => srv[r].token # NoToken,
         srv[r].op \in Routes /\ status \in {200, 201} =>
           /\ body # NoToken /\ KnownIn(body, users') /\ body.email = srv[r].email
           /\ \E u \in users' : u.email = srv[r].email /\ u.password = srv[r].password /\ u.id = body.user
  PROVE  RequestsOK'
<1> DEFINE q == srv[r]
           a == [pc |-> "answered", tab |-> q.tab, op |-> q.op, status |-> status, body |-> body,
                 of |-> AskedBy(q, status)]
<1>1. RequestOK(q, users) /\ RequestOK(q, users') BY Grows DEF PagesInv, RequestsOK
<1>2. q \in {Free} \cup Attempts \cup Profiles \cup Saves \cup Answers BY <1>1 DEF RequestOK
<1>3. q \in Attempts \cup Profiles \cup Saves BY <1>2, Shapes
<1>4. srv' = [srv EXCEPT ![r] = IF q.tab = None THEN Free ELSE a] BY DEF Reply, PagesInv, RequestsOK
<1>5. CASE q.tab = None
  <2>1. srv' = [srv EXCEPT ![r] = Free] BY <1>4, <1>5
  <2> QED BY <2>1, FreeOK, ChangeRequest DEF PagesInv
<1>6. CASE q.tab # None
  <2>1. NoToken \in Tokens BY DEF Tokens
  <2>2. q.tab \in Tabs /\ q.op \in Routes \cup {"me", "save"}
    BY <1>3, <1>6 DEF Attempts, Profiles, Saves
  <2>3. q.op = "me" => q \in Profiles /\ AskedBy(q, status) = [token |-> q.token]
    BY <1>3 DEF Attempts, Profiles, Saves, Routes, AskedBy
  <2>4. q.op \in Routes => q \in Attempts
    BY <1>3 DEF Attempts, Profiles, Saves, Routes
  <2>5. q.op \in Routes /\ status \in {200, 201} => AskedBy(q, status) = [email |-> q.email, password |-> q.password]
    BY DEF AskedBy, Routes
  <2>6. AskedBy(q, status) \in [token : Tokens] \cup [email : Emails, password : Passwords]
    <3>1. CASE q.op = "me" BY <2>3, <3>1 DEF Profiles
    <3>2. CASE q.op \in Routes /\ status \in {200, 201} BY <2>4, <2>5, <3>2 DEF Attempts
    <3>3. CASE q.op # "me" /\ ~(q.op \in Routes /\ status \in {200, 201}) BY <2>1, <3>3 DEF AskedBy
    <3> QED BY <3>1, <3>2, <3>3
  <2>7. a \in Answers BY <2>2, <2>6 DEF Answers
  <2>8. q.op = "me" => a.of.token = q.token /\ KnownIn(q.token, users') /\ q.token # NoToken
    BY <1>1, <2>3 DEF RequestOK, Profiles
  <2>9. q.op \in Routes /\ status \in {200, 201} => a.of.email = q.email /\ a.of.password = q.password
    BY <2>5
  <2>10. RequestOK(a, users') BY <2>7, <2>8, <2>9 DEF RequestOK
  <2>11. srv' = [srv EXCEPT ![r] = a] BY <1>4, <1>6
  <2> QED BY <2>10, <2>11, ChangeRequest DEF PagesInv
<1> QED BY <1>5, <1>6

(***************************************************************************)
(* A step that leaves the tables as they are, or only adds a user.         *)
(***************************************************************************)
LEMMA SameTables ==
  ASSUME PagesInv, UNCHANGED dbVars, now' \in Nat, RequestsOK', TabsOK'
  PROVE  PagesInv'
BY DEF PagesInv, dbVars

LEMMA SubmitPages ==
  ASSUME PagesInv, NEW t \in Tabs, NEW r \in Requests, NEW op \in Routes, NEW e \in Emails,
         NEW p \in Passwords, Submit(t, r, op, e, p)
  PROVE  PagesInv'
<1> DEFINE q == [pc |-> "arrived", tab |-> t, host |-> Host[t], op |-> op, email |-> e, password |-> p]
<1>1. q \in Attempts BY Constants DEF Attempts
<1>2. RequestOK(q, users') BY <1>1 DEF RequestOK, Routes
<1>3. srv' = [srv EXCEPT ![r] = q] /\ UNCHANGED <<now, dbVars, tabVars>> BY DEF Submit, Send
<1>4. RequestsOK' BY <1>2, <1>3, ChangeRequest DEF PagesInv, dbVars
<1>5. TabsOK' BY <1>3, KeepTabs DEF PagesInv, dbVars
<1> QED BY <1>3, <1>4, <1>5, SameTables DEF PagesInv

LEMMA SavePages ==
  ASSUME PagesInv, NEW t \in Tabs, NEW r \in Requests, Save(t, r)
  PROVE  PagesInv'
<1> DEFINE by == IF crossed[t] THEN None ELSE shown[t]
           q == [pc |-> "arrived", tab |-> t, op |-> "save", token |-> token[t], by |-> by]
<1>1. TabOK(token[t], shown[t], loggedIn[t], crossed[t], users) BY DEF PagesInv, TabsOK
<1>2. q \in Saves BY <1>1 DEF Saves, TabOK
<1>3. srv' = [srv EXCEPT ![r] = q] /\ UNCHANGED <<now, dbVars, tabVars>> BY DEF Save, Send
<1>4. RequestOK(q, users') BY <1>1, <1>2, <1>3 DEF RequestOK, TabOK, dbVars
<1>5. RequestsOK' BY <1>3, <1>4, ChangeRequest DEF PagesInv, dbVars
<1>6. TabsOK' BY <1>3, KeepTabs DEF PagesInv, dbVars
<1> QED BY <1>3, <1>5, <1>6, SameTables DEF PagesInv

LEMMA LogoutPages ==
  ASSUME PagesInv, NEW t \in Tabs, Logout(t)
  PROVE  PagesInv'
<1>1. UNCHANGED <<now, dbVars, srv>> BY DEF Logout
<1>2. TabOK(NoToken, None, FALSE, FALSE, users') BY DEF TabOK, KnownIn, Tokens
<1>3. /\ token' = [token EXCEPT ![t] = NoToken] /\ shown' = [shown EXCEPT ![t] = None]
      /\ loggedIn' = [loggedIn EXCEPT ![t] = FALSE] /\ crossed' = [crossed EXCEPT ![t] = FALSE]
  BY DEF Logout, SignedOut
<1>4. TabsOK' BY <1>1, <1>2, <1>3, ChangeTab DEF PagesInv, dbVars
<1>5. RequestsOK' BY <1>1, KeepRequests DEF PagesInv, dbVars
<1> QED BY <1>1, <1>4, <1>5, SameTables DEF PagesInv

LEMMA LoadPages ==
  ASSUME PagesInv, NEW t \in Tabs, NEW r \in Requests, Load(t, r)
  PROVE  PagesInv'
<1>1. UNCHANGED <<now, dbVars, token>> BY DEF Load
<1>2. TabOK(token[t], shown[t], loggedIn[t], crossed[t], users) BY DEF PagesInv, TabsOK
<1>3. TabOK(token[t], None, token[t] # NoToken, FALSE, users') BY <1>1, <1>2 DEF TabOK, dbVars
<1>4. TabsOK'
  <2>1. token' = [token EXCEPT ![t] = token[t]] BY <1>1 DEF PagesInv, TabsOK
  <2>2. /\ shown' = [shown EXCEPT ![t] = None] /\ crossed' = [crossed EXCEPT ![t] = FALSE]
        /\ loggedIn' = [loggedIn EXCEPT ![t] = token[t] # NoToken]
    BY DEF Load
  <2> QED BY <1>1, <1>3, <2>1, <2>2, ChangeTab DEF PagesInv, dbVars
<1>5. ASSUME NEW s \in Requests PROVE RequestOK(Orphaned(t)[s], users)
  <2> DEFINE q == srv[s]
  <2>1. RequestOK(q, users) BY DEF PagesInv, RequestsOK
  <2>2. CASE q.pc = "free" \/ q.tab # t
    <3>1. Orphaned(t)[s] = q BY <2>2 DEF Orphaned
    <3> QED BY <2>1, <3>1
  <2>3. CASE q.pc # "free" /\ q.tab = t /\ q.pc = "answered"
    <3>1. Orphaned(t)[s] = Free BY <2>3 DEF Orphaned
    <3> QED BY <3>1, FreeOK
  <2>4. CASE q.pc # "free" /\ q.tab = t /\ q.pc # "answered"
    <3>1. Orphaned(t)[s] = [q EXCEPT !.tab = None] BY <2>4 DEF Orphaned
    <3>2. q \in Attempts \cup Profiles \cup Saves BY <2>1, <2>4, Shapes DEF RequestOK
    <3>3. RequestOK([q EXCEPT !.tab = None], users)
      <4>1. CASE q \in Attempts BY <2>1, <4>1 DEF RequestOK, Attempts, Routes
      <4>2. CASE q \in Profiles BY <2>1, <4>2 DEF RequestOK, Profiles
      <4>3. CASE q \in Saves BY <2>1, <4>3 DEF RequestOK, Saves
      <4> QED BY <3>2, <4>1, <4>2, <4>3
    <3> QED BY <3>1, <3>3
  <2> QED BY <2>2, <2>3, <2>4
<1>6. RequestsOK'
  <2>1. CASE token[t] = NoToken
    <3>1. srv' = Orphaned(t) BY <2>1 DEF Load
    <3>2. \A s \in Requests : srv'[s] = Orphaned(t)[s] BY <3>1
    <3>3. DOMAIN srv' = Requests /\ srv' = [s \in Requests |-> srv'[s]] BY <3>1 DEF Orphaned
    <3> QED BY <1>1, <1>5, <3>2, <3>3 DEF RequestsOK, dbVars
  <2>2. CASE token[t] # NoToken
    <3> DEFINE q == [pc |-> "arrived", tab |-> t, op |-> "me", token |-> token[t]]
    <3>1. srv' = [Orphaned(t) EXCEPT ![r] = q] BY <2>2 DEF Load
    <3>2. \A s \in Requests : srv'[s] = IF s = r THEN q ELSE Orphaned(t)[s] BY <3>1 DEF Orphaned
    <3>3. DOMAIN srv' = Requests /\ srv' = [s \in Requests |-> srv'[s]] BY <3>1 DEF Orphaned
    <3>4. q \in Profiles BY <1>2 DEF Profiles, TabOK
    <3>5. RequestOK(q, users) BY <1>2, <2>2, <3>4 DEF RequestOK, TabOK
    <3> QED BY <1>1, <1>5, <3>2, <3>3, <3>5 DEF RequestsOK, dbVars
  <2> QED BY <2>1, <2>2
<1> QED BY <1>1, <1>4, <1>6, SameTables DEF PagesInv

LEMMA GoPages ==
  ASSUME PagesInv, NEW r \in Requests, srv[r] \in Attempts, NEW pc \in {"lookup", "create"}, Go(r, pc),
         UNCHANGED users
  PROVE  RequestsOK'
<1>1. [srv[r] EXCEPT !.pc = pc] \in Attempts /\ [srv[r] EXCEPT !.pc = pc].pc = pc BY DEF Attempts
<1>2. RequestOK([srv[r] EXCEPT !.pc = pc], users') BY <1>1 DEF RequestOK
<1>3. srv' = [srv EXCEPT ![r] = [srv[r] EXCEPT !.pc = pc]] BY DEF Go, PagesInv, RequestsOK
<1> QED BY <1>2, <1>3, ChangeRequest DEF PagesInv

LEMMA NoTokenTyped == NoToken \in Tokens
BY DEF Tokens

LEMMA RateLimitPages ==
  ASSUME PagesInv, NEW r \in Requests, RateLimit(r)
  PROVE  PagesInv'
<1>1. srv[r].pc = "arrived" /\ srv[r].op \in Routes /\ UNCHANGED <<now, dbVars, tabVars>> BY DEF RateLimit
<1>2. Go(r, "lookup") \/ Reply(r, 429, NoToken) BY DEF RateLimit
<1>3. srv[r] \in Attempts BY <1>1, Shapes DEF PagesInv, RequestsOK, RequestOK
<1>4. RequestsOK'
  <2>1. CASE Go(r, "lookup") BY <1>1, <1>3, <2>1, GoPages DEF dbVars
  <2>2. CASE Reply(r, 429, NoToken)
    BY <1>1, <2>2, NoTokenTyped, ReplyOK DEF dbVars
  <2> QED BY <1>2, <2>1, <2>2
<1>5. TabsOK' BY <1>1, KeepTabs DEF PagesInv, dbVars
<1> QED BY <1>1, <1>4, <1>5, SameTables DEF PagesInv

\* The token of a user that is there tells who it is.
LEMMA TokenTyped ==
  ASSUME now \in Nat, NEW U, UsersOK(U), NEW u \in U
  PROVE  /\ TokenFor(u) \in Tokens /\ TokenFor(u) # NoToken /\ KnownIn(TokenFor(u), U)
         /\ TokenFor(u).email = u.email /\ TokenFor(u).user = u.id
<1>1. u \in [id : Ids, email : Emails, password : Passwords] BY DEF UsersOK
<1>2. now + TokenTTL \in Nat BY Constants
<1> QED BY <1>1, <1>2 DEF TokenFor, Tokens, NoToken, Ids, KnownIn

LEMMA LookupPages ==
  ASSUME PagesInv, NEW r \in Requests, Lookup(r)
  PROVE  PagesInv'
<1>1. srv[r].pc = "lookup" /\ UNCHANGED <<now, dbVars, tabVars>> BY DEF Lookup
<1>2. srv[r] \in Attempts BY <1>1, Shapes DEF PagesInv, RequestsOK, RequestOK
<1>3. \/ Reply(r, 400, NoToken) \/ Reply(r, 401, NoToken)
      \/ srv[r].op = "register" /\ Go(r, "create")
      \/ \E u \in users : /\ u.email = srv[r].email /\ u.password = srv[r].password
                          /\ Reply(r, 200, TokenFor(u))
  BY DEF Lookup, WithEmail
<1>4. RequestsOK'
  <2>1. CASE Reply(r, 400, NoToken) BY <1>1, <2>1, NoTokenTyped, ReplyOK DEF dbVars
  <2>2. CASE Reply(r, 401, NoToken) BY <1>1, <2>2, NoTokenTyped, ReplyOK DEF dbVars
  <2>3. CASE Go(r, "create") BY <1>1, <1>2, <2>3, GoPages DEF dbVars
  <2>4. ASSUME NEW u \in users, u.email = srv[r].email, u.password = srv[r].password, Reply(r, 200, TokenFor(u))
        PROVE  RequestsOK'
    <3>1. /\ TokenFor(u) \in Tokens /\ TokenFor(u) # NoToken /\ KnownIn(TokenFor(u), users)
          /\ TokenFor(u).email = u.email /\ TokenFor(u).user = u.id
      BY TokenTyped DEF PagesInv
    <3>2. users' = users BY <1>1 DEF dbVars
    <3> QED BY <1>1, <2>4, <3>1, <3>2, ReplyOK
  <2> QED BY <1>3, <2>1, <2>2, <2>3, <2>4
<1>5. TabsOK' BY <1>1, KeepTabs DEF PagesInv, dbVars
<1> QED BY <1>1, <1>4, <1>5, SameTables DEF PagesInv

LEMMA NewUserOK ==
  ASSUME PagesInv, NEW r \in Requests, srv[r].pc = "create", Unique(srv[r].email),
         users' = users \cup {NewUser(r)}
  PROVE  UsersOK(users')
<1>1. srv[r] \in Attempts BY Shapes DEF PagesInv, RequestsOK, RequestOK
<1>2. srv[r].email \in Emails /\ srv[r].password \in Passwords BY <1>1 DEF Attempts
<1>3. \A u \in users : u.email # srv[r].email BY DEF Unique, WithEmail
<1> QED BY <1>2, <1>3, AddUser DEF NewUser, PagesInv

LEMMA CreatePages ==
  ASSUME PagesInv, NEW r \in Requests, Create(r)
  PROVE  PagesInv'
<1>1. /\ srv[r].pc = "create" /\ Unique(srv[r].email) /\ users' = users \cup {NewUser(r)}
      /\ Reply(r, 201, TokenFor(NewUser(r))) /\ UNCHANGED <<now, entries, tabVars>>
  BY DEF Create
<1>2. UsersOK(users') BY <1>1, NewUserOK
<1>3. NewUser(r) \in users' /\ NewUser(r).email = srv[r].email /\ NewUser(r).password = srv[r].password
  BY <1>1 DEF NewUser
<1>4. /\ TokenFor(NewUser(r)) \in Tokens /\ TokenFor(NewUser(r)) # NoToken
      /\ KnownIn(TokenFor(NewUser(r)), users')
      /\ TokenFor(NewUser(r)).email = srv[r].email /\ TokenFor(NewUser(r)).user = NewUser(r).id
  BY <1>2, <1>3, TokenTyped DEF PagesInv
<1>5. \E u \in users' : /\ u.email = srv[r].email /\ u.password = srv[r].password
                        /\ u.id = TokenFor(NewUser(r)).user
  BY <1>3, <1>4
<1>6. RequestsOK'
  <2> DEFINE tok == TokenFor(NewUser(r))
  <2>1. /\ tok \in Tokens /\ tok # NoToken /\ KnownIn(tok, users') /\ tok.email = srv[r].email
        /\ \E u \in users' : u.email = srv[r].email /\ u.password = srv[r].password /\ u.id = tok.user
        /\ Reply(r, 201, tok)
    BY <1>1, <1>4, <1>5
  <2>2. srv[r].pc = "create" /\ users \subseteq users' BY <1>1
  <2> HIDE DEF tok
  <2> QED BY <2>1, <2>2, ReplyOK
<1>7. TabsOK' BY <1>1, KeepTabs DEF PagesInv
<1>8. EntriesOK(entries', users') BY <1>1, Grows DEF PagesInv
<1> QED BY <1>1, <1>2, <1>6, <1>7, <1>8 DEF PagesInv

\* What is saved is saved to the history of the user the page has shown.
LEMMA NewEntryOK ==
  ASSUME PagesInv, NEW r \in Requests, srv[r].pc = "arrived", srv[r].op = "save", Valid(srv[r].token)
  PROVE  EntriesOK(entries \cup {NewEntry(r)}, users)
<1> DEFINE q == srv[r]
           entry == [id |-> Cardinality(entries) + 1, user |-> q.token.user, by |-> q.by]
<1>1. RequestOK(q, users) BY DEF PagesInv, RequestsOK
<1>2. q \in Saves /\ q.token # NoToken BY <1>1, Shapes DEF RequestOK, Valid
<1>3. \E u \in users : u.id = q.token.user /\ u.email = q.token.email
  BY <1>1, <1>2 DEF RequestOK, KnownIn
<1>4. q.by # None => q.by = q.token.email BY <1>1 DEF RequestOK
<1>5. q.token.user \in Ids /\ q.by \in Emails \cup {None} BY <1>2 DEF Saves, Tokens
<1>6. Cardinality(entries) + 1 \in Nat /\ IsFiniteSet(entries \cup {entry})
  <2>1. IsFiniteSet(entries) BY DEF PagesInv, EntriesOK
  <2>2. Cardinality(entries) \in Nat BY <2>1, FS_CardinalityType
  <2> HIDE DEF entry
  <2> QED BY <2>1, <2>2, FS_AddElement
<1>7. entry \in [id : Nat, user : Ids, by : Emails \cup {None}] BY <1>5, <1>6
<1>8. \A e \in entries \cup {entry} : e.by # None => \E u \in users : u.id = e.user /\ u.email = e.by
  BY <1>3, <1>4 DEF PagesInv, EntriesOK
<1>9. entry = NewEntry(r) BY DEF NewEntry
<1> QED BY <1>6, <1>7, <1>8, <1>9 DEF PagesInv, EntriesOK

LEMMA AuthenticatedPages ==
  ASSUME PagesInv, NEW r \in Requests, Authenticated(r)
  PROVE  PagesInv'
<1> DEFINE q == srv[r]
           saves == Valid(q.token) /\ q.op = "save"
           status == IF ~Valid(q.token) THEN 401 ELSE IF saves THEN 201 ELSE 200
<1>1. /\ q.pc = "arrived" /\ q.op \in {"me", "save"} /\ UNCHANGED <<now, users, tabVars>>
      /\ entries' = IF saves THEN entries \cup {NewEntry(r)} ELSE entries
      /\ Reply(r, status, NoToken)
  BY DEF Authenticated
<1>2. RequestOK(q, users) BY DEF PagesInv, RequestsOK
<1>3. RequestsOK'
  <2>1. status \in {200, 201, 400, 401, 429, 500} OBVIOUS
  <2>2. q.op \notin Routes BY <1>1 DEF Routes
  <2>3. q.op = "me" => q.token # NoToken BY <1>1, <1>2 DEF RequestOK
  <2> HIDE DEF status
  <2> QED BY <1>1, <2>1, <2>2, <2>3, NoTokenTyped, ReplyOK
<1>4. EntriesOK(entries', users') BY <1>1, NewEntryOK DEF PagesInv
<1>5. TabsOK' BY <1>1, KeepTabs DEF PagesInv
<1> QED BY <1>1, <1>3, <1>4, <1>5 DEF PagesInv

LEMMA DatabaseFailsPages ==
  ASSUME PagesInv, NEW r \in Requests, DatabaseFails(r)
  PROVE  PagesInv'
<1>1. /\ srv[r].pc \in {"arrived", "lookup", "create"} /\ Reply(r, 500, NoToken)
      /\ UNCHANGED <<now, tabVars>>
  BY DEF DatabaseFails
<1>2. \/ UNCHANGED dbVars
      \/ srv[r].pc = "create" /\ Unique(srv[r].email) /\ users' = users \cup {NewUser(r)} /\ entries' = entries
      \/ /\ srv[r].pc = "arrived" /\ srv[r].op = "save" /\ Valid(srv[r].token)
         /\ entries' = entries \cup {NewEntry(r)} /\ users' = users
  BY DEF DatabaseFails
<1>3. users \subseteq users' BY <1>2 DEF dbVars
<1>4. UsersOK(users') BY <1>2, NewUserOK DEF PagesInv, dbVars
<1>5. RequestsOK' BY <1>1, <1>3, NoTokenTyped, ReplyOK
<1>6. TabsOK' BY <1>1, <1>3, KeepTabs DEF PagesInv
<1>7. EntriesOK(entries', users')
  <2>1. CASE entries' = entries BY <1>3, <2>1, Grows DEF PagesInv
  <2>2. CASE entries' # entries BY <1>2, <2>2, NewEntryOK DEF dbVars
  <2> QED BY <2>1, <2>2
<1> QED BY <1>1, <1>4, <1>5, <1>6, <1>7 DEF PagesInv

\* A profile that is not of the page's own token is seen to have crossed.
LEMMA ProfilePages ==
  ASSUME PagesInv, UNCHANGED dbVars, NEW t \in Tabs, NEW status, NEW of,
         status = 200 => of # NoToken /\ KnownIn(of, users), Profile(t, status, of)
  PROVE  TabsOK'
<1> DEFINE cross == crossed[t] \/ of # token[t]
<1>1. TabOK(token[t], shown[t], loggedIn[t], crossed[t], users) BY DEF PagesInv, TabsOK
<1>2. users' = users BY DEF dbVars
<1>3. crossed' = [crossed EXCEPT ![t] = cross] BY DEF Profile, PagesInv, TabsOK
<1>4. CASE status = 200
  <2>1. of.email \in Emails BY <1>4 DEF KnownIn, PagesInv, UsersOK
  <2>2. TabOK(token[t], of.email, TRUE, cross, users') BY <1>1, <1>2, <1>4, <2>1 DEF TabOK
  <2>3. token' = [token EXCEPT ![t] = token[t]] BY <1>4 DEF Profile, PagesInv, TabsOK
  <2>4. shown' = [shown EXCEPT ![t] = of.email] /\ loggedIn' = [loggedIn EXCEPT ![t] = TRUE]
    BY <1>4 DEF Profile
  <2> QED BY <1>2, <1>3, <2>2, <2>3, <2>4, ChangeTab DEF PagesInv
<1>5. CASE status # 200
  <2>1. TabOK(NoToken, None, FALSE, cross, users') BY <1>1 DEF TabOK, KnownIn, Tokens
  <2>2. /\ token' = [token EXCEPT ![t] = NoToken] /\ shown' = [shown EXCEPT ![t] = None]
        /\ loggedIn' = [loggedIn EXCEPT ![t] = FALSE]
    BY <1>5 DEF Profile, SignedOut
  <2> QED BY <1>2, <1>3, <2>1, <2>2, ChangeTab DEF PagesInv
<1> QED BY <1>4, <1>5

LEMMA ReceivePages ==
  ASSUME PagesInv, NEW r \in Requests, Receive(r)
  PROVE  PagesInv'
<1>1. srv[r].pc = "answered" /\ srv' = [srv EXCEPT ![r] = Free] /\ UNCHANGED <<now, dbVars>> BY DEF Receive
<1>2. RequestOK(srv[r], users) BY DEF PagesInv, RequestsOK
<1>3. srv[r] \in Answers BY <1>1, <1>2, Shapes DEF RequestOK
<1>4. srv[r].tab \in Tabs BY <1>3 DEF Answers
<1>5. RequestsOK' BY <1>1, FreeOK, ChangeRequest DEF PagesInv, dbVars
<1>6. \/ UNCHANGED tabVars
      \/ srv[r].op = "me" /\ Profile(srv[r].tab, srv[r].status, srv[r].of.token)
      \/ /\ srv[r].op \in Routes /\ srv[r].status \in {200, 201} /\ SignedIn(srv[r].tab, r)
  BY DEF Receive, SignedIn
<1>7. TabsOK'
  <2>1. CASE UNCHANGED tabVars BY <1>1, <2>1, KeepTabs DEF PagesInv, dbVars
  <2>2. CASE srv[r].op = "me" /\ Profile(srv[r].tab, srv[r].status, srv[r].of.token)
    BY <1>1, <1>2, <1>4, <2>2, ProfilePages DEF RequestOK
  <2>3. CASE srv[r].op \in Routes /\ srv[r].status \in {200, 201} /\ SignedIn(srv[r].tab, r)
    <3> DEFINE t == srv[r].tab
               tok == srv[r].body
    <3>1. /\ tok # NoToken /\ KnownIn(tok, users) /\ tok.email = srv[r].of.email /\ tok \in Tokens
      BY <1>1, <1>2, <1>3, <2>3 DEF RequestOK, Answers
    <3>2. tok.email \in Emails BY <3>1 DEF KnownIn, PagesInv, UsersOK
    <3>3. TabOK(tok, srv[r].of.email, TRUE, FALSE, users') BY <1>1, <3>1, <3>2 DEF TabOK, dbVars
    <3>4. /\ token' = [token EXCEPT ![t] = tok] /\ shown' = [shown EXCEPT ![t] = srv[r].of.email]
          /\ loggedIn' = [loggedIn EXCEPT ![t] = TRUE] /\ crossed' = [crossed EXCEPT ![t] = FALSE]
      BY <2>3 DEF SignedIn
    <3> QED BY <1>1, <1>4, <3>3, <3>4, ChangeTab DEF PagesInv, dbVars
  <2> QED BY <1>6, <2>1, <2>2, <2>3
<1> QED BY <1>1, <1>5, <1>7, SameTables DEF PagesInv

LEMMA NetworkFailsPages ==
  ASSUME PagesInv, NEW r \in Requests, NetworkFails(r)
  PROVE  PagesInv'
<1> DEFINE q == srv[r]
           of == IF q.pc = "answered" THEN q.of.token ELSE q.token
<1>1. q.pc # "free" /\ q.tab # None /\ UNCHANGED <<now, dbVars>> BY DEF NetworkFails
<1>2. RequestOK(q, users) BY DEF PagesInv, RequestsOK
<1>3. q \in Attempts \cup Profiles \cup Saves \cup Answers BY <1>1, <1>2 DEF RequestOK, Free
<1>4. q.tab \in Tabs BY <1>1, <1>3 DEF Attempts, Profiles, Saves, Answers
<1>5. RequestsOK'
  <2>1. CASE srv' = [srv EXCEPT ![r] = Free] BY <1>1, <2>1, FreeOK, ChangeRequest DEF PagesInv, dbVars
  <2>2. CASE q.pc # "answered" /\ srv' = [srv EXCEPT ![r].tab = None]
    <3>1. q \in Attempts \cup Profiles \cup Saves BY <1>3, <2>2 DEF Answers
    <3>2. RequestOK([q EXCEPT !.tab = None], users')
      <4>1. CASE q \in Attempts BY <1>1, <1>2, <4>1 DEF RequestOK, Attempts, Routes
      <4>2. CASE q \in Profiles BY <1>1, <1>2, <4>2 DEF RequestOK, Profiles, dbVars
      <4>3. CASE q \in Saves BY <1>1, <1>2, <4>3 DEF RequestOK, Saves, dbVars
      <4> QED BY <3>1, <4>1, <4>2, <4>3
    <3>3. srv' = [srv EXCEPT ![r] = [q EXCEPT !.tab = None]] BY <2>2 DEF PagesInv, RequestsOK
    <3> QED BY <1>1, <3>2, <3>3, ChangeRequest DEF PagesInv, dbVars
  <2> QED BY <2>1, <2>2 DEF NetworkFails
<1>6. UNCHANGED tabVars \/ Profile(q.tab, 0, of) BY DEF NetworkFails
<1>7. TabsOK'
  <2>1. CASE UNCHANGED tabVars BY <1>1, <2>1, KeepTabs DEF PagesInv, dbVars
  <2>2. CASE Profile(q.tab, 0, of) BY <1>1, <1>4, <2>2, ProfilePages
  <2> QED BY <1>6, <2>1, <2>2
<1> QED BY <1>1, <1>5, <1>7, SameTables DEF PagesInv

LEMMA PagesStep ==
  ASSUME PagesInv, [Next]_vars
  PROVE  PagesInv'
<1>1. CASE UNCHANGED vars
  <2>1. RequestsOK' BY <1>1, KeepRequests DEF PagesInv, vars, dbVars
  <2>2. TabsOK' BY <1>1, KeepTabs DEF PagesInv, vars, dbVars
  <2> QED BY <1>1, <2>1, <2>2, SameTables DEF PagesInv, vars
<1>2. CASE Tick \/ OpenWindow
  <2>1. UNCHANGED <<dbVars, srv, tabVars>> /\ now' \in Nat BY <1>2 DEF Tick, OpenWindow, PagesInv
  <2>2. RequestsOK' BY <2>1, KeepRequests DEF PagesInv, dbVars
  <2>3. TabsOK' BY <2>1, KeepTabs DEF PagesInv, dbVars
  <2> QED BY <2>1, <2>2, <2>3, SameTables
<1>3. ASSUME NEW t \in Tabs, Logout(t) PROVE PagesInv' BY <1>3, LogoutPages
<1>4. ASSUME NEW t \in Tabs, NEW r \in Requests,
             \/ \E op \in Routes, e \in Emails, p \in Passwords : Submit(t, r, op, e, p)
             \/ Save(t, r) \/ Load(t, r)
      PROVE  PagesInv'
  BY <1>4, SubmitPages, SavePages, LoadPages
<1>5. ASSUME NEW r \in Requests,
             \/ RateLimit(r) \/ Lookup(r) \/ Create(r) \/ Authenticated(r) \/ DatabaseFails(r)
             \/ Receive(r) \/ NetworkFails(r)
      PROVE  PagesInv'
  BY <1>5, RateLimitPages, LookupPages, CreatePages, AuthenticatedPages, DatabaseFailsPages,
     ReceivePages, NetworkFailsPages
<1> QED BY <1>1, <1>2, <1>3, <1>4, <1>5 DEF Next

LEMMA PagesInit ==
  ASSUME Init PROVE PagesInv
<1>1. UsersOK(users) BY FS_EmptySet DEF Init, UsersOK
<1>2. EntriesOK(entries, users) BY FS_EmptySet DEF Init, EntriesOK
<1>3. RequestsOK BY FreeOK DEF Init, RequestsOK
<1>4. TabsOK BY DEF Init, TabsOK, TabOK, KnownIn, Tokens
<1> QED BY <1>1, <1>2, <1>3, <1>4 DEF Init, PagesInv

LEMMA PagesAccounts ==
  ASSUME PagesInv PROVE OneAccount
<1>1. \A r \in Requests : RequestOK(srv[r], users) BY DEF PagesInv, RequestsOK
<1> QED BY <1>1 DEF OneAccount, PagesInv, UsersOK, RequestOK

LEMMA PagesShown ==
  ASSUME PagesInv PROVE ShownIsSignedIn
<1>1. \A t \in Tabs : TabOK(token[t], shown[t], loggedIn[t], crossed[t], users) BY DEF PagesInv, TabsOK
<1> QED BY <1>1 DEF ShownIsSignedIn, PagesInv, EntriesOK, TabOK

(***************************************************************************)
(* The invariant of the runs holds, whatever their sets and bounds.        *)
(***************************************************************************)
THEOREM AccountsInvariant == Spec => []IInv
<1>1. Init => PagesInv /\ LimitInv BY PagesInit, LimitInit
<1>2. PagesInv /\ LimitInv /\ [Next]_vars => (PagesInv /\ LimitInv)' BY PagesStep, LimitStep
<1>3. ASSUME PagesInv, LimitInv PROVE IInv
  <2>1. TypeOK
    <3>1. \A r \in Requests : RequestOK(srv[r], users) BY <1>3 DEF PagesInv, RequestsOK
    <3>2. srv \in [Requests -> {Free} \cup Attempts \cup Profiles \cup Saves \cup Answers]
      BY <1>3, <3>1 DEF PagesInv, RequestsOK, RequestOK
    <3>3. \A t \in Tabs : TabOK(token[t], shown[t], loggedIn[t], crossed[t], users)
      BY <1>3 DEF PagesInv, TabsOK
    <3>4. /\ token \in [Tabs -> Tokens] /\ shown \in [Tabs -> Emails \cup {None}]
          /\ loggedIn \in [Tabs -> BOOLEAN] /\ crossed \in [Tabs -> BOOLEAN]
      BY <1>3, <3>3 DEF PagesInv, TabsOK, TabOK
    <3> QED BY <1>3, <3>2, <3>4 DEF TypeOK, PagesInv, UsersOK, EntriesOK, LimitInv, BucketsTyped
  <2>2. UsersNumbered BY <1>3 DEF UsersNumbered, PagesInv, UsersOK
  <2>3. TokensKnown
    <3>1. \A r \in Requests : RequestOK(srv[r], users) BY <1>3 DEF PagesInv, RequestsOK
    <3>2. \A t \in Tabs : KnownIn(token[t], users) BY <1>3 DEF PagesInv, TabsOK, TabOK
    <3> QED BY <3>1, <3>2 DEF TokensKnown, RequestOK, KnownIn, Known
  <2> QED BY <1>3, <2>1, <2>2, <2>3, PagesAccounts, PagesShown, LimitBounds DEF IInv, LimitInv
<1> QED BY <1>1, <1>2, <1>3, PTL DEF Spec

(***************************************************************************)
(* An email never has two accounts, and nobody is told of one that is not  *)
(* there.                                                                  *)
(***************************************************************************)
THEOREM AccountsUnique == Spec => []OneAccount
<1>1. IInv => OneAccount BY DEF IInv
<1> QED BY <1>1, AccountsInvariant, PTL

(***************************************************************************)
(* A page that has not taken another token's profile for its own shows the *)
(* user it is signed in as, and saves to that user's history.              *)
(***************************************************************************)
THEOREM PagesShowTheirUser == Spec => []ShownIsSignedIn
<1>1. IInv => ShownIsSignedIn BY DEF IInv
<1> QED BY <1>1, AccountsInvariant, PTL
===============================================================================
