------------------------- MODULE VectorRequestsProofs -------------------------
(***************************************************************************)
(* Proofs about VectorRequests, in four parts.  However many requests wait *)
(* for the catalog's mutex behind a refresh, each is answered by its       *)
(* deadline or by that of the last that overtook it: an answer and a step  *)
(* from one call to the next keep MutexInv, taking the mutex needs the     *)
(* order in which the others came, and a tick the deadline of the one that *)
(* has it.  Searches see a replaced collection: CopyInv, with what a page  *)
(* of a scroll has.  Similar requests give the nearest tracks: SimilarInv, *)
(* with what the folds and the ranking the operators are made of yield. A  *)
(* skip never helps a track: what it does to the average of the rates.     *)
(***************************************************************************)
EXTENDS VectorRequests, FiniteSetTheorems, SequenceTheorems, WellFoundedInduction, TLAPS

LEMMA Constants ==
  /\ Timeout \in Nat /\ CatalogTTL \in Nat /\ CatalogRetryDelay \in Nat /\ MaxTime \in Nat
  /\ Ids \subseteq Nat
BY VectorAssumption, CollectionAssumption

LEMMA TwoOfNat ==
  ASSUME NEW a \in Nat, NEW b \in Nat
  PROVE  /\ Max({a, b}) \in {a, b} /\ Max({a, b}) >= a /\ Max({a, b}) >= b
         /\ Min({a, b}) = IF a <= b THEN a ELSE b
         /\ Max({a, b}) \in Nat /\ Min({a, b}) \in Nat
<1>1. CASE a <= b
  <2>1. (\A y \in {a, b} : b >= y) /\ (\A y \in {a, b} : a <= y) BY <1>1
  <2> QED BY <2>1 DEF Max, Min
<1>2. CASE b < a
  <2>1. (\A y \in {a, b} : a >= y) /\ (\A y \in {a, b} : b <= y) BY <1>2
  <2> QED BY <2>1 DEF Max, Min
<1> QED BY <1>1, <1>2

LEMMA SmallestOf ==
  ASSUME NEW T, T \subseteq Nat, T # {}
  PROVE  Min(T) \in T /\ \A y \in T : Min(T) <= y
<1>1. \E x \in T : \A y \in T : ~ (<<y, x>> \in OpToRel(<, Nat))
  BY NatLessThanWellFounded, WFMin
<1>2. PICK x \in T : \A y \in T : ~ (<<y, x>> \in OpToRel(<, Nat)) BY <1>1
<1>3. \A y \in T : ~(y < x) BY <1>2 DEF OpToRel
<1>4. \A y \in T : x <= y BY <1>3
<1> QED BY <1>4 DEF Min

\* What a similar request asks the store for are numbers.
LEMMA WantedTyped ==
  ASSUME NEW j \in Jobs
  PROVE  Wanted(j) \in Nat /\ Asked(j) \in Nat
<1>1. j.limit \in Nat BY VectorAssumption
<1>2. /\ MinCandidates \in Nat /\ CandidatesPerResult \in Nat /\ MaxCandidates \in Nat
      /\ MinRerankCandidates \in Nat /\ RerankCandidatesPerResult \in Nat
  BY VectorAssumption
<1>3. RerankCandidates(j.limit) \in Nat BY <1>1, <1>2, TwoOfNat DEF RerankCandidates
<1>4. Wanted(j) \in Nat BY <1>1, <1>3 DEF Wanted
<1>5. Candidates(Wanted(j)) \in Nat
  <2>1. Wanted(j) * CandidatesPerResult \in Nat BY <1>2, <1>4
  <2>2. Max({Wanted(j) * CandidatesPerResult, MinCandidates}) \in Nat BY <1>2, <2>1, TwoOfNat
  <2> QED BY <1>2, <2>2, TwoOfNat DEF Candidates
<1> QED BY <1>4, <1>5 DEF Asked

-------------------------------------------------------------------------------
(***************************************************************************)
(* MutexInv in parts: of one request at the time n, of each two, and of    *)
(* the collection and its copy.                                            *)
(***************************************************************************)
RequestOK(p, j, d, u, g, s, w, c, n) ==
  /\ p \in {"idle"} \cup Waiting /\ j \in Jobs \cup {NoJob} /\ d \in Nat /\ u \in Nat
  /\ g \in BOOLEAN /\ s \in 0..n /\ w \in Nat /\ c \in Nat
  /\ p \in Waiting => n <= u /\ d <= u /\ d <= n + Timeout
  /\ p = "lock" => d = s + Timeout

Shape ==
  /\ pc = [r \in Requests |-> pc[r]] /\ job = [r \in Requests |-> job[r]]
  /\ deadline = [r \in Requests |-> deadline[r]] /\ until = [r \in Requests |-> until[r]]
  /\ gone = [r \in Requests |-> gone[r]] /\ since = [r \in Requests |-> since[r]]
  /\ want = [r \in Requests |-> want[r]] /\ cands = [r \in Requests |-> cands[r]]
  /\ DOMAIN found = Requests

EachOK ==
  \A r \in Requests : RequestOK(pc[r], job[r], deadline[r], until[r], gone[r], since[r], want[r], cands[r], now)

PairsOK ==
  /\ \A r, s \in Requests : pc[r] = "scroll" /\ pc[s] = "scroll" => r = s
  /\ \A r, s \in Requests : pc[r] = "scroll" /\ pc[s] = "lock" => deadline[r] <= until[s]

Copies == [id : Ids, gen : 0..gen]

TablesOK ==
  /\ CollTypeOK /\ now \in 0..MaxTime /\ refreshAt \in Nat /\ dueBy \in Nat
  /\ catalog \subseteq Copies /\ scan.offset \in Nat /\ scan.points \subseteq Copies

PartInv == Shape /\ EachOK /\ PairsOK /\ TablesOK

LEMMA PartsAreMutexInv == PartInv <=> MutexInv
<1>1. ASSUME PartInv PROVE MutexInv
  <2>1. \A r \in Requests : RequestOK(pc[r], job[r], deadline[r], until[r], gone[r], since[r], want[r], cands[r], now)
    BY <1>1 DEF PartInv, EachOK
  <2>2. /\ pc \in [Requests -> {"idle"} \cup Waiting] /\ job \in [Requests -> Jobs \cup {NoJob}]
        /\ deadline \in [Requests -> Nat] /\ until \in [Requests -> Nat] /\ gone \in [Requests -> BOOLEAN]
        /\ since \in [Requests -> 0..now] /\ want \in [Requests -> Nat] /\ cands \in [Requests -> Nat]
        /\ DOMAIN found = Requests
    BY <1>1, <2>1 DEF PartInv, Shape, RequestOK
  <2>3. TypeOK BY <1>1, <2>2 DEF TypeOK, PartInv, TablesOK, Copies
  <2>4. \A r \in Requests :
          pc[r] \in Waiting => now <= until[r] /\ deadline[r] <= until[r] /\ deadline[r] <= now + Timeout
    BY <2>1 DEF RequestOK
  <2>5. \A r \in Requests : pc[r] = "lock" => deadline[r] = since[r] + Timeout BY <2>1 DEF RequestOK
  <2> QED BY <1>1, <2>3, <2>4, <2>5 DEF MutexInv, AnsweredInTime, PartInv, PairsOK
<1>2. ASSUME MutexInv PROVE PartInv
  <2>1. TypeOK BY <1>2 DEF MutexInv
  <2>2. Shape BY <2>1 DEF TypeOK, Shape
  <2>3. ASSUME NEW r \in Requests
        PROVE  RequestOK(pc[r], job[r], deadline[r], until[r], gone[r], since[r], want[r], cands[r], now)
    <3>1. /\ pc[r] \in {"idle"} \cup Waiting /\ job[r] \in Jobs \cup {NoJob} /\ deadline[r] \in Nat
          /\ until[r] \in Nat /\ gone[r] \in BOOLEAN /\ since[r] \in 0..now /\ want[r] \in Nat /\ cands[r] \in Nat
      BY <2>1 DEF TypeOK
    <3>2. pc[r] \in Waiting => now <= until[r] /\ deadline[r] <= until[r] /\ deadline[r] <= now + Timeout
      BY <1>2 DEF MutexInv, AnsweredInTime
    <3>3. pc[r] = "lock" => deadline[r] = since[r] + Timeout BY <1>2 DEF MutexInv
    <3> QED BY <3>1, <3>2, <3>3 DEF RequestOK
  <2>4. EachOK BY <2>3 DEF EachOK
  <2>5. TablesOK BY <2>1 DEF TypeOK, TablesOK, Copies
  <2>6. PairsOK BY <1>2 DEF MutexInv, PairsOK
  <2> QED BY <2>2, <2>4, <2>5, <2>6 DEF PartInv
<1> QED BY <1>1, <1>2

(***************************************************************************)
(* A request goes on to another step, while the clock stands still.        *)
(***************************************************************************)
LEMMA ChangeAt ==
  ASSUME PartInv, NEW r \in Requests, NEW p, NEW j, NEW d, NEW u, NEW g, NEW s, NEW w, NEW c,
         RequestOK(p, j, d, u, g, s, w, c, now), Shape', now' = now,
         \A q \in Requests :
           /\ pc'[q] = (IF q = r THEN p ELSE pc[q]) /\ job'[q] = (IF q = r THEN j ELSE job[q])
           /\ deadline'[q] = (IF q = r THEN d ELSE deadline[q]) /\ until'[q] = (IF q = r THEN u ELSE until[q])
           /\ gone'[q] = (IF q = r THEN g ELSE gone[q])
           /\ since'[q] = (IF q = r THEN s ELSE since[q]) /\ want'[q] = (IF q = r THEN w ELSE want[q])
           /\ cands'[q] = (IF q = r THEN c ELSE cands[q]),
         p = "scroll" => \A q \in Requests \ {r} : pc[q] # "scroll" /\ (pc[q] = "lock" => d <= until[q]),
         p = "lock" => \A q \in Requests \ {r} : pc[q] = "scroll" => deadline[q] <= u
  PROVE  Shape' /\ EachOK' /\ PairsOK'
<1>1. EachOK' BY DEF PartInv, EachOK
<1>2. PairsOK'
  <2>1. \A q \in Requests : pc'[q] = "scroll" /\ pc'[r] = "scroll" => q = r OBVIOUS
  <2>2. \A q, t \in Requests : pc'[q] = "scroll" /\ pc'[t] = "scroll" => q = t
    BY <2>1 DEF PartInv, PairsOK
  <2>3. ASSUME NEW q \in Requests, NEW t \in Requests, pc'[q] = "scroll", pc'[t] = "lock"
        PROVE  deadline'[q] <= until'[t]
    <3>1. CASE q = r BY <2>3, <3>1
    <3>2. CASE q # r /\ t = r BY <2>3, <3>2
    <3>3. CASE q # r /\ t # r BY <2>3, <3>3 DEF PartInv, PairsOK
    <3> QED BY <3>1, <3>2, <3>3
  <2> QED BY <2>2, <2>3 DEF PairsOK
<1> QED BY <1>1, <1>2

LEMMA Change ==
  ASSUME PartInv, NEW r \in Requests, NEW p, NEW j, NEW d, NEW u, NEW g, NEW s, NEW w, NEW c,
         RequestOK(p, j, d, u, g, s, w, c, now),
         pc' = [pc EXCEPT ![r] = p], job' = [job EXCEPT ![r] = j], deadline' = [deadline EXCEPT ![r] = d],
         until' = [until EXCEPT ![r] = u], gone' = [gone EXCEPT ![r] = g],
         since' = [since EXCEPT ![r] = s], want' = [want EXCEPT ![r] = w],
         cands' = [cands EXCEPT ![r] = c], DOMAIN found' = Requests, now' = now,
         p # "scroll",
         p = "lock" => \A q \in Requests \ {r} : pc[q] = "scroll" => deadline[q] <= u
  PROVE  Shape' /\ EachOK' /\ PairsOK'
<1>1. Shape' BY DEF PartInv, Shape
<1>2. \A q \in Requests :
        /\ pc'[q] = (IF q = r THEN p ELSE pc[q]) /\ job'[q] = (IF q = r THEN j ELSE job[q])
        /\ deadline'[q] = (IF q = r THEN d ELSE deadline[q]) /\ until'[q] = (IF q = r THEN u ELSE until[q])
        /\ gone'[q] = (IF q = r THEN g ELSE gone[q])
        /\ since'[q] = (IF q = r THEN s ELSE since[q]) /\ want'[q] = (IF q = r THEN w ELSE want[q])
        /\ cands'[q] = (IF q = r THEN c ELSE cands[q])
  BY DEF PartInv, Shape
<1> QED BY <1>1, <1>2, ChangeAt

LEMMA ReplyOK ==
  ASSUME PartInv, NEW r \in Requests, NEW a, Reply(r, a), now' = now
  PROVE  Shape' /\ EachOK' /\ PairsOK'
<1>1. /\ pc' = [pc EXCEPT ![r] = "idle"] /\ job' = [job EXCEPT ![r] = NoJob]
      /\ deadline' = [deadline EXCEPT ![r] = 0] /\ until' = [until EXCEPT ![r] = 0]
      /\ gone' = [gone EXCEPT ![r] = FALSE]
      /\ since' = [since EXCEPT ![r] = 0] /\ want' = [want EXCEPT ![r] = 0]
      /\ cands' = [cands EXCEPT ![r] = 0] /\ DOMAIN found' = Requests
  BY DEF Reply, PartInv, Shape
<1>2. RequestOK("idle", NoJob, 0, 0, FALSE, 0, 0, 0, now)
  BY DEF RequestOK, Waiting, AtQdrant, PartInv, TablesOK
<1> QED BY <1>1, <1>2, Change

\* A request waits for the next answer of Qdrant or ClickHouse.
LEMMA GoesOn ==
  ASSUME PartInv, NEW r \in Requests, NEW p \in {"scroll", "retrieve", "query", "stats"}, NEW c \in Nat,
         pc[r] \in Waiting,
         p = "scroll" => /\ \A q \in Requests \ {r} : pc[q] # "scroll"
                         /\ \A q \in Requests : pc[q] = "lock" => deadline[r] <= until[q],
         pc' = [pc EXCEPT ![r] = p], since' = [since EXCEPT ![r] = now], cands' = [cands EXCEPT ![r] = c],
         UNCHANGED <<now, job, deadline, until, gone, want>>, DOMAIN found' = Requests
  PROVE  Shape' /\ EachOK' /\ PairsOK'
<1> DEFINE j == job[r]
           d == deadline[r]
           u == until[r]
           g == gone[r]
           w == want[r]
           n == now
<1>1. RequestOK(pc[r], j, d, u, g, since[r], w, cands[r], now)
  BY DEF PartInv, EachOK
<1>2. n \in Nat BY DEF PartInv, TablesOK
<1>3. RequestOK(p, j, d, u, g, n, w, c, now)
  BY <1>1, <1>2 DEF RequestOK, Waiting, AtQdrant
<1>4. Shape' BY DEF PartInv, Shape
<1>5. \A q \in Requests :
        /\ pc'[q] = (IF q = r THEN p ELSE pc[q]) /\ job'[q] = (IF q = r THEN j ELSE job[q])
        /\ deadline'[q] = (IF q = r THEN d ELSE deadline[q]) /\ until'[q] = (IF q = r THEN u ELSE until[q])
        /\ gone'[q] = (IF q = r THEN g ELSE gone[q])
        /\ since'[q] = (IF q = r THEN n ELSE since[q]) /\ want'[q] = (IF q = r THEN w ELSE want[q])
        /\ cands'[q] = (IF q = r THEN c ELSE cands[q])
  BY DEF PartInv, Shape
<1>6. p = "scroll" => \A q \in Requests \ {r} : pc[q] # "scroll" /\ (pc[q] = "lock" => d <= until[q])
  OBVIOUS
<1>7. p # "lock" /\ now' = now OBVIOUS
<1> HIDE DEF j, d, u, g, w, n
<1> QED BY <1>3, <1>4, <1>5, <1>6, <1>7, ChangeAt

LEMMA SameTables ==
  ASSUME PartInv, UNCHANGED <<collVars, now, dueBy>>, catalog' \subseteq Copies, refreshAt' \in Nat,
         scan'.offset \in Nat, scan'.points \subseteq Copies
  PROVE  TablesOK'
BY DEF PartInv, TablesOK, collVars, CollTypeOK, Copies

LEMMA TablesTyped ==
  ASSUME PartInv
  PROVE  /\ catalog \subseteq Copies /\ refreshAt \in Nat /\ scan.offset \in Nat
         /\ scan.points \subseteq Copies /\ now \in Nat /\ dueBy \in Nat /\ ids \subseteq Ids
         /\ Points \subseteq Copies /\ gen \in Nat
<1>1. CollTypeOK BY DEF PartInv, TablesOK
<1>2. gen \in Nat /\ ids \subseteq Ids BY <1>1, CollectionAssumption DEF CollTypeOK
<1>3. Points \subseteq Copies BY <1>2 DEF Points, Copies
<1> QED BY <1>2, <1>3 DEF PartInv, TablesOK

LEMMA ArriveStep ==
  ASSUME PartInv, NEW r \in Requests, NEW j \in Jobs, Arrive(r, j)
  PROVE  PartInv'
<1> DEFINE p == IF j.kind = "search" THEN "lock" ELSE "retrieve"
           d == now + Timeout
           w == IF j.kind = "search" THEN 0 ELSE Wanted(j)
           c == IF j.kind = "search" THEN 0 ELSE Asked(j)
<1>1. /\ pc' = [pc EXCEPT ![r] = p] /\ job' = [job EXCEPT ![r] = j]
      /\ deadline' = [deadline EXCEPT ![r] = d] /\ until' = [until EXCEPT ![r] = d]
      /\ gone' = [gone EXCEPT ![r] = FALSE] /\ since' = [since EXCEPT ![r] = now]
      /\ want' = [want EXCEPT ![r] = w] /\ cands' = [cands EXCEPT ![r] = c] /\ DOMAIN found' = Requests
      /\ UNCHANGED <<collVars, now, catVars, dueBy>>
  BY DEF Arrive, PartInv, Shape
<1>2. now \in Nat /\ Timeout \in Nat BY TablesTyped, Constants
<1>3. w \in Nat /\ c \in Nat BY WantedTyped
<1>4. RequestOK(p, j, d, d, FALSE, now, w, c, now) BY <1>2, <1>3 DEF RequestOK, Waiting, AtQdrant
<1>5. \A q \in Requests : pc[q] = "scroll" => deadline[q] <= d
  BY DEF PartInv, EachOK, RequestOK, Waiting, AtQdrant
<1>6. p # "scroll" OBVIOUS
<1> HIDE DEF p, d, w, c
<1>7. Shape' /\ EachOK' /\ PairsOK' BY <1>1, <1>4, <1>5, <1>6, Change
<1>8. TablesOK' BY <1>1, TablesTyped, SameTables DEF catVars
<1> QED BY <1>7, <1>8 DEF PartInv

LEMMA UseCatalogStep ==
  ASSUME PartInv, NEW r \in Requests, UseCatalog(r)
  PROVE  PartInv'
<1>1. Reply(r, Found(r, catalog)) /\ UNCHANGED <<collVars, now, catVars, dueBy>> BY DEF UseCatalog
<1>2. Shape' /\ EachOK' /\ PairsOK' BY <1>1, ReplyOK
<1>3. TablesOK' BY <1>1, TablesTyped, SameTables DEF catVars
<1> QED BY <1>2, <1>3 DEF PartInv

\* The one that takes the mutex has come no later than those it leaves waiting, so
\* that they have no earlier deadline, or it overtakes them.
LEMMA BeginScrollStep ==
  ASSUME PartInv, NEW r \in Requests, BeginScroll(r)
  PROVE  PartInv'
<1> DEFINE u(q) == IF q \in Overtaken(r) THEN Max({until[q], deadline[r]}) ELSE until[q]
<1>1. /\ pc[r] = "lock" /\ \A q \in Requests : pc[q] # "scroll"
      /\ pc' = [pc EXCEPT ![r] = "scroll"] /\ since' = [since EXCEPT ![r] = now]
      /\ until' = [q \in Requests |-> u(q)] /\ scan' = [offset |-> 0, points |-> {}]
      /\ UNCHANGED <<collVars, now, catalog, refreshAt, job, deadline, gone, want, cands, found, dueBy>>
  BY DEF BeginScroll, Turn, Locked
<1>2. \A q \in Requests : RequestOK(pc[q], job[q], deadline[q], until[q], gone[q], since[q], want[q], cands[q], now)
  BY DEF PartInv, EachOK
<1>3. now \in Nat /\ Timeout \in Nat BY TablesTyped, Constants
<1>4. ASSUME NEW q \in Requests
      PROVE  /\ u(q) \in Nat /\ u(q) >= until[q]
             /\ pc[q] = "lock" => deadline[r] <= u(q)
  <2>1. until[q] \in Nat /\ deadline[r] \in Nat /\ deadline[q] \in Nat BY <1>2 DEF RequestOK
  <2>2. CASE q \in Overtaken(r) BY <2>1, <2>2, TwoOfNat
  <2>3. CASE q \notin Overtaken(r)
    <3>1. ASSUME pc[q] = "lock" PROVE deadline[r] <= until[q]
      <4>1. ~(since[q] < since[r]) BY <2>3, <3>1 DEF Overtaken
      <4>2. /\ since[q] \in Nat /\ since[r] \in Nat /\ deadline[q] = since[q] + Timeout
            /\ deadline[r] = since[r] + Timeout /\ deadline[q] <= until[q]
        BY <1>1, <1>2, <1>3, <3>1 DEF RequestOK, Waiting
      <4> QED BY <1>3, <2>1, <4>1, <4>2
    <3> QED BY <2>1, <2>3, <3>1
  <2> QED BY <2>2, <2>3
<1> HIDE DEF u
<1>5. Shape' BY <1>1 DEF PartInv, Shape
<1>6. /\ \A q \in Requests : /\ pc'[q] = (IF q = r THEN "scroll" ELSE pc[q]) /\ until'[q] = u(q)
                             /\ since'[q] = (IF q = r THEN now ELSE since[q])
      /\ UNCHANGED <<job, deadline, gone, want, cands, now>>
  BY <1>1 DEF PartInv, Shape
<1>7. EachOK'
  <2>1. ASSUME NEW q \in Requests
        PROVE  RequestOK(pc'[q], job[q], deadline[q], u(q), gone[q], since'[q], want[q], cands[q], now)
    <3>1. /\ u(q) \in Nat /\ u(q) >= until[q]
          /\ pc'[q] = (IF q = r THEN "scroll" ELSE pc[q]) /\ since'[q] = (IF q = r THEN now ELSE since[q])
      BY <1>4, <1>6
    <3>2. RequestOK(pc[q], job[q], deadline[q], until[q], gone[q], since[q], want[q], cands[q], now) BY <1>2
    <3> QED BY <1>1, <1>3, <3>1, <3>2 DEF RequestOK, Waiting, AtQdrant
  <2> QED BY <1>6, <2>1 DEF EachOK
<1>8. PairsOK'
  <2>1. \A q \in Requests : pc'[q] = "scroll" => q = r BY <1>1, <1>6
  <2>2. \A q \in Requests : pc'[q] = "lock" => pc[q] = "lock" BY <1>6
  <2> QED BY <1>4, <1>6, <2>1, <2>2 DEF PairsOK
<1>9. TablesOK' BY <1>1, TablesTyped, SameTables
<1> QED BY <1>5, <1>7, <1>8, <1>9 DEF PartInv

LEMMA ScrollPageStep ==
  ASSUME PartInv, NEW r \in Requests, ScrollPage(r)
  PROVE  PartInv'
<1> DEFINE page   == {p \in Points : p.id \in Page(scan.offset)}
           points == scan.points \cup page
           next   == NextOffset(scan.offset)
<1>1. pc[r] = "scroll" /\ UNCHANGED <<collVars, now, dueBy>> BY DEF ScrollPage
<1>2. points \subseteq Copies BY TablesTyped
<1>3. CASE next = 0 \/ Cardinality(points) >= MaxCatalogSize
  <2>1. /\ catalog' = points /\ refreshAt' = now + CatalogTTL /\ scan' = [offset |-> 0, points |-> {}]
        /\ Reply(r, Found(r, points))
    BY <1>3 DEF ScrollPage
  <2>2. Shape' /\ EachOK' /\ PairsOK' BY <1>1, <2>1, ReplyOK
  <2>3. refreshAt' \in Nat BY <2>1, TablesTyped, Constants
  <2> HIDE DEF points
  <2>4. TablesOK' BY <1>1, <1>2, <2>1, <2>3, SameTables
  <2> QED BY <2>2, <2>4 DEF PartInv
<1>4. CASE ~(next = 0 \/ Cardinality(points) >= MaxCatalogSize)
  <2>1. /\ scan' = [offset |-> next, points |-> points] /\ since' = [since EXCEPT ![r] = now]
        /\ UNCHANGED <<catalog, refreshAt, pc, job, deadline, gone, want, cands, found, until>>
    BY <1>4 DEF ScrollPage
  <2>2. pc' = [pc EXCEPT ![r] = "scroll"] /\ cands' = [cands EXCEPT ![r] = cands[r]] /\ DOMAIN found' = Requests
    BY <1>1, <2>1 DEF PartInv, Shape
  <2>3. cands[r] \in Nat BY DEF PartInv, EachOK, RequestOK
  <2>4. Shape' /\ EachOK' /\ PairsOK'
    <3>1. pc[r] \in Waiting BY <1>1 DEF Waiting, AtQdrant
    <3>2. /\ \A q \in Requests \ {r} : pc[q] # "scroll"
          /\ \A q \in Requests : pc[q] = "lock" => deadline[r] <= until[q]
      BY <1>1 DEF PartInv, PairsOK
    <3> QED BY <1>1, <2>1, <2>2, <2>3, <3>1, <3>2, GoesOn
  <2>5. next \in Nat
    <3> DEFINE rest == {i \in ids : i >= scan.offset} \ Page(scan.offset)
    <3>1. next = IF rest = {} THEN 0 ELSE Min(rest) BY DEF NextOffset
    <3>2. rest \subseteq Nat BY TablesTyped, Constants
    <3> HIDE DEF rest
    <3>3. CASE rest = {} BY <3>1, <3>3
    <3>4. CASE rest # {} BY <3>1, <3>2, <3>4, SmallestOf
    <3> QED BY <3>3, <3>4
  <2> HIDE DEF points, next
  <2>6. TablesOK' BY <1>1, <1>2, <2>1, <2>5, TablesTyped, SameTables
  <2> QED BY <2>4, <2>6 DEF PartInv
<1> QED BY <1>3, <1>4

LEMMA ScrollFailsStep ==
  ASSUME PartInv, NEW r \in Requests, ScrollFails(r)
  PROVE  PartInv'
<1>1. /\ \E a : Reply(r, a)
      /\ scan' = [offset |-> 0, points |-> {}] /\ dueBy' = Max({dueBy, now + CatalogRetryDelay})
      /\ refreshAt' \in {refreshAt, now + CatalogRetryDelay} /\ UNCHANGED <<collVars, now, catalog>>
  <2>1. CASE catalog # {} BY <2>1 DEF ScrollFails
  <2>2. CASE catalog = {} BY <2>2 DEF ScrollFails
  <2> QED BY <2>1, <2>2
<1>2. Shape' /\ EachOK' /\ PairsOK' BY <1>1, ReplyOK
<1>3. now + CatalogRetryDelay \in Nat BY TablesTyped, Constants
<1>4. dueBy' \in Nat /\ refreshAt' \in Nat BY <1>1, <1>3, TablesTyped, TwoOfNat
<1>5. TablesOK' BY <1>1, <1>4 DEF PartInv, TablesOK, collVars, CollTypeOK, Copies
<1> QED BY <1>2, <1>5 DEF PartInv

LEMMA RetrieveStep ==
  ASSUME PartInv, NEW r \in Requests, RetrieveAnswers(r)
  PROVE  PartInv'
<1>1. pc[r] = "retrieve" /\ UNCHANGED <<collVars, now, catVars, dueBy>> BY DEF RetrieveAnswers
<1>2. TablesOK' BY <1>1, TablesTyped, SameTables DEF catVars
<1>3. CASE job[r].id \in ids
  <2>1. /\ pc' = [pc EXCEPT ![r] = "query"] /\ since' = [since EXCEPT ![r] = now]
        /\ UNCHANGED <<job, deadline, gone, want, cands, found, until>>
    BY <1>3 DEF RetrieveAnswers
  <2>2. cands[r] \in Nat BY DEF PartInv, EachOK, RequestOK
  <2>3. cands' = [cands EXCEPT ![r] = cands[r]] /\ DOMAIN found' = Requests BY <2>1 DEF PartInv, Shape
  <2>4. pc[r] \in Waiting BY <1>1 DEF Waiting, AtQdrant
  <2>5. Shape' /\ EachOK' /\ PairsOK' BY <1>1, <2>1, <2>2, <2>3, <2>4, GoesOn
  <2> QED BY <1>2, <2>5 DEF PartInv
<1>4. CASE job[r].id \notin ids
  <2>1. Reply(r, Failed(404)) BY <1>4 DEF RetrieveAnswers
  <2> QED BY <1>1, <1>2, <2>1, ReplyOK DEF PartInv
<1> QED BY <1>3, <1>4

LEMMA QueryStep ==
  ASSUME PartInv, NEW r \in Requests, QueryAnswers(r)
  PROVE  PartInv'
<1>1. /\ pc[r] = "query" /\ UNCHANGED <<collVars, now, catVars, dueBy>>
      /\ \/ \E a : Reply(r, a)
         \/ \E p \in {"retrieve", "stats"}, c \in {cands[r], MaxCandidates} :
              /\ pc' = [pc EXCEPT ![r] = p] /\ since' = [since EXCEPT ![r] = now]
              /\ cands' = [cands EXCEPT ![r] = c] /\ DOMAIN found' = Requests
              /\ UNCHANGED <<job, deadline, until, gone, want>>
  <2> DEFINE near == Nearest(ids, job[r].id, cands[r])
  <2>1. CASE ~Enough(r, near) BY <2>1 DEF QueryAnswers, PartInv, Shape
  <2>2. CASE Enough(r, near) /\ Reranks(job[r])
    <3>1. cands' = [cands EXCEPT ![r] = cands[r]] /\ DOMAIN found' = Requests
      BY <2>2 DEF QueryAnswers, PartInv, Shape
    <3> QED BY <2>2, <3>1 DEF QueryAnswers
  <2>3. CASE Enough(r, near) /\ ~Reranks(job[r]) BY <2>3 DEF QueryAnswers
  <2> QED BY <2>1, <2>2, <2>3
<1>2. TablesOK' BY <1>1, TablesTyped, SameTables DEF catVars
<1>3. cands[r] \in Nat /\ MaxCandidates \in Nat BY VectorAssumption DEF PartInv, EachOK, RequestOK
<1>4. pc[r] \in Waiting BY <1>1 DEF Waiting, AtQdrant
<1>5. Shape' /\ EachOK' /\ PairsOK' BY <1>1, <1>3, <1>4, GoesOn, ReplyOK
<1> QED BY <1>2, <1>5 DEF PartInv

LEMMA AnswerStep ==
  ASSUME PartInv, NEW r \in Requests, PostFails(r) \/ StatsAnswers(r) \/ StatsFail(r)
  PROVE  PartInv'
<1>1. (\E a : Reply(r, a)) /\ UNCHANGED <<collVars, now, catVars, dueBy>>
  BY DEF PostFails, StatsAnswers, StatsFail
<1>2. TablesOK' BY <1>1, TablesTyped, SameTables DEF catVars
<1>3. Shape' /\ EachOK' /\ PairsOK' BY <1>1, ReplyOK
<1> QED BY <1>2, <1>3 DEF PartInv

LEMMA ClientLeavesStep ==
  ASSUME PartInv, NEW r \in Requests, ClientLeaves(r)
  PROVE  PartInv'
<1>1. /\ gone' = [gone EXCEPT ![r] = TRUE]
      /\ UNCHANGED <<collVars, now, catVars, dueBy, pc, job, deadline, since, want, cands, found,
                   until>>
  BY DEF ClientLeaves
<1>2. TablesOK' BY <1>1, TablesTyped, SameTables DEF catVars
<1>3. Shape' BY <1>1 DEF PartInv, Shape
<1>4. EachOK' BY <1>1 DEF PartInv, Shape, EachOK, RequestOK
<1>5. PairsOK' BY <1>1 DEF PartInv, PairsOK
<1> QED BY <1>2, <1>3, <1>4, <1>5 DEF PartInv

LEMMA PipelineKeepsTables ==
  ASSUME PartInv, PipelineStep
  PROVE  PartInv'
<1>1. UNCHANGED <<now, catVars, reqVars>> /\ dueBy' = Max({dueBy, now + Timeout + CatalogTTL})
  BY DEF PipelineStep
<1>2. CollTypeOK' /\ 0..gen \subseteq 0..gen'
  <2>1. CollTypeOK BY DEF PartInv, TablesOK
  <2>2. MaxUploads \in Nat BY CollectionAssumption
  <2>3. CASE BeginUpload BY <2>1, <2>3 DEF BeginUpload, CollTypeOK
  <2>4. CASE Upsert BY <2>1, <2>4 DEF Upsert, CollTypeOK
  <2>5. CASE UploadDies BY <2>1, <2>5 DEF UploadDies, CollTypeOK
  <2>6. CASE Create
    <3>1. gen < MaxUploads BY <2>1, <2>6 DEF Create, CollTypeOK
    <3> QED BY <2>1, <2>2, <2>6, <3>1 DEF Create, CollTypeOK
  <2> QED BY <2>3, <2>4, <2>5, <2>6 DEF PipelineStep, Pipeline
<1>3. Copies \subseteq Copies' BY <1>2 DEF Copies
<1>4. dueBy' \in Nat
  <2>1. now + Timeout + CatalogTTL \in Nat /\ dueBy \in Nat BY TablesTyped, Constants
  <2> QED BY <1>1, <2>1, TwoOfNat
<1>5. TablesOK' BY <1>1, <1>2, <1>3, <1>4 DEF PartInv, TablesOK, catVars
<1>6. Shape' /\ EachOK' /\ PairsOK' BY <1>1 DEF PartInv, Shape, EachOK, PairsOK, reqVars
<1> QED BY <1>5, <1>6 DEF PartInv

\* Time passes only while everybody's deadline is yet to come.
LEMMA TickStep ==
  ASSUME PartInv, Tick
  PROVE  PartInv'
<1>1. /\ now < MaxTime /\ now' = now + 1 /\ UNCHANGED <<collVars, catVars, reqVars, dueBy>>
      /\ \A r \in Requests : pc[r] \in AtQdrant \cup {"stats"} => ~Due(r)
      /\ (\E r \in Requests : pc[r] = "lock") => Locked
  BY DEF Tick
<1>2. now \in Nat /\ MaxTime \in Nat /\ Timeout \in Nat BY TablesTyped, Constants
<1>3. ASSUME NEW r \in Requests, pc[r] \in AtQdrant \cup {"stats"}
      PROVE  deadline[r] \in Nat /\ now < deadline[r] /\ now < until[r]
  <2>1. ~(now >= deadline[r]) BY <1>1, <1>3 DEF Due, CtxDone
  <2>2. deadline[r] \in Nat /\ until[r] \in Nat /\ deadline[r] <= until[r]
    BY <1>3 DEF PartInv, EachOK, RequestOK, Waiting
  <2> QED BY <1>2, <2>1, <2>2
<1>4. ASSUME NEW r \in Requests, pc[r] = "lock"
      PROVE  now < until[r]
  <2>1. PICK s \in Requests : pc[s] = "scroll" BY <1>1, <1>4 DEF Locked
  <2>2. now < deadline[s] /\ deadline[s] \in Nat BY <1>3, <2>1 DEF AtQdrant
  <2>3. deadline[s] <= until[r] /\ until[r] \in Nat
    BY <1>4, <2>1 DEF PartInv, PairsOK, EachOK, RequestOK
  <2> QED BY <1>2, <2>2, <2>3
<1>5. ASSUME NEW r \in Requests
      PROVE  RequestOK(pc[r], job[r], deadline[r], until[r], gone[r], since[r], want[r], cands[r], now + 1)
  <2>1. RequestOK(pc[r], job[r], deadline[r], until[r], gone[r], since[r], want[r], cands[r], now)
    BY DEF PartInv, EachOK
  <2>2. pc[r] \in Waiting => now < until[r] BY <1>3, <1>4 DEF Waiting
  <2> QED BY <1>2, <2>1, <2>2 DEF RequestOK
<1>6. Shape' /\ EachOK' /\ PairsOK' BY <1>1, <1>5 DEF PartInv, Shape, EachOK, PairsOK, reqVars
<1>7. TablesOK' BY <1>1, <1>2 DEF PartInv, TablesOK, collVars, catVars, CollTypeOK, Copies
<1> QED BY <1>6, <1>7 DEF PartInv

LEMMA Step ==
  ASSUME PartInv, [Next]_vars
  PROVE  PartInv'
<1>1. CASE UNCHANGED vars
  BY <1>1 DEF vars, collVars, catVars, reqVars, PartInv, Shape, EachOK, PairsOK, TablesOK, CollTypeOK, Copies
<1>2. ASSUME NEW r \in Requests, NEW j \in Jobs, Arrive(r, j) PROVE PartInv' BY <1>2, ArriveStep
<1>3. ASSUME NEW r \in Requests, UseCatalog(r) \/ BeginScroll(r) \/ ScrollPage(r) \/ ScrollFails(r)
      PROVE  PartInv'
  BY <1>3, UseCatalogStep, BeginScrollStep, ScrollPageStep, ScrollFailsStep
<1>4. ASSUME NEW r \in Requests,
             \/ RetrieveAnswers(r) \/ QueryAnswers(r) \/ PostFails(r) \/ StatsAnswers(r) \/ StatsFail(r)
             \/ ClientLeaves(r)
      PROVE  PartInv'
  BY <1>4, RetrieveStep, QueryStep, AnswerStep, ClientLeavesStep
<1> QED BY <1>1, <1>2, <1>3, <1>4, PipelineKeepsTables, TickStep DEF Next

LEMMA Begin ==
  ASSUME Init
  PROVE  PartInv
<1>1. Shape BY DEF Init, Shape
<1>2. EachOK BY DEF Init, EachOK, RequestOK, Waiting, AtQdrant
<1>3. PairsOK BY DEF Init, PairsOK
<1>4. TablesOK
  <2>1. MaxUploads \in Nat /\ MaxTime \in Nat BY Constants, CollectionAssumption
  <2>2. /\ upload = "none" /\ gen = 0 /\ exists \in BOOLEAN /\ ids \subseteq Ids
        /\ (~exists => ids = {})
    BY DEF Init, CollInit
  <2>3. CollTypeOK BY <2>1, <2>2 DEF CollTypeOK
  <2>4. /\ now = 0 /\ refreshAt = 0 /\ dueBy = 0 /\ catalog = {} /\ scan.offset = 0 /\ scan.points = {}
    BY DEF Init
  <2> QED BY <2>1, <2>3, <2>4 DEF TablesOK
<1> QED BY <1>1, <1>2, <1>3, <1>4 DEF PartInv

-------------------------------------------------------------------------------
(***************************************************************************)
(* CopyInv.  A page has the points from its offset up to the next one, so  *)
(* a scroll that no upload disturbs reads the whole collection.            *)
(***************************************************************************)
LEMMA PageUpToNext ==
  ASSUME ids \subseteq Ids, NEW offset \in Nat
  PROVE  LET next == NextOffset(offset)
         IN  /\ next = 0 => Page(offset) = {i \in ids : i >= offset}
             /\ next # 0 => /\ next \in Nat /\ next > offset
                            /\ Page(offset) = {i \in ids : offset <= i /\ i < next}
<1> DEFINE ge      == {i \in ids : i >= offset}
           below(i) == {j \in ids : offset <= j /\ j < i}
           rest    == ge \ Page(offset)
           next    == NextOffset(offset)
<1>1. next = IF rest = {} THEN 0 ELSE Min(rest) BY DEF NextOffset
<1>2. ids \subseteq Nat /\ 0 \notin ids /\ IsFiniteSet(ids) /\ PageSize \in Nat \ {0}
  BY CollectionAssumption, FS_Subset
<1>3. Page(offset) = {i \in ge : Cardinality(below(i)) < PageSize} BY DEF Page
<1>4. CASE rest = {} BY <1>1, <1>3, <1>4
<1>5. CASE rest # {}
  <2>1. rest \subseteq Nat BY <1>2
  <2> HIDE DEF rest
  <2>2. next \in rest /\ \A y \in rest : next <= y BY <1>1, <1>5, <2>1, SmallestOf
  <2> HIDE DEF next
  <2> USE DEF rest
  <2>3. next \in ids /\ next >= offset /\ ~(Cardinality(below(next)) < PageSize) BY <1>3, <2>2
  <2>4. next # offset
    <3>1. below(offset) = {}
      <4>1. \A j \in ids : j \in Nat /\ ~(offset <= j /\ j < offset) BY <1>2
      <4> QED BY <4>1
    <3>2. Cardinality(below(offset)) = 0 BY <3>1, FS_EmptySet
    <3> HIDE DEF below
    <3> QED BY <1>2, <2>3, <3>2
  <2>5. \A i \in ids : offset <= i /\ i < next => i \in Page(offset)
    BY <1>2, <2>2, <2>3
  <2>6. ASSUME NEW i \in Page(offset)
        PROVE  i \in ids /\ offset <= i /\ i < next
    <3>1. i \in ids /\ i >= offset /\ Cardinality(below(i)) < PageSize BY <1>3
    <3>2. CASE next <= i
      <4>1. below(next) \subseteq below(i)
        <5>1. i \in Nat /\ next \in Nat BY <1>2, <2>3, <3>1
        <5>2. \A j \in ids : j \in Nat /\ (j < next => j < i) BY <1>2, <3>2, <5>1
        <5> QED BY <5>2
      <4>2. IsFiniteSet(below(i))
        <5>1. below(i) \in SUBSET ids OBVIOUS
        <5> HIDE DEF below
        <5> QED BY <1>2, <5>1, FS_Subset
      <4> HIDE DEF below
      <4>3. /\ Cardinality(below(next)) <= Cardinality(below(i)) /\ IsFiniteSet(below(next))
        BY <4>1, <4>2, FS_Subset
      <4>4. Cardinality(below(next)) \in Nat /\ Cardinality(below(i)) \in Nat
        BY <4>2, <4>3, FS_CardinalityType
      <4> QED BY <1>2, <2>3, <3>1, <4>3, <4>4
    <3> QED BY <1>2, <2>3, <3>1, <3>2
  <2>7. next # 0 /\ next \in Nat /\ next > offset BY <1>2, <2>3, <2>4
  <2>8. Page(offset) = {i \in ids : offset <= i /\ i < next} BY <2>5, <2>6
  <2> QED BY <2>7, <2>8 DEF next
<1> QED BY <1>4, <1>5

\* A catalog that is as large as the cap is the collection, if that is no larger.
LEMMA CapIsWhole ==
  ASSUME ids \subseteq Ids, Cardinality(Ids) <= MaxCatalogSize,
         NEW S \in SUBSET Points, Cardinality(S) >= MaxCatalogSize
  PROVE  S = Points
<1> DEFINE point(i) == [id |-> i, gen |-> gen]
           f == [i \in ids |-> point(i)]
<1>1. IsFiniteSet(Ids) /\ IsFiniteSet(ids) /\ Cardinality(ids) <= Cardinality(Ids)
      /\ Cardinality(ids) \in Nat /\ Cardinality(Ids) \in Nat
  BY CollectionAssumption, FS_Subset, FS_CardinalityType
<1>2. f \in Surjection(ids, Points)
  BY DEF Points, Surjection
<1>3. IsFiniteSet(Points) /\ Cardinality(Points) <= Cardinality(ids) /\ Cardinality(Points) \in Nat
  BY <1>1, <1>2, FS_Surjection, FS_CardinalityType
<1>4. IsFiniteSet(S) /\ Cardinality(S) <= Cardinality(Points) /\ Cardinality(S) \in Nat
  BY <1>3, FS_Subset, FS_CardinalityType
<1>5. MaxCatalogSize \in Nat BY VectorAssumption
<1>6. Cardinality(S) = Cardinality(Points) BY <1>1, <1>3, <1>4, <1>5
<1> QED BY <1>3, <1>6, FS_Subset

LEMMA ReplyChanges ==
  ASSUME PartInv, NEW r \in Requests, NEW a, Reply(r, a)
  PROVE  /\ \A q \in Requests : pc'[q] = IF q = r THEN "idle" ELSE pc[q]
         /\ \A q \in Requests \ {r} : /\ deadline'[q] = deadline[q] /\ found'[q] = found[q]
                                      /\ job'[q] = job[q] /\ want'[q] = want[q] /\ cands'[q] = cands[q]
         /\ answer' = [a EXCEPT !.to = job[r]]
BY DEF Reply, PartInv, Shape

\* A step that leaves the catalog alone and answers no search.
LEMMA QuietCopy ==
  ASSUME CopyInv, UNCHANGED <<collVars, now, catVars, dueBy>>, answer'.mode # "search",
         \A q \in Requests : pc'[q] = "scroll" => pc[q] = "scroll" /\ deadline'[q] = deadline[q]
  PROVE  CopyInv'
<1>1. Points' = Points BY DEF Points, collVars
<1>2. RerunShowsUp' BY DEF RerunShowsUp
<1> QED BY <1>1, <1>2 DEF CopyInv, catVars

LEMMA ArriveCopy ==
  ASSUME PartInv, CopyInv, NEW r \in Requests, NEW j \in Jobs, Arrive(r, j)
  PROVE  CopyInv'
<1>1. /\ UNCHANGED <<collVars, now, catVars, dueBy>> /\ answer'.mode # "search"
  BY DEF Arrive, NoAnswer
<1>2. \A q \in Requests :
        /\ pc'[q] = IF q # r THEN pc[q] ELSE IF j.kind = "search" THEN "lock" ELSE "retrieve"
        /\ q # r => deadline'[q] = deadline[q]
        /\ found'[q] = found[q]
  BY DEF Arrive, PartInv, Shape
<1>3. \A q \in Requests : pc'[q] = "scroll" => pc[q] = "scroll" /\ deadline'[q] = deadline[q]
  BY <1>2 DEF CopyInv
<1> QED BY <1>1, <1>3, QuietCopy

\* A request is answered, but not from the catalog.
LEMMA ReplyCopy ==
  ASSUME PartInv, CopyInv, NEW r \in Requests, NEW a, Reply(r, a),
         UNCHANGED <<collVars, now, catVars, dueBy>>, answer'.mode # "search"
  PROVE  CopyInv'
<1>1. \A q \in Requests : pc'[q] = "scroll" => pc[q] = "scroll" /\ deadline'[q] = deadline[q]
  BY ReplyChanges DEF CopyInv
<1> QED BY <1>1, QuietCopy

LEMMA SearchReply ==
  ASSUME NEW r, NEW S, Reply(r, Found(r, S))
  PROVE  answer'.mode = "search" /\ answer'.of = S
BY DEF Reply, Found, NoAnswer

\* A copy that is still used is the collection's, or dueBy is yet to come.
LEMMA UseCatalogCopy ==
  ASSUME PartInv, CopyInv, NEW r \in Requests, UseCatalog(r)
  PROVE  CopyInv'
<1>1. /\ Reply(r, Found(r, catalog)) /\ UNCHANGED <<collVars, now, catVars, dueBy>>
      /\ catalog # {} /\ now < refreshAt
  BY DEF UseCatalog, Fresh
<1>2. answer'.mode = "search" /\ answer'.of = catalog BY <1>1, SearchReply
<1>3. now \in Nat /\ refreshAt \in Nat /\ dueBy \in Nat BY TablesTyped
<1>4. Points' = Points BY <1>1 DEF Points, collVars
<1>5. Cardinality(Ids) <= MaxCatalogSize => RerunShowsUp'
  BY <1>1, <1>2, <1>3, <1>4 DEF CopyInv, RerunShowsUp
<1>6. \A q \in Requests : pc'[q] = "scroll" => pc[q] = "scroll" /\ deadline'[q] = deadline[q]
  BY <1>1, ReplyChanges DEF CopyInv
<1> QED BY <1>1, <1>4, <1>5, <1>6 DEF CopyInv, catVars

LEMMA BeginScrollCopy ==
  ASSUME PartInv, CopyInv, NEW r \in Requests, BeginScroll(r)
  PROVE  CopyInv'
<1>1. /\ UNCHANGED <<collVars, now, catalog, refreshAt, deadline, found, dueBy>>
      /\ scan' = [offset |-> 0, points |-> {}] /\ answer'.mode # "search"
  BY DEF BeginScroll, NoAnswer
<1>2. \A q \in Requests : pc'[q] = IF q = r THEN "scroll" ELSE pc[q]
  BY DEF BeginScroll, PartInv, Shape
<1>3. Points' = Points BY <1>1 DEF Points, collVars
<1>4. scan'.points = {p \in Points' : p.id < scan'.offset}
  <2>1. \A p \in Points : p.id \in Nat BY TablesTyped, Constants DEF Copies
  <2> QED BY <1>1, <1>3, <2>1
<1>5. RerunShowsUp' BY <1>1 DEF RerunShowsUp
<1>6. /\ refreshAt' <= dueBy' \/ refreshAt' <= now' + CatalogTTL
      /\ Cardinality(Ids) <= MaxCatalogSize => catalog' \in {{}, Points'} \/ refreshAt' <= dueBy'
  BY <1>1, <1>3 DEF CopyInv
<1> QED BY <1>4, <1>5, <1>6 DEF CopyInv

\* The scroll that has read the last page has the whole collection, unless an
\* upload has been at it in the meantime.
LEMMA ScrollPageCopy ==
  ASSUME PartInv, CopyInv, NEW r \in Requests, ScrollPage(r)
  PROVE  CopyInv'
<1> DEFINE page   == {p \in Points : p.id \in Page(scan.offset)}
           points == scan.points \cup page
           next   == NextOffset(scan.offset)
           Done   == next = 0 \/ Cardinality(points) >= MaxCatalogSize
           Fits   == Cardinality(Ids) <= MaxCatalogSize
           Stale  == deadline[r] + CatalogTTL <= dueBy
<1>1. pc[r] = "scroll" /\ UNCHANGED <<collVars, now, dueBy>> BY DEF ScrollPage
<1>2. Points' = Points BY <1>1 DEF Points, collVars
<1>3. /\ now \in Nat /\ dueBy \in Nat /\ ids \subseteq Ids /\ scan.offset \in Nat /\ CatalogTTL \in Nat \ {0}
      /\ deadline[r] \in Nat /\ now <= deadline[r]
  <2>1. RequestOK(pc[r], job[r], deadline[r], until[r], gone[r], since[r], want[r], cands[r], now)
    BY DEF PartInv, EachOK
  <2>2. deadline[r] \in Nat /\ ~(now >= deadline[r])
    BY <2>1 DEF RequestOK, ScrollPage, Due, CtxDone
  <2> QED BY <1>1, <2>2, TablesTyped, VectorAssumption
<1>4. ASSUME Fits
      PROVE  /\ Stale \/ Done => points = Points \/ Stale
             /\ Done \/ Stale \/ points = {p \in Points : p.id < next}
  <2>1. CASE Stale BY <2>1
  <2>2. CASE ~Stale
    <3>1. scan.points = {p \in Points : p.id < scan.offset} BY <1>1, <1>4, <2>2 DEF CopyInv
    <3>2. \A p \in Points : p.id \in ids /\ p.id \in Nat BY <1>3, Constants DEF Points
    <3> HIDE DEF next
    <3>3. CASE next = 0
      <4>1. Page(scan.offset) = {i \in ids : i >= scan.offset} BY <1>3, <3>3, PageUpToNext DEF next
      <4>2. points = Points BY <1>3, <3>1, <3>2, <4>1
      <4> QED BY <3>3, <4>2
    <3>4. CASE next # 0
      <4>1. /\ next \in Nat /\ next > scan.offset
            /\ Page(scan.offset) = {i \in ids : scan.offset <= i /\ i < next}
        BY <1>3, <3>4, PageUpToNext DEF next
      <4>2. points = {p \in Points : p.id < next} BY <1>3, <3>1, <3>2, <4>1
      <4>3. Cardinality(points) >= MaxCatalogSize => points = Points
        <5>1. points \in SUBSET Points BY <4>2
        <5> HIDE DEF points
        <5> QED BY <1>3, <1>4, <5>1, CapIsWhole
      <4> QED BY <3>4, <4>2, <4>3
    <3> QED BY <3>3, <3>4
  <2> QED BY <2>1, <2>2
<1>5. CASE Done
  <2>1. /\ catalog' = points /\ refreshAt' = now + CatalogTTL /\ Reply(r, Found(r, points))
    BY <1>5 DEF ScrollPage
  <2> HIDE DEF points, Done
  <2>2. answer'.of = points BY <2>1, SearchReply
  <2>3. refreshAt' <= now' + CatalogTTL' BY <1>1, <1>3, <2>1
  <2>4. Fits => RerunShowsUp'
    <3>1. ASSUME Fits, Stale PROVE ~(now' >= dueBy') BY <1>1, <1>3, <3>1
    <3> QED BY <1>2, <1>4, <1>5, <2>2, <3>1 DEF RerunShowsUp
  <2>5. Fits => catalog' = Points' \/ refreshAt' <= dueBy'
    BY <1>1, <1>2, <1>3, <1>4, <1>5, <2>1
  <2>6. \A q \in Requests : pc'[q] # "scroll"
    BY <1>1, <2>1, ReplyChanges DEF PartInv, PairsOK
  <2> QED BY <2>3, <2>4, <2>5, <2>6 DEF CopyInv
<1>6. CASE ~Done
  <2>1. /\ scan' = [offset |-> next, points |-> points] /\ answer' = NoAnswer
        /\ UNCHANGED <<catalog, refreshAt, pc, deadline, found>>
    BY <1>6 DEF ScrollPage
  <2>2. \A q \in Requests : pc'[q] = "scroll" => q = r BY <1>1, <2>1 DEF PartInv, PairsOK
  <2>3. Fits => Stale \/ scan'.points = {p \in Points : p.id < scan'.offset} BY <1>4, <1>6, <2>1
  <2>4. RerunShowsUp' BY <2>1 DEF RerunShowsUp, NoAnswer
  <2> HIDE DEF points, next, Done
  <2> QED BY <1>1, <1>2, <2>1, <2>2, <2>3, <2>4 DEF CopyInv
<1> QED BY <1>5, <1>6

LEMMA ScrollFailsCopy ==
  ASSUME PartInv, CopyInv, NEW r \in Requests, ScrollFails(r)
  PROVE  CopyInv'
<1>1. /\ pc[r] = "scroll" /\ UNCHANGED <<collVars, now, catalog>>
      /\ dueBy' = Max({dueBy, now + CatalogRetryDelay})
      /\ \E a : Reply(r, a)
      /\ refreshAt' = IF catalog # {} THEN now + CatalogRetryDelay ELSE refreshAt
  <2>1. CASE catalog # {} BY <2>1 DEF ScrollFails
  <2>2. CASE catalog = {} BY <2>2 DEF ScrollFails
  <2> QED BY <2>1, <2>2
<1>2. now \in Nat /\ dueBy \in Nat /\ refreshAt \in Nat /\ CatalogRetryDelay \in Nat \ {0} /\ CatalogTTL \in Nat
  BY TablesTyped, VectorAssumption
<1>3. dueBy' >= dueBy /\ dueBy' >= now + CatalogRetryDelay /\ dueBy' \in Nat BY <1>1, <1>2, TwoOfNat
<1>4. Points' = Points BY <1>1 DEF Points, collVars
<1>5. RerunShowsUp' BY <1>1, <1>2, <1>3 DEF RerunShowsUp
<1>6. \A q \in Requests : pc'[q] # "scroll" BY <1>1, ReplyChanges DEF PartInv, PairsOK
<1>7. refreshAt' <= dueBy' \/ refreshAt' <= now' + CatalogTTL'
  BY <1>1, <1>2, <1>3 DEF CopyInv
<1>8. catalog' = {} \/ refreshAt' <= dueBy' BY <1>1, <1>2, <1>3
<1> QED BY <1>5, <1>6, <1>7, <1>8 DEF CopyInv

\* A run of the pipeline ends every promise before dueBy.
LEMMA PipelineCopy ==
  ASSUME PartInv, CopyInv, PipelineStep
  PROVE  CopyInv'
<1>1. /\ UNCHANGED <<now, catVars, reqVars>> /\ answer' = NoAnswer
      /\ dueBy' = Max({dueBy, now + Timeout + CatalogTTL})
  BY DEF PipelineStep
<1>2. now \in Nat /\ dueBy \in Nat /\ refreshAt \in Nat /\ Timeout \in Nat /\ CatalogTTL \in Nat
  BY TablesTyped, Constants
<1>3. dueBy' \in Nat /\ dueBy' >= dueBy /\ dueBy' >= now + Timeout + CatalogTTL BY <1>1, <1>2, TwoOfNat
<1>4. refreshAt' <= dueBy' BY <1>1, <1>2, <1>3 DEF CopyInv, catVars
<1>5. ASSUME NEW q \in Requests, pc'[q] = "scroll"
      PROVE  deadline'[q] + CatalogTTL <= dueBy'
  <2>1. RequestOK(pc[q], job[q], deadline[q], until[q], gone[q], since[q], want[q], cands[q], now)
    BY DEF PartInv, EachOK
  <2>2. pc[q] = "scroll" /\ deadline'[q] = deadline[q] BY <1>1, <1>5 DEF reqVars
  <2>3. deadline[q] <= now + Timeout /\ deadline[q] \in Nat
    BY <2>1, <2>2 DEF RequestOK, Waiting, AtQdrant
  <2> QED BY <1>2, <1>3, <2>2, <2>3
<1>6. RerunShowsUp' BY <1>1 DEF RerunShowsUp, NoAnswer
<1> QED BY <1>4, <1>5, <1>6 DEF CopyInv

LEMMA TickCopy ==
  ASSUME PartInv, CopyInv, Tick
  PROVE  CopyInv'
<1>1. UNCHANGED <<collVars, catVars, reqVars, dueBy>> /\ answer' = NoAnswer /\ now' = now + 1
  BY DEF Tick
<1>2. now \in Nat /\ dueBy \in Nat /\ refreshAt \in Nat /\ CatalogTTL \in Nat BY TablesTyped, Constants
<1>3. Points' = Points BY <1>1 DEF Points, collVars
<1>4. refreshAt' <= dueBy' \/ refreshAt' <= now' + CatalogTTL' BY <1>1, <1>2 DEF CopyInv, catVars
<1>5. RerunShowsUp' BY <1>1 DEF RerunShowsUp, NoAnswer
<1> QED BY <1>1, <1>3, <1>4, <1>5 DEF CopyInv, catVars, reqVars

\* What a request that waits for the statistics is answered.
LEMMA StatsAnswerIs ==
  ASSUME SimilarInv, NEW r \in Requests, StatsAnswers(r)
  PROVE  (\E a : Reply(r, a)) /\ answer'.mode = "reranked" /\ answer'.status = 200
<1> DEFINE First3(stats) == First(Reranked(FoundSet(r), stats), job[r].limit)
           Tracks(stats) == [k \in DOMAIN First3(stats) |-> First3(stats)[k].id]
<1>1. \E stats \in Stats : Reply(r, [found[r] EXCEPT !.tracks = Tracks(stats), !.mode = "reranked"])
  BY DEF StatsAnswers
<1> HIDE DEF Tracks
<1>2. PICK t : Reply(r, [found[r] EXCEPT !.tracks = t, !.mode = "reranked"]) BY <1>1
<1>3. found[r] = [NoAnswer EXCEPT !.status = 200, !.tracks = found[r].tracks,
                                  !.mode = "rerank_skipped", !.of = found[r].of]
  BY DEF StatsAnswers, SimilarInv
<1>4. answer' = [[found[r] EXCEPT !.tracks = t, !.mode = "reranked"] EXCEPT !.to = job[r]] BY <1>2 DEF Reply
<1>5. answer'.mode = "reranked" /\ answer'.status = 200 BY <1>3, <1>4 DEF NoAnswer
<1> QED BY <1>2, <1>5

LEMMA StatsFailIs ==
  ASSUME SimilarInv, NEW r \in Requests, StatsFail(r)
  PROVE  /\ \E a : Reply(r, a)
         /\ gone[r] => answer'.mode = "none"
         /\ ~gone[r] => /\ answer'.mode = "rerank_skipped" /\ answer'.status = 200 /\ answer'.to = job[r]
                        /\ answer'.of = found[r].of
                        /\ answer'.tracks = First(found[r].tracks, job[r].limit)
<1>1. Reply(r, Skipped(r)) BY DEF StatsFail
<1>2. found[r] = [NoAnswer EXCEPT !.status = 200, !.tracks = found[r].tracks,
                                  !.mode = "rerank_skipped", !.of = found[r].of]
  BY DEF StatsFail, SimilarInv
<1>3. CASE gone[r]
  <2>1. answer' = [Failed(499) EXCEPT !.to = job[r]] BY <1>1, <1>3 DEF Reply, Skipped
  <2> QED BY <1>1, <1>3, <2>1 DEF Failed, NoAnswer
<1>4. CASE ~gone[r]
  <2> DEFINE t == First(found[r].tracks, job[r].limit)
  <2>1. answer' = [[found[r] EXCEPT !.tracks = t] EXCEPT !.to = job[r]]
    BY <1>1, <1>4 DEF Reply, Skipped
  <2> HIDE DEF t
  <2>2. /\ answer'.mode = "rerank_skipped" /\ answer'.status = 200 /\ answer'.to = job[r]
        /\ answer'.of = found[r].of /\ answer'.tracks = t
    BY <1>2, <2>1 DEF NoAnswer
  <2> QED BY <1>1, <1>4, <2>2 DEF t
<1> QED BY <1>3, <1>4

LEMMA CopyStep ==
  ASSUME PartInv, CopyInv, SimilarInv, [Next]_vars
  PROVE  CopyInv'
<1>1. CASE UNCHANGED vars
  <2>1. Points' = Points BY <1>1 DEF vars, collVars, Points
  <2> QED BY <1>1, <2>1 DEF vars, catVars, reqVars, CopyInv, RerunShowsUp
<1>2. ASSUME NEW r \in Requests, NEW j \in Jobs, Arrive(r, j) PROVE CopyInv' BY <1>2, ArriveCopy
<1>3. ASSUME NEW r \in Requests, UseCatalog(r) \/ BeginScroll(r) \/ ScrollPage(r) \/ ScrollFails(r)
      PROVE  CopyInv'
  BY <1>3, UseCatalogCopy, BeginScrollCopy, ScrollPageCopy, ScrollFailsCopy
<1>4. ASSUME NEW r \in Requests, RetrieveAnswers(r) PROVE CopyInv'
  <2>1. UNCHANGED <<collVars, now, catVars, dueBy>> BY <1>4 DEF RetrieveAnswers
  <2>2. CASE job[r].id \in ids
    <3>1. answer'.mode # "search" BY <1>4, <2>2 DEF RetrieveAnswers, NoAnswer
    <3>2. \A q \in Requests : pc'[q] = IF q = r THEN "query" ELSE pc[q]
      BY <1>4, <2>2 DEF RetrieveAnswers, PartInv, Shape
    <3>3. UNCHANGED <<deadline, found>> BY <1>4, <2>2 DEF RetrieveAnswers
    <3>4. \A q \in Requests : pc'[q] = "scroll" => pc[q] = "scroll" /\ deadline'[q] = deadline[q]
      BY <3>2, <3>3 DEF CopyInv
    <3> QED BY <2>1, <3>1, <3>4, QuietCopy
  <2>3. CASE job[r].id \notin ids
    <3>1. Reply(r, Failed(404)) BY <1>4, <2>3 DEF RetrieveAnswers
    <3>2. answer'.mode # "search" BY <3>1 DEF Reply, Failed, NoAnswer
    <3> QED BY <2>1, <3>1, <3>2, ReplyCopy
  <2> QED BY <2>2, <2>3
<1>5. ASSUME NEW r \in Requests, QueryAnswers(r) PROVE CopyInv'
  <2> DEFINE near == Nearest(ids, job[r].id, cands[r])
  <2>1. UNCHANGED <<collVars, now, catVars, dueBy>> BY <1>5 DEF QueryAnswers
  <2>2. CASE Enough(r, near) /\ ~Reranks(job[r])
    <3> DEFINE mode == IF job[r].rerank THEN "rerank_skipped" ELSE "plain"
               kept == Kept(r, near)
    <3>1. Reply(r, Neighbors(r, kept, mode)) BY <1>5, <2>2 DEF QueryAnswers
    <3>2. mode # "search" OBVIOUS
    <3> HIDE DEF mode, kept
    <3>3. answer'.mode # "search" BY <3>1, <3>2 DEF Reply, Neighbors, NoAnswer
    <3> QED BY <2>1, <3>1, <3>3, ReplyCopy
  <2>3. CASE ~Enough(r, near)
    <3>1. /\ pc' = [pc EXCEPT ![r] = "retrieve"] /\ UNCHANGED <<deadline, found>> /\ answer'.mode # "search"
      BY <1>5, <2>3 DEF QueryAnswers, NoAnswer
    <3>2. \A q \in Requests : pc'[q] = IF q = r THEN "retrieve" ELSE pc[q] BY <3>1 DEF PartInv, Shape
    <3>3. \A q \in Requests : pc'[q] = "scroll" => pc[q] = "scroll" /\ deadline'[q] = deadline[q]
      BY <3>1, <3>2 DEF CopyInv
    <3> QED BY <2>1, <3>1, <3>3, QuietCopy
  <2>4. CASE Enough(r, near) /\ Reranks(job[r])
    <3> DEFINE kept == Kept(r, near)
    <3>1. /\ pc' = [pc EXCEPT ![r] = "stats"] /\ UNCHANGED deadline /\ answer'.mode # "search"
          /\ found' = [found EXCEPT ![r] = [Neighbors(r, near, "rerank_skipped") EXCEPT !.tracks = kept]]
      BY <1>5, <2>4 DEF QueryAnswers, NoAnswer
    <3>2. \A q \in Requests : pc'[q] = IF q = r THEN "stats" ELSE pc[q] BY <3>1 DEF PartInv, Shape
    <3>3. \A q \in Requests : pc'[q] = "scroll" => pc[q] = "scroll" /\ deadline'[q] = deadline[q]
      BY <3>1, <3>2
    <3> QED BY <2>1, <3>1, <3>3, QuietCopy
  <2> QED BY <2>2, <2>3, <2>4
<1>6. ASSUME NEW r \in Requests, PostFails(r) PROVE CopyInv'
  <2>1. Reply(r, Unavailable(r)) /\ UNCHANGED <<collVars, now, catVars, dueBy>> BY <1>6 DEF PostFails
  <2>2. answer'.mode # "search" BY <2>1 DEF Reply, Unavailable, Failed, NoAnswer
  <2> QED BY <2>1, <2>2, ReplyCopy
<1>7. ASSUME NEW r \in Requests, ClientLeaves(r) PROVE CopyInv'
  <2>1. /\ UNCHANGED <<collVars, now, catVars, dueBy, pc, deadline, found>> /\ answer'.mode # "search"
    BY <1>7 DEF ClientLeaves, NoAnswer
  <2> QED BY <2>1, QuietCopy DEF CopyInv
<1>8. ASSUME NEW r \in Requests, StatsAnswers(r) \/ StatsFail(r) PROVE CopyInv'
  <2>1. UNCHANGED <<collVars, now, catVars, dueBy>> BY <1>8 DEF StatsAnswers, StatsFail
  <2>2. (\E a : Reply(r, a)) /\ answer'.mode # "search" BY <1>8, StatsAnswerIs, StatsFailIs
  <2> QED BY <2>1, <2>2, ReplyCopy
<1> QED BY <1>1, <1>2, <1>3, <1>4, <1>5, <1>6, <1>7, <1>8, PipelineCopy, TickCopy DEF Next

-------------------------------------------------------------------------------
(***************************************************************************)
(* Numbers, folds and lists.  The library's induction theorems cannot be   *)
(* used (they have a predicate as a parameter), so what is shown by        *)
(* induction is shown of the set of the numbers it holds for.              *)
(***************************************************************************)
\* Induction over a set of numbers.
LEMMA UpFromZero ==
  ASSUME NEW T, 0 \in T, \A n \in Nat : n \in T => n + 1 \in T
  PROVE  Nat \subseteq T
<1> SUFFICES ASSUME Nat \ T # {} PROVE FALSE OBVIOUS
<1> DEFINE n == Min(Nat \ T)
<1>1. n \in Nat \ T /\ \A y \in Nat \ T : n <= y BY SmallestOf
<1> HIDE DEF n
<1>2. n - 1 \in Nat /\ ~(n <= n - 1) BY <1>1
<1>3. n - 1 \in T BY <1>1, <1>2
<1> QED BY <1>1, <1>2, <1>3

\* The function that a fold is defined by exists: pick says which element of a
\* set is taken last, and op what it adds.
CanFold(S, V, base, pick, op) ==
  /\ IsFiniteSet(S) /\ base \in V
  /\ \A T \in SUBSET S : T # {} => pick[T] \in T
  /\ \A x \in S, v \in V : op[<<x, v>>] \in V

IsFold(f, S, V, base, pick, op) ==
  /\ f \in [SUBSET S -> V]
  /\ \A T \in SUBSET S : f[T] = IF T = {} THEN base ELSE op[<<pick[T], f[T \ {pick[T]}]>>]

LEMMA FoldDefined ==
  ASSUME NEW S, NEW V, NEW base, NEW pick, NEW op, CanFold(S, V, base, pick, op)
  PROVE  \E f : IsFold(f, S, V, base, pick, op)
<1> USE DEF CanFold
<1> DEFINE Upto(n)    == {T \in SUBSET S : Cardinality(T) <= n}
           Value(f, T) == IF T = {} THEN base ELSE op[<<pick[T], f[T \ {pick[T]}]>>]
           Good(n, f) == f \in [Upto(n) -> V] /\ \A T \in Upto(n) : f[T] = Value(f, T)
           N == {n \in Nat : \E f : Good(n, f)}
<1>1. \A T \in SUBSET S : IsFiniteSet(T) /\ Cardinality(T) \in Nat
  BY FS_Subset, FS_CardinalityType
<1>2. 0 \in N
  <2> DEFINE f == [T \in Upto(0) |-> base]
  <2>1. \A T \in Upto(0) : T = {} BY <1>1, FS_EmptySet
  <2>2. Good(0, f) BY <2>1
  <2> QED BY <2>2
<1>3. ASSUME NEW n \in Nat, n \in N PROVE n + 1 \in N
  <2>1. PICK f : Good(n, f) BY <1>3
  <2> DEFINE g == [T \in Upto(n + 1) |-> Value(f, T)]
  <2>2. ASSUME NEW T \in Upto(n + 1), T # {}
        PROVE  pick[T] \in S /\ T \ {pick[T]} \in Upto(n)
    <3>1. pick[T] \in T /\ T \in SUBSET S BY <2>2
    <3>2. Cardinality(T \ {pick[T]}) = Cardinality(T) - 1 BY <1>1, <3>1, FS_RemoveElement
    <3> QED BY <1>1, <3>1, <3>2
  <2>3. \A T \in Upto(n + 1) : Value(f, T) \in V BY <2>1, <2>2
  <2>4. \A T \in Upto(n) : T \in Upto(n + 1) /\ g[T] = f[T]
    <3>1. \A T \in Upto(n) : T \in Upto(n + 1) BY <1>1
    <3> QED BY <2>1, <3>1
  <2>5. \A T \in Upto(n + 1) : g[T] = Value(g, T) BY <2>2, <2>4
  <2>6. Good(n + 1, g) BY <2>3, <2>5
  <2> HIDE DEF Good
  <2> QED BY <2>6
<1> HIDE DEF N
<1>4. Cardinality(S) \in N BY <1>1, <1>2, <1>3, UpFromZero
<1> USE DEF N
<1>5. PICK f : Good(Cardinality(S), f) BY <1>4
<1>6. Upto(Cardinality(S)) = SUBSET S BY FS_Subset
<1>7. f \in [SUBSET S -> V] /\ \A T \in SUBSET S : f[T] = Value(f, T) BY <1>5, <1>6
<1> QED BY <1>7 DEF IsFold

LEMMA LargestOf ==
  ASSUME NEW n \in Nat, NEW T, T \subseteq 0..n, T # {}
  PROVE  Max(T) \in T /\ \A y \in T : y <= Max(T)
<1> DEFINE R == {k \in Nat : n - k \in T}
<1>1. PICK t \in T : TRUE OBVIOUS
<1>2. n - t \in R OBVIOUS
<1> DEFINE m == Min(R)
<1>3. m \in R /\ \A k \in R : m <= k BY <1>2, SmallestOf
<1> HIDE DEF m
<1>4. \A y \in T : y \in 0..n /\ m <= n - y
  <2>1. ASSUME NEW y \in T PROVE y \in 0..n /\ n - y \in Nat /\ n - (n - y) = y OBVIOUS
  <2> QED BY <1>3, <2>1
<1>5. n - m \in T /\ \A y \in T : n - m >= y BY <1>3, <1>4
<1> QED BY <1>5 DEF Max

\* The tracks of other artists, one by one: g[k] are those among the first k.
Filters(g, s, id) ==
  /\ g[0] = <<>>
  /\ \A k \in 1..Len(s) :
       g[k] = IF Artist[s[k]] = Artist[id] THEN g[k - 1] ELSE Append(g[k - 1], s[k])

LEMMA OfOthersOneByOne ==
  ASSUME NEW X, NEW s \in Seq(X), NEW id
  PROVE  \E g : Filters(g, s, id) /\ OfOthers(s, id) = g[Len(s)]
<1> DEFINE n  == Len(s)
           D  == DOMAIN s
           pick == [T \in SUBSET D |-> Max(T)]
           op == [p \in D \X Seq(X) |-> IF Artist[s[p[1]]] = Artist[id] THEN p[2] ELSE Append(p[2], s[p[1]])]
           it == CHOOSE iter : iter = [T \in SUBSET D |->
                   IF T = {} THEN <<>>
                   ELSE IF Artist[s[Max(T)]] = Artist[id] THEN iter[T \ {Max(T)}]
                   ELSE Append(iter[T \ {Max(T)}], s[Max(T)])]
<1>1. OfOthers(s, id) = it[D] BY DEF OfOthers, FoldLeft, MapThenFoldSet
<1>2. n \in Nat /\ D = 1..n /\ \A i \in D : s[i] \in X BY LenProperties, ElementOfSeq
<1>3. IsFiniteSet(D) BY <1>2, FS_Interval
<1>4. \A T \in SUBSET D : T # {} => pick[T] = Max(T) /\ Max(T) \in T BY <1>2, LargestOf
<1>5. ASSUME NEW i \in D, NEW v \in Seq(X)
      PROVE  op[<<i, v>>] = (IF Artist[s[i]] = Artist[id] THEN v ELSE Append(v, s[i])) /\ op[<<i, v>>] \in Seq(X)
  BY <1>2, <1>5, AppendProperties
<1>6. <<>> \in Seq(X) OBVIOUS
<1> HIDE DEF pick, op
<1>7. PICK f : IsFold(f, D, Seq(X), <<>>, pick, op)
  <2>1. CanFold(D, Seq(X), <<>>, pick, op) BY <1>3, <1>4, <1>5, <1>6 DEF CanFold
  <2> QED BY <2>1, FoldDefined
<1>8. f = [T \in SUBSET D |->
             IF T = {} THEN <<>>
             ELSE IF Artist[s[Max(T)]] = Artist[id] THEN f[T \ {Max(T)}]
             ELSE Append(f[T \ {Max(T)}], s[Max(T)])]
  <2>1. ASSUME NEW T \in SUBSET D
        PROVE  f[T] = IF T = {} THEN <<>>
                      ELSE IF Artist[s[Max(T)]] = Artist[id] THEN f[T \ {Max(T)}]
                      ELSE Append(f[T \ {Max(T)}], s[Max(T)])
    <3>1. CASE T = {} BY <1>7, <3>1 DEF IsFold
    <3>2. CASE T # {}
      <4>1. pick[T] = Max(T) /\ Max(T) \in D /\ f[T \ {Max(T)}] \in Seq(X) BY <1>4, <1>7, <3>2 DEF IsFold
      <4>2. f[T] = op[<<Max(T), f[T \ {Max(T)}]>>] BY <1>7, <3>2, <4>1 DEF IsFold
      <4> QED BY <1>5, <3>2, <4>1, <4>2
    <3> QED BY <3>1, <3>2
  <2> QED BY <1>7, <2>1 DEF IsFold
<1>9. it = [T \in SUBSET D |->
              IF T = {} THEN <<>>
              ELSE IF Artist[s[Max(T)]] = Artist[id] THEN it[T \ {Max(T)}]
              ELSE Append(it[T \ {Max(T)}], s[Max(T)])]
  BY <1>8
<1> HIDE DEF it, n
<1> DEFINE g == [k \in 0..n |-> it[1..k]]
<1>10. ASSUME NEW k \in 1..n
       PROVE  g[k] = IF Artist[s[k]] = Artist[id] THEN g[k - 1] ELSE Append(g[k - 1], s[k])
  <2>1. k \in Nat /\ 1 <= k /\ k <= n /\ 1..k \in SUBSET D /\ 1..k # {} /\ k \in 1..k
    <3>1. k \in Nat /\ 1 <= k /\ k <= n BY <1>2
    <3>2. \A i \in 1..k : i \in 1..n BY <1>2, <3>1
    <3>3. k \in 1..k BY <3>1
    <3> QED BY <1>2, <3>1, <3>2, <3>3
  <2>2. Max(1..k) = k
    <3> DEFINE T == 1..k
    <3>1. T \subseteq 0..k /\ T # {} /\ \A i \in T : i <= k /\ i \in Nat BY <2>1
    <3>2. k \in T BY <2>1
    <3> HIDE DEF T
    <3>3. Max(T) \in T /\ \A y \in T : y <= Max(T) BY <2>1, <3>1, LargestOf
    <3>4. Max(T) \in Nat /\ Max(T) <= k /\ k <= Max(T) BY <3>1, <3>2, <3>3
    <3>5. Max(T) = k BY <2>1, <3>4
    <3> QED BY <3>5 DEF T
  <2>3. (1..k) \ {k} = 1..(k - 1) BY <1>2
  <2>4. g[k] = it[1..k] /\ g[k - 1] = it[1..(k - 1)] BY <1>2
  <2>5. it[1..k] = IF Artist[s[k]] = Artist[id] THEN it[(1..k) \ {k}] ELSE Append(it[(1..k) \ {k}], s[k])
    BY <1>9, <2>1, <2>2
  <2> QED BY <2>3, <2>4, <2>5
<1>11. g[0] = <<>>
  <2>1. 1..0 = {} /\ 1..0 \in SUBSET D OBVIOUS
  <2>2. it[1..0] = <<>> BY <1>9, <2>1
  <2> QED BY <1>2, <2>2
<1>12. g[n] = it[D] BY <1>2
<1>13. Filters(g, s, id) /\ OfOthers(s, id) = g[Len(s)] BY <1>1, <1>10, <1>11, <1>12 DEF Filters, n
<1> QED BY <1>13

\* What First gives.
LEMMA FirstIs ==
  ASSUME NEW X, NEW s \in Seq(X), NEW n \in Nat
  PROVE  LET m == IF n <= Len(s) THEN n ELSE Len(s)
         IN  /\ First(s, n) \in Seq(X) /\ Len(First(s, n)) = m
             /\ \A i \in 1..m : First(s, n)[i] = s[i]
<1> DEFINE m == IF n <= Len(s) THEN n ELSE Len(s)
<1>1. Len(s) \in Nat /\ \A i \in 1..Len(s) : s[i] \in X BY LenProperties, ElementOfSeq
<1>2. Min({n, Len(s)}) = m BY <1>1, TwoOfNat
<1>3. First(s, n) = SubSeq(s, 1, m) BY <1>2 DEF First
<1>4. m \in Nat /\ \A i \in 1..m : s[i] \in X BY <1>1
<1> HIDE DEF m
<1>5. /\ SubSeq(s, 1, m) \in Seq(X) /\ Len(SubSeq(s, 1, m)) = m
      /\ \A i \in 1..m : SubSeq(s, 1, m)[i] = s[i]
  BY <1>4, SubSeqProperties
<1> QED BY <1>3, <1>5 DEF m

\* t begins s.
Begins(t, s) == Len(t) <= Len(s) /\ \A i \in 1..Len(t) : t[i] = s[i]

LEMMA BeginningOf ==
  ASSUME NEW X, NEW s \in Seq(X), NEW t \in Seq(X), NEW n \in Nat, Begins(t, s),
         n <= Len(t) \/ Len(t) = Len(s)
  PROVE  First(t, n) = First(s, n)
<1>1. Len(s) \in Nat /\ Len(t) \in Nat BY LenProperties
<1> DEFINE a == First(t, n)
           b == First(s, n)
<1>2. a \in Seq(X) /\ b \in Seq(X) /\ Len(a) = Len(b) /\ Len(a) \in Nat
      /\ \A i \in 1..Len(a) : a[i] = t[i] /\ b[i] = s[i] /\ i \in 1..Len(t)
  BY <1>1, FirstIs DEF Begins
<1> HIDE DEF a, b
<1>3. \A i \in 1..Len(a) : a[i] = b[i] BY <1>2 DEF Begins
<1>4. a = b BY <1>2, <1>3, SeqEqual
<1> QED BY <1>4 DEF a, b

LEMMA FirstBegins ==
  ASSUME NEW X, NEW s \in Seq(X), NEW n \in Nat
  PROVE  Begins(First(s, n), s)
BY FirstIs, LenProperties DEF Begins

\* The tracks of other artists among the first ones begin those among all.
LEMMA OfOthersBegins ==
  ASSUME NEW X, NEW s \in Seq(X), NEW id, NEW t \in Seq(X), Begins(t, s)
  PROVE  /\ OfOthers(s, id) \in Seq(X) /\ OfOthers(t, id) \in Seq(X)
         /\ Begins(OfOthers(t, id), OfOthers(s, id))
         /\ Len(t) = Len(s) => OfOthers(t, id) = OfOthers(s, id)
<1>1. /\ Len(s) \in Nat /\ Len(t) \in Nat /\ Len(t) <= Len(s)
      /\ \A k \in 1..Len(t) : k \in 1..Len(s) /\ t[k] = s[k]
  BY LenProperties DEF Begins
<1>2. PICK g : Filters(g, s, id) /\ OfOthers(s, id) = g[Len(s)] BY OfOthersOneByOne
<1>3. PICK h : Filters(h, t, id) /\ OfOthers(t, id) = h[Len(t)] BY OfOthersOneByOne
<1> DEFINE A == {k \in Nat : k <= Len(s) => g[k] \in Seq(X)}
           B == {k \in Nat : k <= Len(t) => h[k] = g[k]}
           C == {k \in Nat : Len(t) + k <= Len(s) => Begins(g[Len(t)], g[Len(t) + k])}
<1>4. ASSUME NEW k \in Nat, k + 1 <= Len(s)
      PROVE  /\ s[k + 1] \in X
             /\ g[k + 1] = IF Artist[s[k + 1]] = Artist[id] THEN g[k] ELSE Append(g[k], s[k + 1])
  <2>1. k + 1 \in 1..Len(s) /\ (k + 1) - 1 = k BY <1>1, <1>4
  <2> QED BY <1>2, <2>1, ElementOfSeq DEF Filters
<1>5. Nat \subseteq A
  <2>1. 0 \in A
    <3>1. g[0] = <<>> BY <1>2 DEF Filters
    <3>2. <<>> \in Seq(X) OBVIOUS
    <3> QED BY <3>1, <3>2
  <2>2. ASSUME NEW k \in Nat, k \in A PROVE k + 1 \in A
    <3>1. CASE k + 1 <= Len(s)
      <4>1. g[k] \in Seq(X) /\ s[k + 1] \in X BY <1>1, <1>4, <2>2, <3>1
      <4>2. Append(g[k], s[k + 1]) \in Seq(X) BY <4>1, AppendProperties
      <4>3. g[k + 1] \in Seq(X) BY <1>4, <3>1, <4>1, <4>2
      <4> QED BY <4>3
    <3> QED BY <3>1
  <2> HIDE DEF A
  <2> QED BY <2>1, <2>2, UpFromZero
<1>6. Nat \subseteq B
  <2>1. 0 \in B BY <1>2, <1>3 DEF Filters
  <2>2. ASSUME NEW k \in Nat, k \in B PROVE k + 1 \in B
    <3>1. CASE k + 1 <= Len(t)
      <4>1. k + 1 \in 1..Len(t) /\ (k + 1) - 1 = k /\ k + 1 <= Len(s) BY <1>1, <3>1
      <4>2. h[k + 1] = IF Artist[t[k + 1]] = Artist[id] THEN h[k] ELSE Append(h[k], t[k + 1])
        BY <1>3, <4>1 DEF Filters
      <4>3. t[k + 1] = s[k + 1] /\ h[k] = g[k] BY <1>1, <2>2, <3>1, <4>1
      <4> QED BY <1>4, <4>1, <4>2, <4>3
    <3> QED BY <3>1
  <2> HIDE DEF B
  <2> QED BY <2>1, <2>2, UpFromZero
<1>7. Nat \subseteq C
  <2>1. 0 \in C
    <3>1. Begins(g[Len(t)], g[Len(t)]) BY <1>1, <1>5, LenProperties DEF Begins
    <3> QED BY <1>1, <3>1
  <2>2. ASSUME NEW k \in Nat, k \in C PROVE k + 1 \in C
    <3>1. CASE Len(t) + k + 1 <= Len(s)
      <4> DEFINE j == Len(t) + k
                 u == g[Len(t)]
                 v == g[j]
                 w == g[j + 1]
      <4>1. j \in Nat /\ j + 1 <= Len(s) /\ j <= Len(s) /\ j + 1 = Len(t) + (k + 1) BY <1>1, <3>1
      <4>2. Begins(u, v) BY <2>2, <4>1
      <4>3. s[j + 1] \in X /\ w = IF Artist[s[j + 1]] = Artist[id] THEN v ELSE Append(v, s[j + 1])
        BY <1>4, <4>1
      <4>4. u \in Seq(X) /\ v \in Seq(X) BY <1>1, <1>5, <4>1
      <4> HIDE DEF u, v, w, j
      <4>5. Begins(u, w)
        <5>1. CASE w = v BY <4>2, <5>1
        <5>2. CASE w = Append(v, s[j + 1])
          <6>1. Len(w) = Len(v) + 1 /\ \A i \in 1..Len(v) : w[i] = v[i] BY <4>3, <4>4, <5>2, AppendProperties
          <6>2. Len(u) \in Nat /\ Len(v) \in Nat BY <4>4, LenProperties
          <6> QED BY <4>2, <6>1, <6>2 DEF Begins
        <5> QED BY <4>3, <5>1, <5>2
      <4> QED BY <4>1, <4>5 DEF u, w, j
    <3> QED BY <1>1, <3>1
  <2> HIDE DEF C
  <2> QED BY <2>1, <2>2, UpFromZero
<1>8. OfOthers(t, id) = g[Len(t)] BY <1>1, <1>3, <1>6
<1>9. Begins(g[Len(t)], g[Len(s)])
  <2>1. Len(s) - Len(t) \in C BY <1>1, <1>7
  <2>2. Len(t) + (Len(s) - Len(t)) = Len(s) BY <1>1
  <2> QED BY <1>1, <2>1, <2>2
<1> QED BY <1>1, <1>2, <1>5, <1>8, <1>9

Orders(R, S) ==
  /\ \A a \in S : <<a, a>> \notin R
  /\ \A a, b, c \in S : <<a, b>> \in R /\ <<b, c>> \in R => <<a, c>> \in R
  /\ \A a, b \in S : a = b \/ <<a, b>> \in R \/ <<b, a>> \in R

\* In a finite order every place is taken.
LEMMA PlacesTaken ==
  ASSUME NEW S, IsFiniteSet(S), NEW R, Orders(R, S)
  PROVE  \A k \in 1..Cardinality(S) : \E i \in S : 1 + Cardinality({a \in S : <<a, i>> \in R}) = k
<1> USE DEF Orders
<1> DEFINE above(i) == {a \in S : <<a, i>> \in R}
           place == [i \in S |-> 1 + Cardinality(above(i))]
           n == Cardinality(S)
<1>1. n \in Nat BY FS_CardinalityType
<1>2. ASSUME NEW i \in S
      PROVE  IsFiniteSet(above(i)) /\ Cardinality(above(i)) \in Nat /\ Cardinality(above(i)) < n
  <2>1. above(i) \in SUBSET S /\ i \notin above(i) OBVIOUS
  <2> HIDE DEF above
  <2>2. IsFiniteSet(above(i)) /\ Cardinality(above(i)) \in Nat /\ Cardinality(above(i)) <= n
        /\ Cardinality(above(i)) # n
    BY <1>1, <2>1, FS_Subset, FS_CardinalityType
  <2> QED BY <1>1, <2>2
<1>3. ASSUME NEW a \in S, NEW b \in S, <<a, b>> \in R
      PROVE  place[a] < place[b]
  <2>1. above(a) \in SUBSET above(b) /\ a \in above(b) /\ a \notin above(a) BY <1>3
  <2>2. IsFiniteSet(above(b)) /\ Cardinality(above(a)) \in Nat /\ Cardinality(above(b)) \in Nat BY <1>2
  <2>3. place[a] = 1 + Cardinality(above(a)) /\ place[b] = 1 + Cardinality(above(b)) OBVIOUS
  <2> HIDE DEF above, place
  <2>4. Cardinality(above(a)) <= Cardinality(above(b)) /\ Cardinality(above(a)) # Cardinality(above(b))
    BY <2>1, <2>2, FS_Subset
  <2> QED BY <2>2, <2>3, <2>4
<1>4. place \in [S -> 1..n]
  <2>1. ASSUME NEW i \in S PROVE 1 + Cardinality(above(i)) \in 1..n
    <3>1. Cardinality(above(i)) \in Nat /\ Cardinality(above(i)) < n BY <1>2
    <3> HIDE DEF above
    <3> QED BY <1>1, <3>1
  <2> QED BY <2>1
<1>5. place \in Injection(S, 1..n)
  <2>1. ASSUME NEW a \in S, NEW b \in S, place[a] = place[b] PROVE a = b
    <3>1. place[a] \in Nat /\ place[b] \in Nat BY <1>1, <1>4
    <3> HIDE DEF place
    <3>2. <<a, b>> \notin R /\ <<b, a>> \notin R BY <1>3, <2>1, <3>1
    <3> QED BY <3>2
  <2> HIDE DEF place
  <2> QED BY <1>4, <2>1 DEF Injection, IsInjective
<1>6. place \in Surjection(S, 1..n)
  <2>1. IsFiniteSet(1..n) /\ Cardinality(1..n) = n BY <1>1, FS_Interval
  <2> HIDE DEF place
  <2> QED BY <1>5, <2>1, FS_Injection
<1>7. \A k \in 1..n : \E i \in S : place[i] = k BY <1>6 DEF Surjection
<1> QED BY <1>7

-------------------------------------------------------------------------------
(***************************************************************************)
(* SimilarInv and the neighbours.                                          *)
(***************************************************************************)
LEMMA PointIds == {p.id : p \in Points} = ids
<1>1. \A p \in Points : p.id \in ids BY DEF Points
<1>2. ASSUME NEW i \in ids PROVE \E p \in Points : p.id = i
  <2>1. [id |-> i, gen |-> gen] \in Points BY DEF Points
  <2> QED BY <2>1
<1> QED BY <1>1, <1>2

\* The tracks other than id, the nearest first.
Ranking(S, id) ==
  [k \in 1..Cardinality(S \ {id}) |->
     CHOOSE i \in S \ {id} : 1 + Cardinality({a \in S \ {id} : Nearer(a, i, id)}) = k]

LEMMA NearestFirst ==
  ASSUME NEW S \in SUBSET Ids, NEW id \in Ids
  PROVE  /\ Ranking(S, id) \in Seq(S \ {id})
         /\ \A n : Nearest(S, id, n) = First(Ranking(S, id), n)
<1> DEFINE O == S \ {id}
           R == {p \in O \X O : Nearer(p[1], p[2], id)}
<1>1. IsFiniteSet(O) BY CollectionAssumption, FS_Subset
<1>2. \A a \in O : Cosine[id][a] \in Int /\ a \in Nat BY VectorAssumption, CollectionAssumption
<1>3. \A a, b \in O : <<a, b>> \in R <=> Nearer(a, b, id) OBVIOUS
<1>4. \A a \in O : <<a, a>> \notin R BY <1>2, <1>3 DEF Nearer
<1>5. \A a, b, c \in O : <<a, b>> \in R /\ <<b, c>> \in R => <<a, c>> \in R BY <1>2, <1>3 DEF Nearer
<1>6. ASSUME NEW a \in O, NEW b \in O PROVE a = b \/ <<a, b>> \in R \/ <<b, a>> \in R
  <2>1. Cosine[id][a] \in Int /\ Cosine[id][b] \in Int /\ a \in Nat /\ b \in Nat BY <1>2
  <2> HIDE DEF O, R
  <2> QED BY <1>3, <2>1 DEF Nearer
<1> HIDE DEF O, R
<1>7. \A k \in 1..Cardinality(O) : \E i \in O : 1 + Cardinality({a \in O : <<a, i>> \in R}) = k
  <2>1. Orders(R, O) BY <1>4, <1>5, <1>6 DEF Orders
  <2> QED BY <1>1, <2>1, PlacesTaken
<1>8. \A i \in O : {a \in O : <<a, i>> \in R} = {a \in O : Nearer(a, i, id)} BY <1>3
<1>9. \A k \in 1..Cardinality(O) : \E i \in O : 1 + Cardinality({a \in O : Nearer(a, i, id)}) = k
  BY <1>7, <1>8
<1>10. Cardinality(O) \in Nat BY <1>1, FS_CardinalityType
<1>11. Ranking(S, id) \in [1..Cardinality(O) -> O]
  <2>1. \A k \in 1..Cardinality(O) :
          (CHOOSE i \in O : 1 + Cardinality({a \in O : Nearer(a, i, id)}) = k) \in O
    BY <1>9
  <2> QED BY <2>1 DEF Ranking, O
<1>12. Ranking(S, id) \in Seq(O) BY <1>10, <1>11, SeqDef
<1>13. \A n : Nearest(S, id, n) = First(Ranking(S, id), n) BY DEF Nearest, Ranking
<1> QED BY <1>12, <1>13 DEF O

\* How many neighbours are asked for.
LEMMA EnoughAsked ==
  ASSUME NEW j \in Jobs
  PROVE  /\ j.limit \in Nat /\ Wanted(j) \in Nat /\ Asked(j) \in Nat /\ MaxCandidates \in Nat
         /\ j.limit <= Wanted(j)
         /\ j.exclude => Asked(j) <= MaxCandidates
         /\ ~j.exclude => Asked(j) = Wanted(j)
<1> DEFINE l == j.limit
           c == RerankCandidatesPerResult
<1>1. l \in Nat /\ c \in Nat \ {0} /\ MinRerankCandidates \in Nat /\ MaxCandidates \in Nat
      /\ MinCandidates \in Nat /\ CandidatesPerResult \in Nat
  BY VectorAssumption
<1>2. l * c \in Nat /\ l <= l * c
  <2> HIDE DEF l, c
  <2>1. l * c = l + l * (c - 1) /\ c - 1 \in Nat BY <1>1
  <2>2. l * (c - 1) \in Nat BY <1>1, <2>1
  <2> QED BY <1>1, <2>1, <2>2
<1>3. RerankCandidates(l) \in Nat /\ l <= RerankCandidates(l)
  <2> DEFINE m == l * c
  <2>1. RerankCandidates(l) = Max({m, MinRerankCandidates}) BY DEF RerankCandidates
  <2> HIDE DEF m
  <2>2. m \in Nat /\ l <= m BY <1>2 DEF m
  <2> QED BY <1>1, <2>1, <2>2, TwoOfNat
<1>4. l <= Wanted(j) BY <1>1, <1>3 DEF Wanted
<1>5. \A n \in Nat : Candidates(n) <= MaxCandidates
  <2>1. ASSUME NEW n \in Nat PROVE Candidates(n) <= MaxCandidates
    <3>1. n * CandidatesPerResult \in Nat BY <1>1
    <3>2. Max({n * CandidatesPerResult, MinCandidates}) \in Nat BY <1>1, <3>1, TwoOfNat
    <3> QED BY <1>1, <3>2, TwoOfNat DEF Candidates
  <2> QED BY <2>1
<1> QED BY <1>1, <1>4, <1>5, WantedTyped DEF Asked

\* The neighbours that are kept begin with those that are asked for, with one
\* search or two.
LEMMA KeptIsExact ==
  ASSUME NEW S \in SUBSET Ids, NEW j \in Jobs, j.id \in Ids,
         NEW w, w = Wanted(j),
         NEW c \in {Asked(j)} \cup (IF j.exclude THEN {MaxCandidates} ELSE {}),
         NEW kept,
         kept = (IF j.exclude THEN First(OfOthers(Nearest(S, j.id, c), j.id), w) ELSE Nearest(S, j.id, c)),
         ~j.exclude \/ Len(kept) = w \/ Len(Nearest(S, j.id, c)) < c \/ c = MaxCandidates
  PROVE  kept \in Seq(Ids \ {j.id}) /\ First(kept, j.limit) = Exact(S, j)
<1> DEFINE X    == Ids \ {j.id}
           s    == Ranking(S, j.id)
           near == First(s, c)
           all  == First(s, MaxCandidates)
           l    == j.limit
<1>1. /\ l \in Nat /\ w \in Nat /\ c \in Nat /\ MaxCandidates \in Nat /\ l <= w
      /\ j.exclude => c <= MaxCandidates
      /\ ~j.exclude => c = w
  BY EnoughAsked
<1>2. s \in Seq(X) /\ Nearest(S, j.id, c) = near /\ Nearest(S, j.id, MaxCandidates) = all
      /\ Nearest(S, j.id, l) = First(s, l)
  <2>1. S \ {j.id} \subseteq X OBVIOUS
  <2> QED BY <2>1, NearestFirst, SeqMonotonic
<1> HIDE DEF X, s, l
<1>3. Len(s) \in Nat /\ near \in Seq(X) /\ all \in Seq(X) /\ Begins(near, s)
      /\ Len(near) = (IF c <= Len(s) THEN c ELSE Len(s))
      /\ Len(all) = (IF MaxCandidates <= Len(s) THEN MaxCandidates ELSE Len(s))
      /\ \A i \in 1..Len(all) : all[i] = s[i]
  BY <1>1, <1>2, FirstIs, FirstBegins, LenProperties
<1> HIDE DEF near, all
<1>4. CASE ~j.exclude
  <2>1. kept = near /\ Exact(S, j) = First(s, l) BY <1>2, <1>4 DEF Exact, l
  <2>2. l <= Len(near) \/ Len(near) = Len(s) BY <1>1, <1>3, <1>4
  <2>3. First(near, l) = First(s, l) BY <1>1, <1>2, <1>3, <2>2, BeginningOf
  <2> QED BY <1>3, <2>1, <2>3 DEF X, l
<1>5. CASE j.exclude
  <2> DEFINE some == OfOthers(near, j.id)
             full == OfOthers(all, j.id)
  <2>1. kept = First(some, w) /\ Exact(S, j) = First(full, l) BY <1>2, <1>5 DEF Exact, l
  <2>2. Begins(near, all) BY <1>1, <1>3, <1>5 DEF Begins
  <2>3. /\ some \in Seq(X) /\ full \in Seq(X) /\ Begins(some, full)
        /\ Len(near) = Len(all) => some = full
    BY <1>3, <2>2, OfOthersBegins
  <2> HIDE DEF some, full
  <2>4. kept \in Seq(X) /\ Begins(kept, some) /\ Len(some) \in Nat /\ Len(full) \in Nat
        /\ Len(kept) = (IF w <= Len(some) THEN w ELSE Len(some))
    <3>1. kept \in Seq(X) /\ Len(kept) = (IF w <= Len(some) THEN w ELSE Len(some))
      BY <1>1, <2>1, <2>3, FirstIs
    <3>2. Begins(kept, some) BY <1>1, <2>1, <2>3, FirstBegins
    <3>3. Len(some) \in Nat /\ Len(full) \in Nat BY <2>3, LenProperties
    <3> QED BY <3>1, <3>2, <3>3
  <2>5. First(kept, l) = First(some, l)
    BY <1>1, <2>3, <2>4, BeginningOf
  <2>6. Len(kept) = w => l <= Len(some) BY <1>1, <2>4
  <2>7. Len(near) < c \/ c = MaxCandidates => Len(near) = Len(all) BY <1>1, <1>3, <1>5
  <2>8. l <= Len(some) \/ Len(some) = Len(full) BY <1>2, <1>5, <2>3, <2>6, <2>7
  <2>9. First(some, l) = First(full, l) BY <1>1, <2>3, <2>8, BeginningOf
  <2> QED BY <2>1, <2>4, <2>5, <2>9 DEF X, l
<1> QED BY <1>4, <1>5

SimilarOK(p, j, w, c, f) ==
  /\ p \in {"retrieve", "query", "stats"} =>
       /\ j \in Jobs /\ w = Wanted(j)
       /\ c \in {Asked(j)} \cup IF j.exclude THEN {MaxCandidates} ELSE {}
  /\ p = "stats" =>
       /\ j.id \in Ids /\ f.tracks \in Seq(Ids \ {j.id})
       /\ f = [NoAnswer EXCEPT !.status = 200, !.tracks = f.tracks, !.mode = "rerank_skipped", !.of = f.of]
       /\ First(f.tracks, j.limit) = Exact({q.id : q \in f.of}, j)

LEMMA SimilarParts ==
  SimilarInv <=> \A r \in Requests : SimilarOK(pc[r], job[r], want[r], cands[r], found[r])
BY DEF SimilarInv, SimilarOK

\* One request goes on, the others stay where they are.
LEMMA SimilarAt ==
  ASSUME SimilarInv, NEW r \in Requests,
         SimilarOK(pc'[r], job'[r], want'[r], cands'[r], found'[r]),
         \A q \in Requests \ {r} :
           pc'[q] = pc[q] /\ job'[q] = job[q] /\ want'[q] = want[q] /\ cands'[q] = cands[q] /\ found'[q] = found[q]
  PROVE  SimilarInv'
<1>1. \A q \in Requests : SimilarOK(pc[q], job[q], want[q], cands[q], found[q]) BY SimilarParts
<1>2. \A q \in Requests : SimilarOK(pc'[q], job'[q], want'[q], cands'[q], found'[q]) BY <1>1
<1> QED BY <1>2 DEF SimilarInv, SimilarOK

LEMMA SimilarSame ==
  ASSUME SimilarInv, UNCHANGED <<pc, job, want, cands, found>>
  PROVE  SimilarInv'
BY DEF SimilarInv

LEMMA SimilarReply ==
  ASSUME PartInv, SimilarInv, NEW r \in Requests, NEW a, Reply(r, a)
  PROVE  SimilarInv'
<1>1. pc'[r] = "idle" BY ReplyChanges
<1>2. SimilarOK(pc'[r], job'[r], want'[r], cands'[r], found'[r]) BY <1>1 DEF SimilarOK
<1>3. \A q \in Requests \ {r} :
        pc'[q] = pc[q] /\ job'[q] = job[q] /\ want'[q] = want[q] /\ cands'[q] = cands[q] /\ found'[q] = found[q]
  BY ReplyChanges
<1> QED BY <1>2, <1>3, SimilarAt

LEMMA SimilarArrives ==
  ASSUME PartInv, SimilarInv, NEW r \in Requests, NEW j \in Jobs, Arrive(r, j)
  PROVE  SimilarInv'
<1> DEFINE p == IF j.kind = "search" THEN "lock" ELSE "retrieve"
<1>1. /\ pc'[r] = p /\ job'[r] = j
      /\ p = "retrieve" => want'[r] = Wanted(j) /\ cands'[r] = Asked(j)
      /\ \A q \in Requests \ {r} :
           pc'[q] = pc[q] /\ job'[q] = job[q] /\ want'[q] = want[q] /\ cands'[q] = cands[q] /\ found'[q] = found[q]
  BY DEF Arrive, PartInv, Shape
<1>2. p \in {"lock", "retrieve"} OBVIOUS
<1> HIDE DEF p
<1>3. SimilarOK(pc'[r], job'[r], want'[r], cands'[r], found'[r]) BY <1>1, <1>2 DEF SimilarOK
<1> QED BY <1>1, <1>3, SimilarAt

\* What the query's answer means, whichever way the request goes on.
LEMMA QueryFinds ==
  ASSUME PartInv, SimilarInv, NEW r \in Requests, QueryAnswers(r),
         Enough(r, Nearest(ids, job[r].id, cands[r]))
  PROVE  LET kept == Kept(r, Nearest(ids, job[r].id, cands[r]))
         IN  /\ job[r] \in Jobs /\ job[r].id \in Ids
             /\ kept \in Seq(Ids \ {job[r].id})
             /\ First(kept, job[r].limit) = Exact(ids, job[r])
<1> DEFINE near == Nearest(ids, job[r].id, cands[r])
           kept == Kept(r, near)
<1>1. pc[r] = "query" /\ job[r].id \in ids BY DEF QueryAnswers
<1>2. SimilarOK(pc[r], job[r], want[r], cands[r], found[r]) BY SimilarParts
<1>3. /\ job[r] \in Jobs /\ want[r] = Wanted(job[r])
      /\ cands[r] \in {Asked(job[r])} \cup IF job[r].exclude THEN {MaxCandidates} ELSE {}
  BY <1>1, <1>2 DEF SimilarOK
<1>4. ids \in SUBSET Ids /\ job[r].id \in Ids BY <1>1, TablesTyped
<1>5. kept = IF job[r].exclude THEN First(OfOthers(near, job[r].id), want[r]) ELSE near BY DEF Kept
<1>6. ~job[r].exclude \/ Len(kept) = want[r] \/ Len(near) < cands[r] \/ cands[r] = MaxCandidates
  BY DEF Enough
<1> HIDE DEF kept
<1>7. kept \in Seq(Ids \ {job[r].id}) /\ First(kept, job[r].limit) = Exact(ids, job[r])
  BY <1>3, <1>4, <1>5, <1>6, KeptIsExact
<1> QED BY <1>3, <1>4, <1>7 DEF kept

LEMMA SimilarQuery ==
  ASSUME PartInv, SimilarInv, NEW r \in Requests, QueryAnswers(r)
  PROVE  SimilarInv'
<1> DEFINE near == Nearest(ids, job[r].id, cands[r])
           kept == Kept(r, near)
<1>1. pc[r] = "query" BY DEF QueryAnswers
<1>2. SimilarOK(pc[r], job[r], want[r], cands[r], found[r]) BY SimilarParts
<1>3. job[r] \in Jobs /\ want[r] = Wanted(job[r]) BY <1>1, <1>2 DEF SimilarOK
<1>4. CASE ~Enough(r, near)
  <2>1. /\ pc'[r] = "retrieve" /\ cands'[r] = MaxCandidates /\ job'[r] = job[r] /\ want'[r] = want[r]
        /\ \A q \in Requests \ {r} :
             pc'[q] = pc[q] /\ job'[q] = job[q] /\ want'[q] = want[q] /\ cands'[q] = cands[q] /\ found'[q] = found[q]
    BY <1>4 DEF QueryAnswers, PartInv, Shape
  <2>2. job[r].exclude BY <1>4 DEF Enough
  <2>3. SimilarOK(pc'[r], job'[r], want'[r], cands'[r], found'[r]) BY <1>3, <2>1, <2>2 DEF SimilarOK
  <2> QED BY <2>1, <2>3, SimilarAt
<1>5. CASE Enough(r, near) /\ Reranks(job[r])
  <2> DEFINE f == [Neighbors(r, near, "rerank_skipped") EXCEPT !.tracks = kept]
  <2>1. /\ pc'[r] = "stats" /\ cands'[r] = cands[r] /\ job'[r] = job[r] /\ want'[r] = want[r]
        /\ found'[r] = f
        /\ \A q \in Requests \ {r} :
             pc'[q] = pc[q] /\ job'[q] = job[q] /\ want'[q] = want[q] /\ cands'[q] = cands[q] /\ found'[q] = found[q]
    BY <1>5 DEF QueryAnswers, PartInv, Shape
  <2>2. /\ job[r].id \in Ids /\ kept \in Seq(Ids \ {job[r].id})
        /\ First(kept, job[r].limit) = Exact(ids, job[r])
    BY <1>5, QueryFinds
  <2> HIDE DEF near, kept
  <2>3. f = [NoAnswer EXCEPT !.status = 200, !.tracks = kept, !.mode = "rerank_skipped", !.of = Points]
    BY DEF Neighbors, NoAnswer
  <2>4. f.tracks = kept /\ f.of = Points BY <2>3 DEF NoAnswer
  <2> HIDE DEF f
  <2>5. SimilarOK(pc'[r], job'[r], want'[r], cands'[r], found'[r])
    <3>1. First(f.tracks, job[r].limit) = Exact({q.id : q \in f.of}, job[r]) BY <2>2, <2>4, PointIds
    <3> QED BY <1>1, <1>2, <1>3, <2>1, <2>2, <2>3, <2>4, <3>1 DEF SimilarOK
  <2> QED BY <2>1, <2>5, SimilarAt
<1>6. CASE Enough(r, near) /\ ~Reranks(job[r])
  <2>1. \E a : Reply(r, a) BY <1>6 DEF QueryAnswers
  <2> QED BY <2>1, SimilarReply
<1> QED BY <1>4, <1>5, <1>6

LEMMA SimilarStep ==
  ASSUME PartInv, SimilarInv, [Next]_vars
  PROVE  SimilarInv'
<1>1. CASE UNCHANGED vars \/ PipelineStep \/ Tick
  BY <1>1, SimilarSame DEF vars, reqVars, PipelineStep, Tick
<1>2. ASSUME NEW r \in Requests, NEW j \in Jobs, Arrive(r, j) PROVE SimilarInv' BY <1>2, SimilarArrives
<1>3. ASSUME NEW r \in Requests, BeginScroll(r) PROVE SimilarInv'
  <2>1. /\ pc' = [pc EXCEPT ![r] = "scroll"] /\ UNCHANGED <<job, want, cands, found>>
    BY <1>3 DEF BeginScroll
  <2>2. pc'[r] = "scroll" /\ \A q \in Requests \ {r} : pc'[q] = pc[q] BY <2>1 DEF PartInv, Shape
  <2>3. SimilarOK(pc'[r], job'[r], want'[r], cands'[r], found'[r]) BY <2>2 DEF SimilarOK
  <2> QED BY <2>1, <2>2, <2>3, SimilarAt
<1>4. ASSUME NEW r \in Requests, ScrollPage(r) PROVE SimilarInv'
  <2> DEFINE points == scan.points \cup {p \in Points : p.id \in Page(scan.offset)}
             next   == NextOffset(scan.offset)
  <2>1. CASE next = 0 \/ Cardinality(points) >= MaxCatalogSize
    <3>1. \E a : Reply(r, a) BY <1>4, <2>1 DEF ScrollPage
    <3> QED BY <3>1, SimilarReply
  <2>2. CASE ~(next = 0 \/ Cardinality(points) >= MaxCatalogSize)
    <3>1. UNCHANGED <<pc, job, want, cands, found>> BY <1>4, <2>2 DEF ScrollPage
    <3> QED BY <3>1, SimilarSame
  <2> QED BY <2>1, <2>2
<1>5. ASSUME NEW r \in Requests, RetrieveAnswers(r) PROVE SimilarInv'
  <2>1. CASE job[r].id \in ids
    <3>1. /\ pc[r] = "retrieve" /\ pc' = [pc EXCEPT ![r] = "query"] /\ UNCHANGED <<job, want, cands, found>>
      BY <1>5, <2>1 DEF RetrieveAnswers
    <3>2. pc'[r] = "query" /\ \A q \in Requests \ {r} : pc'[q] = pc[q] BY <3>1 DEF PartInv, Shape
    <3>3. SimilarOK(pc[r], job[r], want[r], cands[r], found[r]) BY SimilarParts
    <3>4. SimilarOK(pc'[r], job'[r], want'[r], cands'[r], found'[r]) BY <3>1, <3>2, <3>3 DEF SimilarOK
    <3> QED BY <3>1, <3>2, <3>4, SimilarAt
  <2>2. CASE job[r].id \notin ids
    <3>1. Reply(r, Failed(404)) BY <1>5, <2>2 DEF RetrieveAnswers
    <3> QED BY <3>1, SimilarReply
  <2> QED BY <2>1, <2>2
<1>6. ASSUME NEW r \in Requests, QueryAnswers(r) PROVE SimilarInv' BY <1>6, SimilarQuery
<1>7. ASSUME NEW r \in Requests,
             UseCatalog(r) \/ ScrollFails(r) \/ PostFails(r) \/ StatsAnswers(r) \/ StatsFail(r)
      PROVE  SimilarInv'
  <2>1. \E a : Reply(r, a)
    <3>1. CASE ScrollFails(r)
      <4>1. CASE catalog # {} BY <3>1, <4>1 DEF ScrollFails
      <4>2. CASE catalog = {} BY <3>1, <4>2 DEF ScrollFails
      <4> QED BY <4>1, <4>2
    <3>2. CASE UseCatalog(r) \/ PostFails(r) BY <3>2 DEF UseCatalog, PostFails
    <3>3. CASE StatsAnswers(r) \/ StatsFail(r) BY <3>3, StatsAnswerIs, StatsFailIs
    <3> QED BY <1>7, <3>1, <3>2, <3>3
  <2> QED BY <2>1, SimilarReply
<1>8. ASSUME NEW r \in Requests, ClientLeaves(r) PROVE SimilarInv'
  BY <1>8, SimilarSame DEF ClientLeaves
<1> QED BY <1>1, <1>2, <1>3, <1>4, <1>5, <1>6, <1>7, <1>8 DEF Next

-------------------------------------------------------------------------------
(***************************************************************************)
(* NeighborsExact.  Only the answers to similar requests that were not     *)
(* reranked have something to show; only a request of its own may take     *)
(* another one out of the wait for the statistics.                         *)
(***************************************************************************)
Plain(a) == a.mode \in {"plain", "rerank_skipped"} => a.tracks = Exact({p.id : p \in a.of}, a.to)

Ends == \A r \in Requests : pc[r] = "stats" /\ pc'[r] = "idle" => answer'.status = 200 \/ gone[r]

\* A step of a request that does not wait for the statistics ends no other one.
LEMMA EndsOther ==
  ASSUME NEW r \in Requests, pc[r] # "stats" \/ pc'[r] # "idle" \/ answer'.status = 200 \/ gone[r],
         \A q \in Requests \ {r} : pc'[q] = pc[q]
  PROVE  Ends
BY DEF Ends

LEMMA ReplyTo ==
  ASSUME PartInv, NEW r \in Requests, NEW a, Reply(r, a)
  PROVE  answer' = [a EXCEPT !.to = job[r]] /\ \A q \in Requests \ {r} : pc'[q] = pc[q]
BY ReplyChanges DEF Reply

LEMMA QueryExact ==
  ASSUME PartInv, SimilarInv, NEW r \in Requests, QueryAnswers(r)
  PROVE  Plain(answer') /\ Ends
<1> DEFINE near == Nearest(ids, job[r].id, cands[r])
           kept == Kept(r, near)
<1>1. pc[r] = "query" BY DEF QueryAnswers
<1>2. CASE ~Enough(r, near)
  <2>1. answer' = NoAnswer /\ \A q \in Requests \ {r} : pc'[q] = pc[q]
    BY <1>2 DEF QueryAnswers, PartInv, Shape
  <2> QED BY <1>1, <2>1, EndsOther DEF Plain, NoAnswer
<1>3. CASE Enough(r, near) /\ Reranks(job[r])
  <2>1. answer' = NoAnswer /\ \A q \in Requests \ {r} : pc'[q] = pc[q]
    BY <1>3 DEF QueryAnswers, PartInv, Shape
  <2> QED BY <1>1, <2>1, EndsOther DEF Plain, NoAnswer
<1>4. CASE Enough(r, near) /\ ~Reranks(job[r])
  <2> DEFINE mode == IF job[r].rerank THEN "rerank_skipped" ELSE "plain"
             first == First(kept, job[r].limit)
  <2>1. Reply(r, Neighbors(r, kept, mode)) BY <1>4 DEF QueryAnswers
  <2>2. answer' = [Neighbors(r, kept, mode) EXCEPT !.to = job[r]] /\ \A q \in Requests \ {r} : pc'[q] = pc[q]
    BY <2>1, ReplyTo
  <2>3. first = Exact(ids, job[r]) BY <1>4, QueryFinds
  <2>4. Neighbors(r, kept, mode) = [NoAnswer EXCEPT !.status = 200, !.tracks = first, !.mode = mode, !.of = Points]
    BY DEF Neighbors
  <2> HIDE DEF kept, mode, first
  <2>5. answer'.tracks = first /\ answer'.of = Points /\ answer'.to = job[r] BY <2>2, <2>4 DEF NoAnswer
  <2>6. Plain(answer') BY <2>3, <2>5, PointIds DEF Plain
  <2> QED BY <1>1, <2>2, <2>6, EndsOther
<1> QED BY <1>2, <1>3, <1>4

LEMMA StatsExact ==
  ASSUME PartInv, SimilarInv, NEW r \in Requests, StatsAnswers(r) \/ StatsFail(r)
  PROVE  Plain(answer') /\ Ends
<1>1. \A q \in Requests \ {r} : pc'[q] = pc[q] BY StatsAnswerIs, StatsFailIs, ReplyTo
<1>2. CASE StatsAnswers(r)
  <2>1. answer'.mode = "reranked" /\ answer'.status = 200 BY <1>2, StatsAnswerIs
  <2> QED BY <1>1, <2>1, EndsOther DEF Plain
<1>3. CASE StatsFail(r)
  <2>1. SimilarOK(pc[r], job[r], want[r], cands[r], found[r]) /\ pc[r] = "stats"
    BY <1>3, SimilarParts DEF StatsFail
  <2>2. First(found[r].tracks, job[r].limit) = Exact({q.id : q \in found[r].of}, job[r])
    BY <2>1 DEF SimilarOK
  <2>3. CASE gone[r] BY <1>1, <1>3, <2>3, StatsFailIs, EndsOther DEF Plain
  <2>4. CASE ~gone[r]
    <3>1. /\ answer'.status = 200 /\ answer'.to = job[r] /\ answer'.of = found[r].of
          /\ answer'.tracks = First(found[r].tracks, job[r].limit)
      BY <1>3, <2>4, StatsFailIs
    <3> QED BY <1>1, <2>2, <3>1, EndsOther DEF Plain
  <2> QED BY <2>3, <2>4
<1> QED BY <1>2, <1>3

LEMMA ExactStep ==
  ASSUME PartInv, SimilarInv, Next
  PROVE  Plain(answer') /\ Ends
<1>1. ASSUME NEW r \in Requests, NEW j \in Jobs, Arrive(r, j) PROVE Plain(answer') /\ Ends
  <2>1. pc[r] = "idle" /\ answer' = NoAnswer /\ \A q \in Requests \ {r} : pc'[q] = pc[q]
    BY <1>1 DEF Arrive, PartInv, Shape
  <2> QED BY <2>1, EndsOther DEF Plain, NoAnswer
<1>2. ASSUME NEW r \in Requests, BeginScroll(r) \/ ClientLeaves(r) PROVE Plain(answer') /\ Ends
  <2>1. /\ answer' = NoAnswer /\ (pc[r] # "stats" \/ pc'[r] # "idle")
        /\ \A q \in Requests \ {r} : pc'[q] = pc[q]
    BY <1>2 DEF BeginScroll, Turn, ClientLeaves, PartInv, Shape
  <2> QED BY <2>1, EndsOther DEF Plain, NoAnswer
<1>3. ASSUME NEW r \in Requests, NEW points, Reply(r, Found(r, points)), pc[r] # "stats"
      PROVE  Plain(answer') /\ Ends
  <2> DEFINE a == Found(r, points)
  <2>1. answer' = [a EXCEPT !.to = job[r]] /\ \A q \in Requests \ {r} : pc'[q] = pc[q] BY <1>3, ReplyTo
  <2>2. answer'.mode = "search" BY <2>1 DEF Found, NoAnswer
  <2> QED BY <1>3, <2>1, <2>2, EndsOther DEF Plain
<1>4. ASSUME NEW r \in Requests, NEW n, Reply(r, Failed(n)), pc[r] # "stats"
      PROVE  Plain(answer') /\ Ends
  <2>1. answer' = [Failed(n) EXCEPT !.to = job[r]] /\ \A q \in Requests \ {r} : pc'[q] = pc[q] BY <1>4, ReplyTo
  <2>2. answer'.mode = "none" BY <2>1 DEF Failed, NoAnswer
  <2> QED BY <1>4, <2>1, <2>2, EndsOther DEF Plain
<1>5. ASSUME NEW r \in Requests, UseCatalog(r) PROVE Plain(answer') /\ Ends
  BY <1>3, <1>5 DEF UseCatalog, Turn
<1>6. ASSUME NEW r \in Requests, ScrollPage(r) PROVE Plain(answer') /\ Ends
  <2> DEFINE points == scan.points \cup {p \in Points : p.id \in Page(scan.offset)}
             next   == NextOffset(scan.offset)
  <2>1. pc[r] = "scroll" BY <1>6 DEF ScrollPage
  <2>2. CASE next = 0 \/ Cardinality(points) >= MaxCatalogSize
    <3>1. Reply(r, Found(r, points)) BY <1>6, <2>2 DEF ScrollPage
    <3> QED BY <1>3, <2>1, <3>1
  <2>3. CASE ~(next = 0 \/ Cardinality(points) >= MaxCatalogSize)
    <3>1. pc' = pc /\ answer' = NoAnswer BY <1>6, <2>3 DEF ScrollPage
    <3> QED BY <2>1, <3>1, EndsOther DEF Plain, NoAnswer
  <2> QED BY <2>2, <2>3
<1>7. ASSUME NEW r \in Requests, ScrollFails(r) PROVE Plain(answer') /\ Ends
  <2>1. pc[r] = "scroll" BY <1>7 DEF ScrollFails
  <2>2. CASE catalog # {}
    <3>1. Reply(r, Found(r, catalog)) BY <1>7, <2>2 DEF ScrollFails
    <3> QED BY <1>3, <2>1, <3>1
  <2>3. CASE catalog = {}
    <3>1. Reply(r, Failed(IF gone[r] THEN 499 ELSE 502)) BY <1>7, <2>3 DEF ScrollFails, Unavailable
    <3> QED BY <1>4, <2>1, <3>1
  <2> QED BY <2>2, <2>3
<1>8. ASSUME NEW r \in Requests, RetrieveAnswers(r) PROVE Plain(answer') /\ Ends
  <2>1. pc[r] = "retrieve" BY <1>8 DEF RetrieveAnswers
  <2>2. CASE job[r].id \in ids
    <3>1. answer' = NoAnswer /\ \A q \in Requests \ {r} : pc'[q] = pc[q]
      BY <1>8, <2>2 DEF RetrieveAnswers, PartInv, Shape
    <3> QED BY <2>1, <3>1, EndsOther DEF Plain, NoAnswer
  <2>3. CASE job[r].id \notin ids
    <3>1. Reply(r, Failed(404)) BY <1>8, <2>3 DEF RetrieveAnswers
    <3> QED BY <1>4, <2>1, <3>1
  <2> QED BY <2>2, <2>3
<1>9. ASSUME NEW r \in Requests, PostFails(r) PROVE Plain(answer') /\ Ends
  <2>1. pc[r] # "stats" /\ Reply(r, Failed(IF gone[r] THEN 499 ELSE 502)) BY <1>9 DEF PostFails, Unavailable
  <2> QED BY <1>4, <2>1
<1>10. ASSUME NEW r \in Requests, QueryAnswers(r) PROVE Plain(answer') /\ Ends BY <1>10, QueryExact
<1>11. ASSUME NEW r \in Requests, StatsAnswers(r) \/ StatsFail(r) PROVE Plain(answer') /\ Ends
  BY <1>11, StatsExact
<1>12. CASE PipelineStep \/ Tick
  <2>1. answer' = NoAnswer /\ pc' = pc BY <1>12 DEF PipelineStep, Tick, reqVars
  <2> QED BY <2>1 DEF Plain, Ends, NoAnswer
<1> QED BY <1>1, <1>2, <1>5, <1>6, <1>7, <1>8, <1>9, <1>10, <1>11, <1>12 DEF Next

-------------------------------------------------------------------------------
LEMMA BeginAll ==
  ASSUME Init
  PROVE  PartInv /\ CopyInv /\ SimilarInv
<1>1. pc = [r \in Requests |-> "idle"] /\ catalog = {} /\ refreshAt = 0 /\ dueBy = 0 /\ answer = NoAnswer
  BY DEF Init
<1>2. \A r \in Requests : pc[r] = "idle" BY <1>1
<1>3. CopyInv BY <1>1, <1>2 DEF CopyInv, RerunShowsUp, NoAnswer
<1>4. SimilarInv BY <1>2 DEF SimilarInv
<1> QED BY <1>3, <1>4, Begin

(***************************************************************************)
(* The invariant holds for every number of requests, tracks, pages and     *)
(* runs of the pipeline and for all delays: who waits for whom, what the   *)
(* copy of the collection may still be, what a similar request has found.  *)
(***************************************************************************)
THEOREM VectorsInvariant == Spec => []IInv
<1> DEFINE Inv == PartInv /\ CopyInv /\ SimilarInv
<1>1. Init => Inv BY BeginAll
<1>2. Inv /\ [Next]_vars => Inv' BY Step, CopyStep, SimilarStep
<1>3. Inv => IInv BY PartsAreMutexInv DEF IInv
<1> HIDE DEF Inv
<1> QED BY <1>1, <1>2, <1>3, PTL DEF Spec

(***************************************************************************)
(* Nobody waits past its own deadline and that of the last that overtook   *)
(* it, however many wait for the mutex behind the refresh of one of them   *)
(* and whichever of them gets it next.                                     *)
(***************************************************************************)
THEOREM VectorsAnsweredInTime == Spec => []AnsweredInTime
<1>1. IInv => AnsweredInTime BY DEF IInv, MutexInv
<1> QED BY <1>1, VectorsInvariant, PTL

(***************************************************************************)
(* A search sees a replaced collection, whole, once the copy's lifetime    *)
(* and a refresh have passed, however the pages, the batches and failures  *)
(* interleave; as long as the collection fits the copy, whose cap is there *)
(* for collections "much larger than expected".                            *)
(***************************************************************************)
THEOREM VectorsRerunShowsUp ==
  ASSUME Cardinality(Ids) <= MaxCatalogSize
  PROVE  Spec => []RerunShowsUp
<1>1. IInv => RerunShowsUp BY DEF IInv, CopyInv
<1> QED BY <1>1, VectorsInvariant, PTL

(***************************************************************************)
(* A similar request gives the nearest tracks it is asked for, of other    *)
(* artists if so asked, with one search or two, with the statistics or     *)
(* without them, for every collection and every choice of the candidates.  *)
(***************************************************************************)
THEOREM VectorsNeighborsExact == Spec => NeighborsExact
<1>1. ASSUME IInv, [Next]_vars
      PROVE  [LET a == answer'
              IN  /\ a.mode \in {"plain", "rerank_skipped"} => a.tracks = Exact({p.id : p \in a.of}, a.to)
                  /\ \A r \in Requests :
                       pc[r] = "stats" /\ pc'[r] = "idle" => a.status = 200 \/ gone[r]]_vars
  <2>1. PartInv /\ SimilarInv BY <1>1, PartsAreMutexInv DEF IInv
  <2>2. CASE Next
    <3>1. Plain(answer') /\ Ends BY <2>1, <2>2, ExactStep
    <3> QED BY <3>1 DEF Plain, Ends
  <2>3. CASE UNCHANGED vars BY <2>3
  <2> QED BY <1>1, <2>2, <2>3
<1> QED BY <1>1, VectorsInvariant, PTL DEF Spec, NeighborsExact

-------------------------------------------------------------------------------
(***************************************************************************)
(* Reranking.  The average is a fold of fractions over the candidates that *)
(* have been played, in an order nobody knows: what one more skip changes  *)
(* of it is shown by induction over the sets it is folded over.            *)
(***************************************************************************)
Chosen(T) == CHOOSE x \in T : TRUE

\* Induction over the subsets of a finite set.
LEMMA OneByOne ==
  ASSUME NEW S, IsFiniteSet(S), NEW G, {} \in G,
         \A T \in SUBSET S : T # {} /\ T \ {Chosen(T)} \in G => T \in G
  PROVE  S \in G
<1> DEFINE N == {n \in Nat : \A T \in SUBSET S : Cardinality(T) = n => T \in G}
<1>1. \A T \in SUBSET S : IsFiniteSet(T) /\ Cardinality(T) \in Nat BY FS_Subset, FS_CardinalityType
<1>2. 0 \in N
  <2>1. \A T \in SUBSET S : Cardinality(T) = 0 => T = {} BY <1>1, FS_EmptySet
  <2> QED BY <2>1
<1>3. ASSUME NEW n \in Nat, n \in N PROVE n + 1 \in N
  <2>1. ASSUME NEW T \in SUBSET S, Cardinality(T) = n + 1 PROVE T \in G
    <3>1. T # {} BY <2>1, FS_EmptySet
    <3>2. Chosen(T) \in T BY <3>1 DEF Chosen
    <3>3. Cardinality(T \ {Chosen(T)}) = n BY <1>1, <2>1, <3>2, FS_RemoveElement
    <3>4. T \ {Chosen(T)} \in SUBSET S OBVIOUS
    <3> QED BY <1>3, <3>1, <3>3, <3>4
  <2> QED BY <2>1
<1> HIDE DEF N
<1>4. \A n \in Nat : n \in N BY <1>2, <1>3, UpFromZero
<1> QED BY <1>1, <1>4 DEF N

Fractions == [num : Int, den : Int]

\* The sums of the rates of the subsets of P.
IsRateSum(f, rate, P) ==
  /\ f \in [SUBSET P -> Fractions] /\ f[{}] = Fraction(0, 1)
  /\ \A T \in SUBSET P : T # {} =>
       Chosen(T) \in T /\ f[T] = Plus(rate[Chosen(T)], f[T \ {Chosen(T)}])

LEMMA PlusTyped ==
  ASSUME NEW p \in Fractions, NEW q \in Fractions
  PROVE  /\ Plus(p, q) \in Fractions
         /\ Plus(p, q).num = p.num * q.den + q.num * p.den
         /\ Plus(p, q).den = p.den * q.den
BY DEF Plus, Fraction, Fractions

AreRates(rate, S, stats, P) ==
  /\ P = Played(S, stats) /\ IsFiniteSet(P) /\ P # {}
  /\ rate \in [P -> Fractions] /\ \A c \in P : rate[c] = RawKeepRate(stats[c.id])

LEMMA RateSumIs ==
  ASSUME NEW S, NEW stats, NEW P, NEW rate, AreRates(rate, S, stats, P)
  PROVE  \E f : IsRateSum(f, rate, P) /\
           AverageKeepRate(S, stats) = Fraction(f[P].num, f[P].den * Cardinality(P))
<1> USE DEF AreRates
<1> DEFINE zero == Fraction(0, 1)
           pick == [T \in SUBSET P |-> Chosen(T)]
           op == [p \in P \X Fractions |-> Plus(rate[p[1]], p[2])]
           Sums(iter) == [s \in SUBSET P |->
             IF s = {} THEN zero
             ELSE Plus(RawKeepRate(stats[(CHOOSE x \in s : TRUE).id]), iter[s \ {CHOOSE x \in s : TRUE}])]
           it == CHOOSE iter : iter = Sums(iter)
<1>1. AverageKeepRate(S, stats) = Fraction(it[P].num, it[P].den * Cardinality(P))
  BY DEF AverageKeepRate, FoldSet, MapThenFoldSet
<1>2. \A T \in SUBSET P : T # {} => Chosen(T) \in T BY DEF Chosen
<1>3. CanFold(P, Fractions, zero, pick, op)
  <2>1. \A T \in SUBSET P : T # {} => pick[T] \in T BY <1>2
  <2>2. ASSUME NEW x \in P, NEW v \in Fractions PROVE op[<<x, v>>] \in Fractions
    <3>1. Plus(rate[x], v) \in Fractions BY PlusTyped
    <3> QED BY <3>1
  <2>3. zero \in Fractions BY DEF Fraction, Fractions
  <2> HIDE DEF pick, op, zero
  <2> QED BY <2>1, <2>2, <2>3 DEF CanFold
<1>4. PICK f : IsFold(f, P, Fractions, zero, pick, op)
  <2> HIDE DEF pick, op, zero
  <2> QED BY <1>3, FoldDefined
<1>5. f \in [SUBSET P -> Fractions] /\ f[{}] = zero BY <1>4 DEF IsFold
<1>6. ASSUME NEW T \in SUBSET P, T # {}
      PROVE  Chosen(T) \in T /\ f[T] = Plus(rate[Chosen(T)], f[T \ {Chosen(T)}])
  <2>1. pick[T] = Chosen(T) /\ Chosen(T) \in P /\ f[T \ {Chosen(T)}] \in Fractions BY <1>2, <1>5, <1>6
  <2>2. f[T] = op[<<Chosen(T), f[T \ {Chosen(T)}]>>]
    <3> HIDE DEF op
    <3> QED BY <1>4, <1>6, <2>1 DEF IsFold
  <2> QED BY <1>2, <1>6, <2>1, <2>2
<1>7. f = Sums(f)
  <2>1. ASSUME NEW T \in SUBSET P
        PROVE  f[T] = IF T = {} THEN zero
                      ELSE Plus(RawKeepRate(stats[(CHOOSE x \in T : TRUE).id]), f[T \ {CHOOSE x \in T : TRUE}])
    <3>1. CASE T = {} BY <1>5, <3>1
    <3>2. CASE T # {}
      <4>1. rate[Chosen(T)] = RawKeepRate(stats[Chosen(T).id]) BY <1>6, <3>2
      <4> QED BY <1>6, <3>2, <4>1 DEF Chosen
    <3> QED BY <3>1, <3>2
  <2> HIDE DEF zero
  <2> QED BY <1>5, <2>1
<1>8. it = Sums(it)
  <2> HIDE DEF Sums
  <2> QED BY <1>7
<1> HIDE DEF it
<1>9. it[P] = f[P]
  <2> DEFINE G == {T \in SUBSET P : it[T] = f[T]}
  <2>1. {} \in G BY <1>5, <1>8
  <2>2. ASSUME NEW T \in SUBSET P, T # {}, T \ {Chosen(T)} \in G PROVE T \in G
    <3>1. it[T] = Plus(RawKeepRate(stats[Chosen(T).id]), it[T \ {Chosen(T)}])
      <4> HIDE DEF zero
      <4> QED BY <1>8, <2>2 DEF Chosen
    <3>2. f[T] = Plus(RawKeepRate(stats[Chosen(T).id]), f[T \ {Chosen(T)}]) BY <1>6, <2>2
    <3> QED BY <2>2, <3>1, <3>2
  <2> HIDE DEF G
  <2>3. P \in G BY <2>1, <2>2, OneByOne
  <2> QED BY <2>3 DEF G
<1>10. IsRateSum(f, rate, P) BY <1>5, <1>6 DEF IsRateSum
<1> QED BY <1>1, <1>9, <1>10

\* Plays and keeps of the candidates that have been played.
Counts(S, stats, P, p, k) ==
  /\ P = Played(S, stats) /\ p \in [P -> Int] /\ k \in [P -> Int]
  /\ \A c \in P : /\ p[c] > 0
                  /\ stats[c.id].plays = p[c] /\ Keeps(stats[c.id]) = k[c]
                  /\ RawKeepRate(stats[c.id]) = Fraction(k[c], p[c])

\* d more skips of a in g than in f: what the sums over a set lose by it.
Loses(f, g, T, a, m, d) ==
  /\ f[T].num \in Int /\ f[T].den \in Int /\ g[T].num \in Int
  /\ f[T].den > 0 /\ g[T].den = f[T].den
  /\ (f[T].num - g[T].num) * m = IF a \in T THEN d * f[T].den ELSE 0

LEMMA AddOther ==
  ASSUME NEW x \in Int, NEW y \in Int, NEW e \in Int, NEW r \in Int, NEW s \in Int, NEW m \in Int, NEW z \in Int,
         (x - y) * m = z
  PROVE  ((r * e + x * s) - (r * e + y * s)) * m = z * s
<1>1. ((r * e + x * s) - (r * e + y * s)) * m = ((x - y) * m) * s OBVIOUS
<1> QED BY <1>1

LEMMA AddItself ==
  ASSUME NEW x \in Int, NEW e \in Int, NEW r \in Int, NEW d \in Int, NEW m \in Int
  PROVE  ((r * e + x * m) - ((r - d) * e + x * m)) * m = d * (m * e)
OBVIOUS

LEMMA NoLoss ==
  ASSUME NEW x \in Int, NEW y \in Int, NEW m \in Int, m > 0, (x - y) * m = 0
  PROVE  x = y
<1>1. ASSUME NEW z \in Int, z * m = 0 PROVE z = 0 BY <1>1
<1>2. x - y \in Int OBVIOUS
<1>3. x - y = 0 BY <1>1, <1>2
<1> QED BY <1>3

LEMMA Positive ==
  ASSUME NEW x \in Int, NEW y \in Int, x > 0, y > 0
  PROVE  x * y \in Int /\ x * y > 0
OBVIOUS

LEMMA SumsLose ==
  ASSUME NEW P, IsFiniteSet(P), NEW p \in [P -> Int], NEW k \in [P -> Int], NEW l \in [P -> Int],
         \A c \in P : p[c] > 0, NEW a, NEW m \in Int, m > 0, NEW d \in Int,
         \A c \in P : c # a => l[c] = k[c], a \in P => p[a] = m /\ l[a] = k[a] - d,
         NEW f, IsRateSum(f, [c \in P |-> Fraction(k[c], p[c])], P),
         NEW g, IsRateSum(g, [c \in P |-> Fraction(l[c], p[c])], P)
  PROVE  Loses(f, g, P, a, m, d)
<1> DEFINE G == {T \in SUBSET P : Loses(f, g, T, a, m, d)}
<1>1. {} \in G
  <2>1. f[{}] = Fraction(0, 1) /\ g[{}] = Fraction(0, 1) BY DEF IsRateSum
  <2>2. (0 - 0) * m = 0 OBVIOUS
  <2> QED BY <2>1, <2>2 DEF Loses, Fraction
<1>2. ASSUME NEW T \in SUBSET P, T # {}, T \ {Chosen(T)} \in G PROVE T \in G
  <2> DEFINE c == Chosen(T)
             U == T \ {c}
             x == f[U].num
             y == g[U].num
             e == f[U].den
             s == p[c]
             r == k[c]
             v == l[c]
             z == IF a \in U THEN d * e ELSE 0
  <2>1. c \in T /\ c \in P /\ U \in SUBSET P BY <1>2 DEF IsRateSum
  <2>2. f[U] \in Fractions /\ g[U] \in Fractions BY <2>1 DEF IsRateSum
  <2>3. Fraction(r, s) \in Fractions /\ Fraction(v, s) \in Fractions BY <2>1 DEF Fraction, Fractions
  <2>4. f[T] = Plus(Fraction(r, s), f[U]) /\ g[T] = Plus(Fraction(v, s), g[U])
    BY <1>2, <2>1 DEF IsRateSum
  <2>5. /\ f[T].num = r * e + x * s /\ f[T].den = s * e
        /\ g[T].num = v * g[U].den + y * s /\ g[T].den = s * g[U].den
    BY <2>2, <2>3, <2>4, PlusTyped DEF Fraction
  <2>6. /\ x \in Int /\ y \in Int /\ e \in Int /\ e > 0 /\ g[U].den = e /\ (x - y) * m = z
        /\ s \in Int /\ s > 0 /\ r \in Int /\ v \in Int
    BY <1>2, <2>1 DEF Loses
  <2>7. f[T].den \in Int /\ f[T].den > 0 /\ g[T].den = f[T].den
    <3> HIDE DEF s, e
    <3> QED BY <2>5, <2>6, Positive
  <2>8. f[T].num = r * e + x * s /\ g[T].num = v * e + y * s BY <2>5, <2>6
  <2>9. f[T].num \in Int /\ g[T].num \in Int
    <3> HIDE DEF r, e, x, s, v, y
    <3> QED BY <2>6, <2>8
  <2>10. (f[T].num - g[T].num) * m = IF a \in T THEN d * f[T].den ELSE 0
    <3>1. CASE c # a
      <4>1. v = r /\ (a \in T <=> a \in U) BY <2>1, <3>1
      <4> HIDE DEF r, e, x, s, v, y, U
      <4>2. z \in Int BY <2>6
      <4>3. (f[T].num - g[T].num) * m = z * s
        <5> HIDE DEF z
        <5> QED BY <2>6, <2>8, <4>1, <4>2, AddOther
      <4>4. CASE a \in U
        <5>1. (d * e) * s = d * (s * e) BY <2>6
        <5> QED BY <2>5, <4>1, <4>3, <4>4, <5>1
      <4>5. CASE a \notin U
        <5>1. 0 * s = 0 BY <2>6
        <5> QED BY <4>1, <4>3, <4>5, <5>1
      <4> QED BY <4>4, <4>5
    <3>2. CASE c = a
      <4>1. a \in T /\ a \notin U /\ s = m /\ v = r - d BY <2>1, <3>2
      <4>2. z = 0 BY <4>1
      <4> HIDE DEF r, e, x, s, v, y, U, z
      <4>3. x = y BY <2>6, <4>2, NoLoss
      <4>4. f[T].num = r * e + x * m /\ g[T].num = (r - d) * e + x * m /\ f[T].den = m * e
        BY <2>5, <2>8, <4>1, <4>3
      <4>5. (f[T].num - g[T].num) * m = d * (m * e) BY <2>6, <4>4, AddItself
      <4> QED BY <4>1, <4>4, <4>5
    <3> QED BY <3>1, <3>2
  <2> HIDE DEF c, U, x, y, e, s, r, v, z
  <2>11. Loses(f, g, T, a, m, d) BY <2>7, <2>9, <2>10 DEF Loses
  <2> QED BY <2>11
<1> HIDE DEF G
<1>3. P \in G BY <1>1, <1>2, OneByOne
<1> QED BY <1>3 DEF G

\* d more skips of a make l of k: one is as many as count.
OneLess(P, p, k, l, a, m, d) ==
  /\ m \in Int /\ m > 0 /\ d \in {0, 1} /\ (d = 1 => a \in P)
  /\ \A c \in P : c # a => l[c] = k[c]
  /\ a \in P => p[a] = m /\ l[a] = k[a] - d

LEMMA AverageLoses ==
  ASSUME NEW S, NEW P, IsFiniteSet(P), NEW t, NEW u, NEW p, NEW k, NEW l,
         Counts(S, t, P, p, k), Counts(S, u, P, p, l), NEW a, NEW m, NEW d, OneLess(P, p, k, l, a, m, d)
  PROVE  \E N, N1, D, n \in Int :
           /\ D > 0 /\ n > 0
           /\ AverageKeepRate(S, t) = Fraction(N, D) /\ AverageKeepRate(S, u) = Fraction(N1, D)
           /\ ((N - N1) * m) * n = d * D
<1>1. m \in Int /\ m > 0 /\ d \in Int BY DEF OneLess
<1>2. CASE P = {}
  <2>1. AverageKeepRate(S, t) = Fraction(1, 2) /\ AverageKeepRate(S, u) = Fraction(1, 2)
    BY <1>2 DEF Counts, AverageKeepRate, NoDataKeepRate
  <2>2. d = 0 BY <1>2 DEF OneLess
  <2>3. ((1 - 1) * m) * 1 = d * 2 BY <1>1, <2>2
  <2> QED BY <2>1, <2>3
<1>3. CASE P # {}
  <2> DEFINE before == [c \in P |-> Fraction(k[c], p[c])]
             after == [c \in P |-> Fraction(l[c], p[c])]
  <2>1. P = Played(S, t) /\ P = Played(S, u) BY DEF Counts
  <2>2. before \in [P -> Fractions] /\ after \in [P -> Fractions] BY DEF Counts, Fraction, Fractions
  <2>3. (\A c \in P : before[c] = RawKeepRate(t[c.id])) /\ (\A c \in P : after[c] = RawKeepRate(u[c.id]))
    BY DEF Counts
  <2> HIDE DEF before, after
  <2>4. PICK f : IsRateSum(f, before, P) /\
           AverageKeepRate(S, t) = Fraction(f[P].num, f[P].den * Cardinality(P))
    <3>1. AreRates(before, S, t, P) BY <1>3, <2>1, <2>2, <2>3 DEF AreRates
    <3> QED BY <3>1, RateSumIs
  <2>5. PICK g : IsRateSum(g, after, P) /\
           AverageKeepRate(S, u) = Fraction(g[P].num, g[P].den * Cardinality(P))
    <3>1. AreRates(after, S, u, P) BY <1>3, <2>1, <2>2, <2>3 DEF AreRates
    <3> QED BY <3>1, RateSumIs
  <2>6. Loses(f, g, P, a, m, d)
    <3>1. /\ p \in [P -> Int] /\ k \in [P -> Int] /\ l \in [P -> Int] /\ \A c \in P : p[c] > 0
      BY DEF Counts
    <3>2. (\A c \in P : c # a => l[c] = k[c]) /\ (a \in P => p[a] = m /\ l[a] = k[a] - d) BY DEF OneLess
    <3>3. IsRateSum(f, [c \in P |-> Fraction(k[c], p[c])], P) BY <2>4 DEF before
    <3>4. IsRateSum(g, [c \in P |-> Fraction(l[c], p[c])], P) BY <2>5 DEF after
    <3> QED BY <1>1, <3>1, <3>2, <3>3, <3>4, SumsLose
  <2> DEFINE n == Cardinality(P)
             N == f[P].num
             N1 == g[P].num
             e == f[P].den
             D == e * n
  <2>7. n \in Int /\ n > 0
    <3>1. n \in Nat /\ n # 0 BY <1>3, FS_CardinalityType, FS_EmptySet
    <3> QED BY <3>1
  <2>8. N \in Int /\ N1 \in Int /\ e \in Int /\ e > 0 /\ g[P].den = e /\ (N - N1) * m = IF a \in P THEN d * e ELSE 0
    BY <2>6 DEF Loses
  <2>9. (N - N1) * m = d * e
    <3>1. a \notin P => d = 0 BY DEF OneLess
    <3>2. d = 0 => d * e = 0 BY <2>8
    <3> QED BY <2>8, <3>1, <3>2
  <2>10. AverageKeepRate(S, t) = Fraction(N, D) /\ AverageKeepRate(S, u) = Fraction(N1, D)
    BY <2>4, <2>5, <2>8
  <2> HIDE DEF n, N, N1, e
  <2>11. D \in Int /\ D > 0 BY <2>7, <2>8, Positive
  <2>12. ((N - N1) * m) * n = d * D
    <3>1. (d * e) * n = d * (e * n) BY <1>1, <2>7, <2>8
    <3> QED BY <2>9, <3>1
  <2> HIDE DEF D
  <2> QED BY <2>7, <2>8, <2>10, <2>11, <2>12
<1> QED BY <1>2, <1>3



LEMMA PlayedLoses ==
  ASSUME NEW D \in Int, D > 0, NEW K \in Int, K >= 0, NEW e \in Int, e >= 0, NEW m \in Int,
         D >= e * m, NEW s \in Int, s > 0
  PROVE  (D + K * e) * (D * (s + K)) >= (K * e) * (D * (m + K))
<1> DEFINE A == D * s
           B == K * (D - e * m)
           C == (K * e) * s
<1>1. A \in Int /\ A >= 0 /\ B \in Int /\ B >= 0 /\ K * e \in Int /\ K * e >= 0
  <2>1. A \in Int /\ A > 0 BY Positive
  <2>2. D - e * m \in Int /\ D - e * m >= 0 OBVIOUS
  <2>3. \A i, j \in Int : i >= 0 /\ j >= 0 => i * j \in Int /\ i * j >= 0 OBVIOUS
  <2> HIDE DEF A
  <2> QED BY <2>1, <2>2, <2>3
<1>2. C \in Int /\ C >= 0
  <2>1. \A i, j \in Int : i >= 0 /\ j >= 0 => i * j \in Int /\ i * j >= 0 OBVIOUS
  <2> QED BY <1>1, <2>1
<1>3. (D + K * e) * (D * (s + K)) = (K * e) * (D * (m + K)) + D * ((A + B) + C)
  OBVIOUS
<1> HIDE DEF A, B, C
<1>4. D * ((A + B) + C) \in Int /\ D * ((A + B) + C) >= 0
  <2>1. \A i, j \in Int : i >= 0 /\ j >= 0 => i * j \in Int /\ i * j >= 0 OBVIOUS
  <2> QED BY <1>1, <1>2, <2>1
<1> DEFINE z == D * ((A + B) + C)
           y == (K * e) * (D * (m + K))
           x == (D + K * e) * (D * (s + K))
<1>5. x = y + z /\ y \in Int /\ z \in Int /\ z >= 0 BY <1>3, <1>4
<1> HIDE DEF x, y, z
<1>6. x >= y BY <1>5
<1> QED BY <1>6 DEF x, y

LEMMA UnplayedLoses ==
  ASSUME NEW D \in Int, D > 0, NEW K \in Int, NEW e \in Int, NEW m \in Int, D >= e * m
  PROVE  (D + K * e) * D >= e * (D * (m + K))
<1>1. D - e * m \in Int /\ D - e * m >= 0 OBVIOUS
<1>2. (D + K * e) * D = e * (D * (m + K)) + D * (D - e * m) OBVIOUS
<1>3. \A i, j \in Int : i >= 0 /\ j >= 0 => i * j \in Int /\ i * j >= 0 OBVIOUS
<1>4. D * (D - e * m) \in Int /\ D * (D - e * m) >= 0 BY <1>1, <1>3
<1> DEFINE x == (D + K * e) * D
           y == e * (D * (m + K))
           z == D * (D - e * m)
<1>5. x = y + z /\ y \in Int /\ z \in Int /\ z >= 0 BY <1>2, <1>4
<1> HIDE DEF x, y, z
<1>6. x >= y BY <1>5
<1> QED BY <1>6 DEF x, y

\* What one more skip changes of a track's plays and keeps.
LEMMA KeepsOf ==
  ASSUME NEW s, s.plays \in 1..(Word - 1), s.skips \in Nat
  PROVE  /\ Keeps(s) = IF s.skips <= s.plays THEN s.plays - s.skips ELSE 0
         /\ RawKeepRate(s) = Fraction(Keeps(s), s.plays)
<1> DEFINE n == s.plays
           k == n - Skips(s)
<1>1. Word \in Nat /\ Word > 0 BY RerankAssumption
<1>2. n \in 1..(Word - 1) OBVIOUS
<1>3. Skips(s) = IF s.skips <= n THEN s.skips ELSE n BY <1>2, TwoOfNat DEF Skips
<1>4. k = IF s.skips <= n THEN n - s.skips ELSE 0 BY <1>2, <1>3
<1>5. k \in 0..(Word - 1) BY <1>1, <1>2, <1>4
<1>6. k % Word = k
  <2> HIDE DEF k
  <2> QED BY <1>1, <1>5
<1>7. Keeps(s) = k BY <1>6 DEF Keeps
<1> HIDE DEF k
<1>8. RawKeepRate(s) = Fraction(k, s.plays) BY DEF RawKeepRate, k
<1> QED BY <1>4, <1>7, <1>8

IsStatistic(t) == t \in [DOMAIN t -> [plays : 0..(Word - 1), skips : Nat]]

IsCandidates(S) ==
  /\ IsFiniteSet(S)
  /\ \A c \in S : c.id \in Int /\ c.cosine \in Int
  /\ \A b, c \in S : b.id = c.id => b = c

OnceMore(t, i) == [t EXCEPT ![i].skips = @ + 1]

LEMMA MoreSkips ==
  ASSUME NEW t, IsStatistic(t), NEW i \in DOMAIN t
  PROVE  /\ DOMAIN OnceMore(t, i) = DOMAIN t
         /\ \A j \in DOMAIN t : j # i => OnceMore(t, i)[j] = t[j]
         /\ OnceMore(t, i)[i].plays = t[i].plays /\ OnceMore(t, i)[i].skips = t[i].skips + 1
BY DEF OnceMore, IsStatistic

LEMMA CountsOf ==
  ASSUME NEW S, IsCandidates(S), NEW t, IsStatistic(t), NEW a \in S, a.id \in DOMAIN t
  PROVE  \E P \in SUBSET S : \E p, k, l, m, d :
           /\ Counts(S, t, P, p, k) /\ Counts(S, OnceMore(t, a.id), P, p, l)
           /\ OneLess(P, p, k, l, a, m, d)
<1> DEFINE u == OnceMore(t, a.id)
           P == Played(S, t)
           p == [c \in P |-> t[c.id].plays]
           k == [c \in P |-> Keeps(t[c.id])]
           l == [c \in P |-> Keeps(u[c.id])]
           m == IF a \in P THEN p[a] ELSE 1
           d == IF a \in P THEN k[a] - l[a] ELSE 0
<1>1. /\ DOMAIN u = DOMAIN t /\ \A j \in DOMAIN t : j # a.id => u[j] = t[j]
      /\ u[a.id].plays = t[a.id].plays /\ u[a.id].skips = t[a.id].skips + 1
  BY MoreSkips
<1> HIDE DEF u
<1>2. \A j \in DOMAIN t : t[j].plays \in 0..(Word - 1) /\ t[j].skips \in Nat BY DEF IsStatistic
<1>3. \A j \in DOMAIN t : u[j].plays = t[j].plays /\ u[j].skips \in Nat BY <1>1, <1>2
<1>4. Played(S, u) = P BY <1>1, <1>3 DEF Played
<1>5. \A c \in P : c \in S /\ c.id \in DOMAIN t /\ t[c.id].plays > 0 BY DEF Played
<1>6. \A c \in P : t[c.id].plays \in 1..(Word - 1) /\ u[c.id].plays = t[c.id].plays BY <1>2, <1>3, <1>5
<1> HIDE DEF P
<1>7. ASSUME NEW c \in P
      PROVE  /\ k[c] = IF t[c.id].skips <= p[c] THEN p[c] - t[c.id].skips ELSE 0
             /\ l[c] = IF u[c.id].skips <= p[c] THEN p[c] - u[c.id].skips ELSE 0
             /\ RawKeepRate(t[c.id]) = Fraction(k[c], p[c])
             /\ RawKeepRate(u[c.id]) = Fraction(l[c], p[c])
             /\ p[c] \in Int /\ p[c] > 0 /\ k[c] \in Int /\ l[c] \in Int
             /\ t[c.id].plays = p[c] /\ u[c.id].plays = p[c] /\ Keeps(t[c.id]) = k[c] /\ Keeps(u[c.id]) = l[c]
  <2>1. c.id \in DOMAIN t BY <1>5
  <2>2. /\ t[c.id].plays \in 1..(Word - 1) /\ t[c.id].skips \in Nat
        /\ u[c.id].plays \in 1..(Word - 1) /\ u[c.id].skips \in Nat
        /\ p[c] = t[c.id].plays /\ p[c] = u[c.id].plays
    BY <1>2, <1>3, <1>6, <2>1
  <2>3. k[c] = Keeps(t[c.id]) /\ l[c] = Keeps(u[c.id]) OBVIOUS
  <2>4. /\ Keeps(t[c.id]) = IF t[c.id].skips <= t[c.id].plays THEN t[c.id].plays - t[c.id].skips ELSE 0
        /\ RawKeepRate(t[c.id]) = Fraction(Keeps(t[c.id]), t[c.id].plays)
    BY <2>2, KeepsOf
  <2>5. /\ Keeps(u[c.id]) = IF u[c.id].skips <= u[c.id].plays THEN u[c.id].plays - u[c.id].skips ELSE 0
        /\ RawKeepRate(u[c.id]) = Fraction(Keeps(u[c.id]), u[c.id].plays)
    BY <2>2, KeepsOf
  <2> HIDE DEF p, k, l
  <2>6. Word \in Nat BY RerankAssumption
  <2>7. p[c] \in Int /\ p[c] > 0 BY <2>2, <2>6
  <2>8. /\ k[c] = IF t[c.id].skips <= p[c] THEN p[c] - t[c.id].skips ELSE 0
        /\ l[c] = IF u[c.id].skips <= p[c] THEN p[c] - u[c.id].skips ELSE 0
    BY <2>2, <2>3, <2>4, <2>5
  <2>9. k[c] \in Int /\ l[c] \in Int
    <3>1. t[c.id].skips \in Int /\ u[c.id].skips \in Int BY <2>2
    <3>2. \A x, y \in Int : x - y \in Int /\ 0 \in Int OBVIOUS
    <3> QED BY <2>7, <2>8, <3>1, <3>2
  <2>10. RawKeepRate(t[c.id]) = Fraction(k[c], p[c]) /\ RawKeepRate(u[c.id]) = Fraction(l[c], p[c])
    BY <2>2, <2>3, <2>4, <2>5
  <2> QED BY <2>2, <2>3, <2>7, <2>8, <2>9, <2>10
<1>8. p \in [P -> Int] /\ k \in [P -> Int] /\ l \in [P -> Int] BY <1>7
<1>9. Counts(S, t, P, p, k)
  <2>1. P = Played(S, t) BY DEF P
  <2> HIDE DEF p, k, l
  <2> QED BY <1>7, <1>8, <2>1 DEF Counts
<1>10. Counts(S, u, P, p, l)
  <2> HIDE DEF p, k, l
  <2> QED BY <1>4, <1>7, <1>8 DEF Counts
<1>11. \A c \in P : c # a => l[c] = k[c]
  <2>1. ASSUME NEW c \in P, c # a PROVE u[c.id] = t[c.id]
    <3>1. c.id # a.id BY <1>5, <2>1 DEF IsCandidates
    <3> QED BY <1>1, <1>5, <3>1
  <2> QED BY <2>1
<1>12. OneLess(P, p, k, l, a, m, d)
  <2>1. CASE a \in P
    <3>1. t[a.id].skips \in Nat /\ u[a.id].skips = t[a.id].skips + 1 BY <1>1, <1>2
    <3> HIDE DEF p, k, l
    <3>2. m = p[a] /\ d = k[a] - l[a] BY <2>1
    <3>3. p[a] \in Int /\ p[a] > 0 /\ k[a] \in Int /\ l[a] \in Int BY <1>7, <2>1
    <3>4. k[a] - l[a] \in {0, 1} BY <1>7, <2>1, <3>1, <3>3
    <3>5. l[a] = k[a] - d BY <3>2, <3>3
    <3> HIDE DEF m, d
    <3> QED BY <1>11, <2>1, <3>2, <3>3, <3>4, <3>5 DEF OneLess
  <2>2. CASE a \notin P
    <3> HIDE DEF p, k, l
    <3>1. m = 1 /\ d = 0 BY <2>2
    <3> HIDE DEF m, d
    <3> QED BY <1>11, <2>2, <3>1 DEF OneLess
  <2> QED BY <2>1, <2>2
<1>13. P \in SUBSET S BY DEF P, Played
<1> HIDE DEF P, p, k, l, m, d
<1> QED BY <1>9, <1>10, <1>12, <1>13 DEF u

\* The keep rate of c, with the average N / D.
KeepOf(P, p, k, N, D, c) == IF c \in P THEN k[c] * D + Smoothing * N ELSE N
KeepDen(P, p, D, c) == IF c \in P THEN D * (p[c] + Smoothing) ELSE D

LEMMA KeepRateIs ==
  ASSUME NEW S, NEW t, NEW P, NEW p, NEW k, Counts(S, t, P, p, k), NEW N \in Int, NEW D \in Int,
         AverageKeepRate(S, t) = Fraction(N, D), NEW c \in S
  PROVE  KeepRate(c, S, t) = Fraction(KeepOf(P, p, k, N, D, c), KeepDen(P, p, D, c))
<1>1. P = Played(S, t) BY DEF Counts
<1>2. AverageKeepRate(S, t).num = N /\ AverageKeepRate(S, t).den = D BY DEF Fraction
<1>3. CASE c \in P
  <2>1. t[c.id].plays = p[c] /\ Keeps(t[c.id]) = k[c] BY <1>3 DEF Counts
  <2> QED BY <1>1, <1>2, <1>3, <2>1 DEF KeepRate, KeepOf, KeepDen
<1>4. CASE c \notin P
  BY <1>1, <1>4 DEF KeepRate, KeepOf, KeepDen
<1> QED BY <1>3, <1>4

AverageFalls(N, N1, D, n, m, d) ==
  /\ N \in Int /\ N1 \in Int /\ D \in Int /\ D > 0 /\ n \in Int /\ n > 0
  /\ ((N - N1) * m) * n = d * D

\* One more skip of a takes at least as much of its own keep rate as of any.
FallsMost(S, P, p, k, l, N, N1, D, a) ==
  /\ \A c \in S : /\ KeepOf(P, p, k, N, D, c) \in Int /\ KeepOf(P, p, l, N1, D, c) \in Int
                  /\ KeepDen(P, p, D, c) \in Int /\ KeepDen(P, p, D, c) > 0
  /\ \A b \in S : (KeepOf(P, p, k, N, D, a) - KeepOf(P, p, l, N1, D, a)) * KeepDen(P, p, D, b)
                    >= (KeepOf(P, p, k, N, D, b) - KeepOf(P, p, l, N1, D, b)) * KeepDen(P, p, D, a)

LEMMA Falls ==
  ASSUME NEW S, NEW P \in SUBSET S, NEW p \in [P -> Int], NEW k \in [P -> Int], NEW l \in [P -> Int],
         \A c \in P : p[c] > 0, NEW a \in S, NEW m, NEW d, OneLess(P, p, k, l, a, m, d),
         NEW N, NEW N1, NEW D, NEW n, AverageFalls(N, N1, D, n, m, d)
  PROVE  FallsMost(S, P, p, k, l, N, N1, D, a)
<1> USE DEF AverageFalls
<1> DEFINE K == Smoothing
           e == N - N1
           x(c) == KeepOf(P, p, k, N, D, c)
           y(c) == KeepOf(P, p, l, N1, D, c)
           q(c) == KeepDen(P, p, D, c)
<1>1. K \in Int /\ K >= 0 BY RerankAssumption
<1>2. m \in Int /\ m > 0 /\ d \in {0, 1} /\ (d = 1 => a \in P) BY DEF OneLess
<1>3. ASSUME NEW c \in S PROVE x(c) \in Int /\ y(c) \in Int /\ q(c) \in Int /\ q(c) > 0
  <2>1. CASE c \in P
    <3>1. p[c] \in Int /\ p[c] > 0 /\ k[c] \in Int /\ l[c] \in Int BY <2>1
    <3>2. x(c) = k[c] * D + K * N /\ y(c) = l[c] * D + K * N1 /\ q(c) = D * (p[c] + K)
      BY <2>1 DEF KeepOf, KeepDen
    <3>3. x(c) \in Int /\ y(c) \in Int BY <1>1, <3>1, <3>2
    <3>4. p[c] + K \in Int /\ p[c] + K > 0 BY <1>1, <3>1
    <3> QED BY <3>2, <3>3, <3>4, Positive
  <2>2. CASE c \notin P BY <2>2 DEF KeepOf, KeepDen
  <2> QED BY <2>1, <2>2
<1>4. ASSUME NEW b \in S PROVE (x(a) - y(a)) * q(b) >= (x(b) - y(b)) * q(a)
  <2>1. CASE d = 0
    <3>1. N = N1
      <4> DEFINE z == (N - N1) * m
      <4>1. z \in Int /\ 0 \in Int BY <1>2
      <4>2. (z - 0) * n = 0
        <5>1. 0 * D = 0 OBVIOUS
        <5>2. z - 0 = z BY <4>1
        <5> QED BY <2>1, <5>1, <5>2
      <4> HIDE DEF z
      <4>3. z = 0 BY <4>1, <4>2, NoLoss
      <4> USE DEF z
      <4> QED BY <1>2, <4>3, NoLoss
    <3>2. \A c \in P : l[c] = k[c] BY <2>1 DEF OneLess
    <3>3. x(a) = y(a) /\ x(b) = y(b) BY <3>1, <3>2 DEF KeepOf
    <3>4. q(a) \in Int /\ q(b) \in Int /\ x(a) \in Int /\ x(b) \in Int BY <1>3
    <3> DEFINE i == q(a)
               j == q(b)
    <3>5. x(a) - y(a) = 0 /\ x(b) - y(b) = 0 BY <3>3, <3>4
    <3>6. i \in Int /\ j \in Int BY <3>4
    <3> HIDE DEF i, j
    <3>7. 0 * j >= 0 * i BY <3>6
    <3> QED BY <3>5, <3>7 DEF i, j
  <2>2. CASE d = 1
    <3>1. a \in P /\ p[a] = m /\ l[a] = k[a] - 1 /\ k[a] \in Int BY <1>2, <2>2 DEF OneLess
    <3>2. e \in Int /\ (e * m) * n = D BY <2>2
    <3> HIDE DEF e
    <3>3. e > 0 /\ e * m > 0 /\ D >= e * m
      <4> DEFINE z == e * m
      <4>1. z \in Int /\ z * n = D BY <1>2, <3>2
      <4> HIDE DEF z
      <4>2. z > 0 /\ D >= z
        <5>1. z > 0 BY <4>1
        <5> QED BY <4>1, <5>1
      <4> USE DEF z
      <4>3. e > 0 BY <1>2, <3>2, <4>2
      <4> QED BY <4>2, <4>3
    <3>4. x(a) - y(a) = D + K * e /\ q(a) = D * (m + K)
      <4>1. x(a) = k[a] * D + K * N /\ y(a) = (k[a] - 1) * D + K * N1 /\ q(a) = D * (m + K)
        BY <3>1 DEF KeepOf, KeepDen
      <4>2. (k[a] * D + K * N) - ((k[a] - 1) * D + K * N1) = D + K * (N - N1) BY <1>1, <3>1
      <4> QED BY <4>1, <4>2 DEF e
    <3>5. CASE b = a
      <4> DEFINE z == (x(a) - y(a)) * q(a)
      <4>1. z \in Int BY <1>3
      <4> HIDE DEF z
      <4>2. z >= z BY <4>1
      <4> QED BY <3>5, <4>2 DEF z
    <3>6. CASE b # a /\ b \in P
      <4>1. l[b] = k[b] /\ k[b] \in Int /\ p[b] \in Int /\ p[b] > 0 BY <3>6 DEF OneLess
      <4>2. x(b) = k[b] * D + K * N /\ y(b) = k[b] * D + K * N1 /\ q(b) = D * (p[b] + K)
        BY <3>6, <4>1 DEF KeepOf, KeepDen
      <4>3. (k[b] * D + K * N) - (k[b] * D + K * N1) = K * (N - N1) BY <1>1, <4>1
      <4>4. x(b) - y(b) = K * e BY <4>2, <4>3 DEF e
      <4>5. (D + K * e) * (D * (p[b] + K)) >= (K * e) * (D * (m + K))
        <5> HIDE DEF K
        <5> DEFINE s == p[b]
        <5>1. s \in Int /\ s > 0 BY <4>1
        <5> HIDE DEF s
        <5>2. (D + K * e) * (D * (s + K)) >= (K * e) * (D * (m + K))
          BY <1>1, <1>2, <3>2, <3>3, <5>1, PlayedLoses
        <5> QED BY <5>2 DEF s
      <4> QED BY <3>4, <4>2, <4>4, <4>5
    <3>7. CASE b \notin P
      <4>1. x(b) = N /\ y(b) = N1 /\ q(b) = D BY <3>7 DEF KeepOf, KeepDen
      <4>2. x(b) - y(b) = e BY <4>1 DEF e
      <4>3. (D + K * e) * D >= e * (D * (m + K))
        <5> HIDE DEF K
        <5> QED BY <1>1, <1>2, <3>2, <3>3, UnplayedLoses
      <4> QED BY <3>4, <4>1, <4>2, <4>3
    <3> QED BY <3>5, <3>6, <3>7
  <2> QED BY <1>2, <2>1, <2>2
<1> QED BY <1>3, <1>4 DEF FallsMost

LEMMA ScoreIs ==
  ASSUME NEW S, NEW t, NEW c, NEW e \in Int, e = (10 - Weight) * c.cosine,
         NEW x \in Int, NEW q \in Int, KeepRate(c, S, t) = Fraction(x, q)
  PROVE  Score(c, S, t).num = e * q + (10 * Weight) * x /\ Score(c, S, t).den = q
<1>1. KeepRate(c, S, t).num = x /\ KeepRate(c, S, t).den = q BY DEF Fraction
<1>2. Weight \in Int BY RerankAssumption
<1>3. /\ Score(c, S, t).num = e * q + (10 * Weight * x) * 1
      /\ Score(c, S, t).den = 1 * q
  BY <1>1 DEF Score, Plus, Fraction
<1>4. e * q + (10 * Weight * x) * 1 = e * q + (10 * Weight) * x /\ 1 * q = q BY <1>2
<1> QED BY <1>3, <1>4

LEMMA LessKept ==
  ASSUME NEW e \in Int, NEW f \in Int, NEW w \in Int, w >= 0, NEW q \in Int, NEW r \in Int,
         NEW x \in Int, NEW y \in Int, NEW u \in Int, NEW v \in Int, (x - u) * r >= (y - v) * q
  PROVE  (e * q + w * x) * r - (f * r + w * y) * q >= (e * q + w * u) * r - (f * r + w * v) * q
<1> DEFINE z == (x - u) * r - (y - v) * q
           h == (e * q + w * x) * r - (f * r + w * y) * q
           l == (e * q + w * u) * r - (f * r + w * v) * q
<1>1. h = l + w * z OBVIOUS
<1>2. z \in Int /\ z >= 0 OBVIOUS
<1>3. l \in Int OBVIOUS
<1> HIDE DEF z, h, l
<1>4. w * z \in Int /\ w * z >= 0
  <2>1. \A i, j \in Int : i >= 0 /\ j >= 0 => i * j \in Int /\ i * j >= 0 OBVIOUS
  <2> QED BY <1>2, <2>1
<1>5. h >= l
  <2> DEFINE i == w * z
  <2>1. h = l + i /\ i \in Int /\ i >= 0 BY <1>1, <1>4
  <2> HIDE DEF i
  <2> QED BY <1>3, <2>1
<1> QED BY <1>5 DEF h, l

LEMMA BeforeKept ==
  ASSUME NEW S, NEW t, NEW u, NEW a, NEW b, a.cosine \in Int, b.cosine \in Int,
         NEW x \in Int, NEW xa \in Int, NEW q \in Int, NEW y \in Int, NEW yb \in Int, NEW r \in Int,
         KeepRate(a, S, t) = Fraction(x, q), KeepRate(a, S, u) = Fraction(xa, q),
         KeepRate(b, S, t) = Fraction(y, r), KeepRate(b, S, u) = Fraction(yb, r),
         (x - xa) * r >= (y - yb) * q, Before(a, b, S, u)
  PROVE  Before(a, b, S, t)
<1> DEFINE w == 10 * Weight
           e == (10 - Weight) * a.cosine
           f == (10 - Weight) * b.cosine
           m == e * q + w * x
           n == f * r + w * y
           ma == e * q + w * xa
           nb == f * r + w * yb
           h == m * r - n * q
           l == ma * r - nb * q
           ties == a.cosine > b.cosine \/ (a.cosine = b.cosine /\ a.id < b.id)
<1>1. w \in Int /\ w >= 0 /\ e \in Int /\ f \in Int
  <2>1. Weight \in Int /\ Weight >= 0 BY RerankAssumption
  <2> QED BY <2>1
<1>2. /\ Score(a, S, t).num = m /\ Score(a, S, t).den = q
      /\ Score(a, S, u).num = ma /\ Score(a, S, u).den = q
      /\ Score(b, S, t).num = n /\ Score(b, S, t).den = r
      /\ Score(b, S, u).num = nb /\ Score(b, S, u).den = r
  <2>1. e = (10 - Weight) * a.cosine /\ f = (10 - Weight) * b.cosine OBVIOUS
  <2> HIDE DEF e, f
  <2>2. Score(a, S, t).num = m /\ Score(a, S, t).den = q BY <1>1, <2>1, ScoreIs
  <2>3. Score(a, S, u).num = ma /\ Score(a, S, u).den = q BY <1>1, <2>1, ScoreIs
  <2>4. Score(b, S, t).num = n /\ Score(b, S, t).den = r BY <1>1, <2>1, ScoreIs
  <2>5. Score(b, S, u).num = nb /\ Score(b, S, u).den = r BY <1>1, <2>1, ScoreIs
  <2> QED BY <2>2, <2>3, <2>4, <2>5
<1>3. h >= l
  <2> HIDE DEF w, e, f
  <2> QED BY <1>1, LessKept
<1>4. m \in Int /\ n \in Int /\ ma \in Int /\ nb \in Int
  <2> HIDE DEF w, e, f
  <2> QED BY <1>1
<1> HIDE DEF m, n, ma, nb
<1>5. h \in Int /\ l \in Int BY <1>4
<1>6. /\ n * q < m * r <=> h > 0
      /\ m * r < n * q <=> h < 0
      /\ nb * q < ma * r <=> l > 0
      /\ ma * r < nb * q <=> l < 0
  <2> DEFINE i == m * r
             j == n * q
             k == ma * r
             g == nb * q
  <2>1. i \in Int /\ j \in Int /\ k \in Int /\ g \in Int BY <1>4
  <2>2. h = i - j /\ l = k - g OBVIOUS
  <2> HIDE DEF i, j, k, g, h, l
  <2>3. (j < i <=> h > 0) /\ (i < j <=> h < 0) /\ (g < k <=> l > 0) /\ (k < g <=> l < 0) BY <2>1, <2>2
  <2> QED BY <2>3 DEF i, j, k, g
<1>7. Before(a, b, S, t) <=> n * q < m * r \/ (~(m * r < n * q) /\ ties)
  BY <1>2 DEF Before, Less
<1>8. Before(a, b, S, u) <=> nb * q < ma * r \/ (~(ma * r < nb * q) /\ ties)
  BY <1>2 DEF Before, Less
<1> HIDE DEF h, l, ties
<1>9. l > 0 \/ (~(l < 0) /\ ties) BY <1>6, <1>8
<1>10. h > 0 \/ (~(h < 0) /\ ties) BY <1>3, <1>5, <1>9
<1> QED BY <1>6, <1>7, <1>10

\* Being skipped once more never takes a candidate further up.
LEMMA SkippingNeverHelps ==
  ASSUME NEW S, IsCandidates(S), NEW t, IsStatistic(t), NEW a \in S, NEW b \in S, a.id \in DOMAIN t,
         Before(a, b, S, OnceMore(t, a.id))
  PROVE  Before(a, b, S, t)
<1> DEFINE u == OnceMore(t, a.id)
<1> HIDE DEF u
<1>1. PICK P \in SUBSET S : \E p, k, l, m, d :
           Counts(S, t, P, p, k) /\ Counts(S, u, P, p, l) /\ OneLess(P, p, k, l, a, m, d)
  BY CountsOf DEF u
<1>2. PICK p, k, l, m, d : Counts(S, t, P, p, k) /\ Counts(S, u, P, p, l) /\ OneLess(P, p, k, l, a, m, d)
  BY <1>1
<1>3. IsFiniteSet(P) BY FS_Subset DEF IsCandidates
<1>4. PICK N, N1, D, n \in Int :
           /\ D > 0 /\ n > 0
           /\ AverageKeepRate(S, t) = Fraction(N, D) /\ AverageKeepRate(S, u) = Fraction(N1, D)
           /\ ((N - N1) * m) * n = d * D
  BY <1>2, <1>3, AverageLoses
<1> DEFINE x(c) == KeepOf(P, p, k, N, D, c)
           y(c) == KeepOf(P, p, l, N1, D, c)
           q(c) == KeepDen(P, p, D, c)
<1>5. /\ p \in [P -> Int] /\ k \in [P -> Int] /\ l \in [P -> Int] /\ \A c \in P : p[c] > 0
  BY <1>2 DEF Counts
<1>6. /\ \A c \in S : x(c) \in Int /\ y(c) \in Int /\ q(c) \in Int /\ q(c) > 0
      /\ \A c \in S : (x(a) - y(a)) * q(c) >= (x(c) - y(c)) * q(a)
  <2>1. AverageFalls(N, N1, D, n, m, d) BY <1>4 DEF AverageFalls
  <2>2. FallsMost(S, P, p, k, l, N, N1, D, a) BY <1>2, <1>5, <2>1, Falls
  <2> QED BY <2>2 DEF FallsMost
<1>7. \A c \in S : KeepRate(c, S, t) = Fraction(x(c), q(c)) /\ KeepRate(c, S, u) = Fraction(y(c), q(c))
  BY <1>2, <1>4, KeepRateIs
<1> DEFINE i == x(a)
           j == y(a)
           g == q(a)
           v == x(b)
           w == y(b)
           h == q(b)
<1>8. /\ i \in Int /\ j \in Int /\ g \in Int /\ v \in Int /\ w \in Int /\ h \in Int
      /\ (i - j) * h >= (v - w) * g
      /\ KeepRate(a, S, t) = Fraction(i, g) /\ KeepRate(a, S, u) = Fraction(j, g)
      /\ KeepRate(b, S, t) = Fraction(v, h) /\ KeepRate(b, S, u) = Fraction(w, h)
  BY <1>6, <1>7
<1> HIDE DEF x, y, q, i, j, g, v, w, h
<1>9. a.cosine \in Int /\ b.cosine \in Int BY DEF IsCandidates
<1>10. Before(a, b, S, u) BY DEF u
<1> QED BY <1>8, <1>9, <1>10, BeforeKept

\* Without statistics the order is that of the cosines.
LEMMA NoStatistics ==
  ASSUME NEW S, IsCandidates(S), NEW a \in S, NEW b \in S
  PROVE  Before(a, b, S, <<>>) <=> a.cosine > b.cosine \/ (a.cosine = b.cosine /\ a.id < b.id)
<1>1. Played(S, <<>>) = {} BY DEF Played
<1>2. AverageKeepRate(S, <<>>) = Fraction(1, 2) BY <1>1 DEF AverageKeepRate, NoDataKeepRate
<1>3. KeepRate(a, S, <<>>) = Fraction(1, 2) /\ KeepRate(b, S, <<>>) = Fraction(1, 2)
  BY <1>1, <1>2 DEF KeepRate
<1> DEFINE x == a.cosine
           y == b.cosine
           v == 10 - Weight
           e == v * x
           f == v * y
           w == 10 * Weight
<1>4. x \in Int /\ y \in Int /\ v \in Int /\ v >= 0 /\ w \in Int
  <2>1. Weight \in 0..10 BY RerankAssumption
  <2> QED BY <2>1 DEF IsCandidates
<1>5. e \in Int /\ f \in Int BY <1>4
<1>6. Score(a, S, <<>>).num = e * 2 + w * 1 /\ Score(a, S, <<>>).den = 2 BY <1>3, <1>5, ScoreIs
<1>7. Score(b, S, <<>>).num = f * 2 + w * 1 /\ Score(b, S, <<>>).den = 2 BY <1>3, <1>5, ScoreIs
<1>8. Before(a, b, S, <<>>) <=>
        \/ (f * 2 + w * 1) * 2 < (e * 2 + w * 1) * 2
        \/ ~((e * 2 + w * 1) * 2 < (f * 2 + w * 1) * 2) /\ (x > y \/ (x = y /\ a.id < b.id))
  BY <1>6, <1>7 DEF Before, Less
<1>9. (f < e => x > y) /\ (e < f => y > x)
  <2>1. \A i, j, k \in Int : k >= 0 /\ i >= j => k * i >= k * j OBVIOUS
  <2> QED BY <1>4, <1>5, <2>1
<1>10. \/ e = f
       \/ e < f /\ y > x
       \/ f < e /\ x > y
  BY <1>5, <1>9
<1> HIDE DEF x, y, v, e, f, w
<1>11. Before(a, b, S, <<>>) <=> f < e \/ (~(e < f) /\ (x > y \/ (x = y /\ a.id < b.id)))
  BY <1>4, <1>5, <1>8
<1>12. Before(a, b, S, <<>>) <=> x > y \/ (x = y /\ a.id < b.id) BY <1>4, <1>5, <1>10, <1>11
<1> QED BY <1>12 DEF x, y

(***************************************************************************)
(* One more skip never takes a track further up, though it lowers the      *)
(* average that every other candidate is measured by, for all numbers of   *)
(* plays and skips, weights and smoothings: rerank.go.                     *)
(***************************************************************************)
THEOREM VectorsSkipsNeverHelp == Spec => []SkipsNeverHelp
<1>1. IInv => SkipsNeverHelp
  <2> SUFFICES ASSUME IInv, NEW r \in Requests, pc[r] = "stats"
               PROVE  /\ \A stats \in Stats : \A a, b \in FoundSet(r) :
                           a.id \in DOMAIN stats /\ ~Before(a, b, FoundSet(r), stats) =>
                             ~Before(a, b, FoundSet(r), [stats EXCEPT ![a.id].skips = @ + 1])
                      /\ \A a, b \in FoundSet(r) :
                           Before(a, b, FoundSet(r), <<>>) <=>
                             (a.cosine > b.cosine \/ (a.cosine = b.cosine /\ a.id < b.id))
    BY DEF SkipsNeverHelp
  <2> DEFINE S == FoundSet(r)
  <2>1. IsCandidates(S)
    <3> DEFINE i == job[r].id
               I == Range(found[r].tracks)
    <3>1. i \in Ids /\ found[r].tracks \in Seq(Ids \ {i}) BY DEF IInv, SimilarInv
    <3>2. I \subseteq Ids \ {i} BY <3>1 DEF Range
    <3>3. S = {[id |-> j, cosine |-> Cosine[i][j]] : j \in I} BY DEF FoundSet
    <3> HIDE DEF i, I, S
    <3>4. IsFiniteSet(I)
      <4>1. I \subseteq Ids /\ IsFiniteSet(Ids) BY <3>2, CollectionAssumption
      <4> QED BY <4>1, FS_Subset
    <3>5. IsFiniteSet(S)
      <4> DEFINE f == [j \in I |-> [id |-> j, cosine |-> Cosine[i][j]]]
      <4>1. f \in Surjection(I, S) BY <3>3 DEF Surjection
      <4> HIDE DEF f
      <4> QED BY <3>4, <4>1, FS_Surjection
    <3>6. \A c \in S : c.id \in Int /\ c.cosine \in Int
      <4>1. Ids \subseteq Int BY CollectionAssumption
      <4>2. \A j \in I : Cosine[i][j] \in Int BY <3>1, <3>2, VectorAssumption
      <4> QED BY <3>2, <3>3, <4>1, <4>2
    <3>7. \A b, c \in S : b.id = c.id => b = c BY <3>3
    <3> QED BY <3>5, <3>6, <3>7 DEF IsCandidates
  <2> HIDE DEF S
  <2>2. ASSUME NEW stats \in Stats, NEW a \in S, NEW b \in S,
               a.id \in DOMAIN stats, Before(a, b, S, [stats EXCEPT ![a.id].skips = @ + 1])
        PROVE  Before(a, b, S, stats)
    <3>1. IsStatistic(stats)
      <4>1. stats \in [DOMAIN stats -> [plays : 0..(Word - 1), skips : 0..(Word - 1)]] BY VectorAssumption
      <4>2. 0..(Word - 1) \subseteq Nat BY RerankAssumption
      <4>3. [plays : 0..(Word - 1), skips : 0..(Word - 1)] \subseteq [plays : 0..(Word - 1), skips : Nat]
        BY <4>2
      <4> QED BY <4>1, <4>3 DEF IsStatistic
    <3>2. Before(a, b, S, OnceMore(stats, a.id)) BY <2>2 DEF OnceMore
    <3> QED BY <2>1, <2>2, <3>1, <3>2, SkippingNeverHelps
  <2>3. \A a, b \in S : Before(a, b, S, <<>>) <=> a.cosine > b.cosine \/ (a.cosine = b.cosine /\ a.id < b.id)
    BY <2>1, NoStatistics
  <2> QED BY <2>2, <2>3 DEF S
<1> QED BY <1>1, VectorsInvariant, PTL
===============================================================================
