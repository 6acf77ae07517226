--------------------------- MODULE CacheCoreProofs ---------------------------
(***************************************************************************)
(* Proofs about CacheCore, for any users, keys, contents and lifetimes.    *)
(* What a step does to the store and the operations is shown of the        *)
(* actions themselves, so that CachedLookup can use it of its own steps.   *)
(***************************************************************************)
EXTENDS CacheCore, TLAPS

CoreInv == CoreTypeOK /\ WritesKept

LEMMA EntryTyped ==
  ASSUME NEW v \in Contents, NEW n \in 1 .. TTL[v]
  PROVE  [content |-> v, left |-> n] \in Entries
BY DEF Entries

LEMMA EntryFields ==
  ASSUME NEW e \in Entries
  PROVE  /\ e.content \in Contents /\ e.left \in 1 .. TTL[e.content] /\ e # None
         /\ e = [content |-> e.content, left |-> e.left]
         /\ TTL[e.content] \in Nat
<1>1. PICK v \in Contents : e \in [content : {v}, left : 1 .. TTL[v]] BY DEF Entries
<1>2. e.content = v /\ e.left \in 1 .. TTL[v] BY <1>1
<1>3. e # None BY <1>1, CacheCoreAssumption
<1> QED BY <1>1, <1>2, <1>3, CacheCoreAssumption

LEMMA CoreInitInv == CoreInit => CoreInv
BY DEF CoreInit, CoreInv, CoreTypeOK, WritesKept, Idle, Sets

LEMMA BeginGetStep ==
  ASSUME CoreInv, NEW u \in Users, NEW k \in Keys, BeginGet(u, k) PROVE CoreInv'
BY DEF CoreInv, BeginGet, CoreTypeOK, WritesKept, Gets, Sets, Idle

LEMMA BeginSetStep ==
  ASSUME CoreInv, NEW u \in Users, NEW k \in Keys, NEW v \in Contents, BeginSet(u, k, v)
  PROVE  CoreInv'
BY DEF CoreInv, BeginSet, CoreTypeOK, WritesKept, Gets, Sets, Idle

LEMMA StoreAnswersStep ==
  ASSUME CoreInv, NEW u \in Users, StoreAnswers(u) PROVE CoreInv'
<1> USE DEF CoreInv
<1> DEFINE o == op[u]
<1>1. o \in Gets \cup Sets BY DEF StoreAnswers, CoreTypeOK
<1>2. o \in Sets => o.do = "set" /\ o.key \in Keys /\ o.content \in Contents /\ TTL[o.content] > 0
    BY DEF Sets, WritesKept
<1>3. o \in Gets => o.do = "get" /\ o.key \in Keys BY DEF Gets
<1>4. Performed(o) \in [Keys -> Entries \cup {None}]
  <2>1. CASE o \in Gets BY <2>1, <1>3 DEF Performed, CoreTypeOK
  <2>2. CASE o \in Sets
    <3>1. TTL[o.content] \in 1 .. TTL[o.content] BY <2>2, <1>2, CacheCoreAssumption
    <3>2. [content |-> o.content, left |-> TTL[o.content]] \in Entries
        BY <2>2, <1>2, <3>1, EntryTyped
    <3> QED BY <2>2, <1>2, <3>2 DEF Performed, CoreTypeOK
  <2> QED BY <1>1, <2>1, <2>2
<1>5. entry' \in [Keys -> Entries \cup {None}] BY <1>4 DEF StoreAnswers, CoreTypeOK
<1>6. \E end : /\ op' = [op EXCEPT ![u] = [o EXCEPT !.end = end]]
               /\ [o EXCEPT !.end = end] \in Gets \cup Sets
               /\ o \in Gets => [o EXCEPT !.end = end] \in Gets
               /\ o \in Sets => [o EXCEPT !.end = end] \in Sets
                                /\ [o EXCEPT !.end = end].content = o.content
  <2>1. \A end \in {"timeout", "ctx"} :
          /\ o \in Gets => [o EXCEPT !.end = end] \in Gets
          /\ o \in Sets => [o EXCEPT !.end = end] \in Sets
                           /\ [o EXCEPT !.end = end].content = o.content
      BY DEF Gets, Sets
  <2>2. /\ o \in Gets => [o EXCEPT !.end = Answered(o)] \in Gets
        /\ o \in Sets => [o EXCEPT !.end = Answered(o)] \in Sets
                         /\ [o EXCEPT !.end = Answered(o)].content = o.content
    <3>1. CASE o \in Gets
      <4>1. entry[o.key] \in Entries \cup {None} BY <3>1, <1>3 DEF CoreTypeOK
      <4>2. Answered(o) \in Contents \cup {None} BY <3>1, <1>3, <4>1, EntryFields DEF Answered
      <4>3. o \notin Sets BY <3>1, <1>2, <1>3
      <4> QED BY <3>1, <4>2, <4>3 DEF Gets
    <3>2. CASE o \in Sets
      <4>1. Answered(o) = "done" BY <3>2, <1>2 DEF Answered
      <4>2. o \notin Gets BY <3>2, <1>2, <1>3
      <4> QED BY <3>2, <4>1, <4>2 DEF Sets
    <3> QED BY <1>1, <3>1, <3>2
  <2> QED BY <1>1, <2>1, <2>2 DEF StoreAnswers
<1>7. CoreTypeOK' BY <1>5, <1>6 DEF CoreTypeOK, StoreAnswers
<1>8. WritesKept'
  <2> SUFFICES ASSUME NEW w \in Users, op'[w] \in Sets PROVE TTL[op'[w].content] > 0
      BY DEF WritesKept
  <2>1. CASE w # u BY <2>1, <1>6 DEF WritesKept, CoreTypeOK
  <2>2. CASE w = u
    <3>1. o \notin Gets BY <2>2, <1>6 DEF CoreTypeOK, Gets, Sets
    <3> QED BY <2>2, <3>1, <1>1, <1>2, <1>6 DEF CoreTypeOK
  <2> QED BY <2>1, <2>2
<1> QED BY <1>7, <1>8

LEMMA FinishStep ==
  ASSUME CoreInv, NEW u \in Users, Finish(u) PROVE CoreInv'
<1> USE DEF CoreInv
<1>1. op' = [op EXCEPT ![u] = Idle] /\ UNCHANGED <<up, entry>> BY DEF Finish
<1>2. window' \in {window, Cooldown, None} BY DEF Finish, Fail
<1>3. window' \in 0 .. Cooldown \cup {None} BY <1>2, CacheCoreAssumption DEF CoreTypeOK
<1> QED BY <1>1, <1>3 DEF CoreTypeOK, WritesKept, Idle, Sets

LEMMA StoreStep ==
  ASSUME CoreInv, StoreNext PROVE CoreInv'
<1> USE DEF CoreInv
<1>1. CASE StoreFails \/ StoreRepaired
    BY <1>1 DEF StoreFails, StoreRepaired, CoreTypeOK, WritesKept
<1>2. ASSUME NEW k \in Keys, Evict(k) PROVE CoreInv'
    BY <1>2 DEF Evict, CoreTypeOK, WritesKept
<1>3. CASE Tick
  <2>1. ASSUME NEW k \in Keys, entry[k] # None PROVE Aged(entry[k]) \in Entries \cup {None}
    <3> DEFINE e == entry[k]
    <3>1. e \in Entries BY <2>1 DEF CoreTypeOK
    <3>2. /\ e.content \in Contents /\ e.left \in 1 .. TTL[e.content] /\ e # None
          /\ e = [content |-> e.content, left |-> e.left]
          /\ TTL[e.content] \in Nat
        BY <3>1, EntryFields
    <3>3. CASE e.left = 1 BY <3>3 DEF Aged
    <3>4. CASE e.left # 1
      <4> DEFINE c == e.content
                 n == e.left
      <4>1. n - 1 \in 1 .. TTL[c] BY <3>2, <3>4
      <4>2. Aged(e) = [content |-> c, left |-> n - 1] BY <3>2, <3>4 DEF Aged
      <4> QED BY <3>2, <4>1, <4>2, EntryTyped
    <3> QED BY <3>3, <3>4
  <2>2. entry' \in [Keys -> Entries \cup {None}] BY <1>3, <2>1 DEF Tick
  <2>3. window' \in 0 .. Cooldown \cup {None} BY <1>3, CacheCoreAssumption DEF Tick, CoreTypeOK
  <2> QED BY <1>3, <2>2, <2>3 DEF Tick, CoreTypeOK, WritesKept
<1> QED BY <1>1, <1>2, <1>3 DEF StoreNext

LEMMA UserStepInv ==
  ASSUME CoreInv, NEW u \in Users, UserStep(u) PROVE CoreInv'
BY BeginGetStep, BeginSetStep, StoreAnswersStep, FinishStep DEF UserStep, Begin
-------------------------------------------------------------------------------
\* An operation ends as given up only while its user is gone, and the user
\* comes back only when it is over.
LEMMA CtxStep ==
  ASSUME IInv, [Next]_vars PROVE CtxMeansGone'
<1> USE DEF IInv
<1> SUFFICES ASSUME NEW w \in Users, op'[w] # Idle, op'[w].end = "ctx" PROVE gone'[w]
    BY DEF CtxMeansGone
<1> USE DEF CtxMeansGone, TypeOK, CoreTypeOK
<1>1. CASE StoreNext /\ UNCHANGED gone
    BY <1>1 DEF StoreNext, StoreFails, StoreRepaired, Evict, Tick
<1>2. ASSUME NEW u \in Users, Begin(u), UNCHANGED gone PROVE gone'[w]
    BY <1>2 DEF Begin, BeginGet, BeginSet
<1>3. ASSUME NEW u \in Users, StoreAnswers(u), UNCHANGED gone PROVE gone'[w]
  <2>1. CASE w # u BY <1>3, <2>1 DEF StoreAnswers
  <2>2. CASE w = u
    <3> SUFFICES ASSUME ~gone[u] PROVE FALSE BY <1>3, <2>2
    <3> DEFINE o == op[u]
    <3>1. o \in Gets \cup Sets BY <1>3 DEF StoreAnswers
    <3>2. op' \in {[op EXCEPT ![u].end = Answered(o)], [op EXCEPT ![u].end = "timeout"]}
        BY <1>3 DEF StoreAnswers
    <3>3. Answered(o) # "ctx"
      <4>1. o.do = "get" => o.key \in Keys BY <3>1 DEF Gets, Sets
      <4>2. \A k \in Keys : entry[k] # None => entry[k].content \in Contents BY EntryFields
      <4> QED BY <3>1, <4>1, <4>2, CacheCoreAssumption DEF Answered, Gets, Sets
    <3>4. op'[u].end \in {Answered(o), "timeout"} BY <3>1, <3>2 DEF Gets, Sets
    <3> QED BY <2>2, <3>3, <3>4
  <2> QED BY <2>1, <2>2
<1>4. ASSUME NEW u \in Users, Finish(u), UNCHANGED gone PROVE gone'[w] BY <1>4 DEF Finish
<1>5. ASSUME NEW u \in Users, UserGone(u) \/ UserBack(u) PROVE gone'[w]
    BY <1>5 DEF UserGone, UserBack, coreVars
<1>6. CASE UNCHANGED vars BY <1>6 DEF vars, coreVars
<1> QED BY <1>1, <1>2, <1>3, <1>4, <1>5, <1>6 DEF Next, UserStep

LEMMA NextIInv == IInv /\ [Next]_vars => IInv'
<1> SUFFICES ASSUME IInv, [Next]_vars PROVE IInv'
    OBVIOUS
<1>1. CtxMeansGone' BY CtxStep
<1>2. gone' \in [Users -> BOOLEAN]
    BY DEF IInv, TypeOK, Next, UserGone, UserBack, vars
<1>3. CoreInv BY DEF IInv, TypeOK, CoreInv
<1>4. CoreInv'
  <2>1. CASE StoreNext BY <1>3, <2>1, StoreStep
  <2>2. ASSUME NEW u \in Users, UserStep(u) PROVE CoreInv' BY <1>3, <2>2, UserStepInv
  <2>3. CASE UNCHANGED coreVars
    BY <1>3, <2>3 DEF CoreInv, CoreTypeOK, WritesKept, coreVars
  <2> QED BY <2>1, <2>2, <2>3 DEF Next, UserGone, UserBack, vars
<1> QED BY <1>1, <1>2, <1>4 DEF IInv, TypeOK, CoreInv

\* Entries have time left, operations and the window keep their types, and only
\* a user that has gone gives up an operation.
THEOREM CacheInvariant == Spec => []IInv
<1>1. Init => IInv
    BY CoreInitInv DEF Init, IInv, TypeOK, CoreInv, CtxMeansGone, CoreInit
<1> QED BY <1>1, NextIInv, PTL DEF Spec

\* The cache is put out of use, or kept out of use, only by an operation the
\* store did not answer, never by one its user gave up (core.go:156-158).
THEOREM OnlyTheStoreOpensTheWindow == Spec => OnlyStoreOpensWindow
<1> DEFINE TimedOut == \E u \in Users : op[u] # Idle /\ op[u].end = "timeout"
<1>1. ASSUME IInv, [Next]_vars, window' = Cooldown, window # Cooldown PROVE TimedOut
  <2> USE DEF IInv, TypeOK, CoreTypeOK
  <2>1. CASE StoreNext
    <3>1. Tick BY <1>1, <2>1 DEF StoreNext, StoreFails, StoreRepaired, Evict
    <3> QED BY <1>1, <3>1, CacheCoreAssumption DEF Tick
  <2>2. ASSUME NEW u \in Users, Finish(u) PROVE TimedOut
    <3>1. Cooldown # None BY CacheCoreAssumption
    <3>2. op[u] # Idle /\ op[u].end \in {"timeout", "ctx"} /\ ~gone[u]
        BY <1>1, <2>2, <3>1 DEF Finish, Fail
    <3> QED BY <1>1, <3>2 DEF CtxMeansGone
  <2>3. ASSUME NEW u \in Users, Begin(u) \/ StoreAnswers(u) PROVE TimedOut
    BY <1>1, <2>3 DEF Begin, BeginGet, BeginSet, StoreAnswers
  <2>4. ASSUME NEW u \in Users, UserGone(u) \/ UserBack(u) PROVE TimedOut
    BY <1>1, <2>4 DEF UserGone, UserBack, coreVars
  <2> QED BY <1>1, <2>1, <2>2, <2>3, <2>4 DEF Next, UserStep, vars, coreVars
<1>2. IInv /\ [Next]_vars => [window' = Cooldown /\ window # Cooldown => TimedOut]_vars
    BY <1>1
<1> QED BY <1>2, CacheInvariant, PTL DEF Spec, OnlyStoreOpensWindow
=============================================================================
