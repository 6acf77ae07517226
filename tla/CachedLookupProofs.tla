------------------------- MODULE CachedLookupProofs -------------------------
(***************************************************************************)
(* Proofs about CachedLookup: its steps are steps of the flight group and  *)
(* of the cache core it is made of, so what FlightGroupProofs and          *)
(* CacheCoreProofs show of those carries over.                             *)
(***************************************************************************)
EXTENDS CachedLookup, TLAPS

GroupP == INSTANCE FlightGroupProofs

CoreP == INSTANCE CacheCoreProofs WITH
           Users <- Callers \cup Flights,
           gone <- [u \in Callers \cup Flights |-> IF u \in Callers THEN ended[u] ELSE cancelled[u]]

-------------------------------------------------------------------------------
(* The flight group of the lookups is the one the proofs are about.        *)

LEMMA GroupConstants == GroupP!FlightGroupAssumption
<1>1. IsFiniteSet(Callers) BY CachedLookupAssumption
<1>2. None \notin Flights \cup Keys \cup Answers \cup {Canceled} BY CachedLookupAssumption
<1>3. Canceled \notin Answers BY CachedLookupAssumption DEF Answers, Canceled
<1> QED BY <1>1, <1>2, <1>3 DEF GroupP!FlightGroupAssumption, GroupP!IsFiniteSet, IsFiniteSet

LEMMA SameGroupInvariant == Group!IInv <=> GroupP!IInv
<1>1. \A f : Group!Attached(f) = GroupP!Attached(f) BY DEF Group!Attached, GroupP!Attached
<1>2. \A S : Group!Cardinality(S) = GroupP!Cardinality(S)
    BY DEF Group!Cardinality, GroupP!Cardinality
<1>3. Group!TypeOK <=> GroupP!TypeOK
    BY DEF Group!TypeOK, GroupP!TypeOK, Group!Statuses, GroupP!Statuses, Group!Outcomes, GroupP!Outcomes
<1>4. Group!CallersConsistent <=> GroupP!CallersConsistent
    BY DEF Group!CallersConsistent, GroupP!CallersConsistent
<1>5. Group!FlightsConsistent <=> GroupP!FlightsConsistent
    BY <1>1, <1>2 DEF Group!FlightsConsistent, GroupP!FlightsConsistent
<1>6. Group!MapConsistent <=> GroupP!MapConsistent
    BY DEF Group!MapConsistent, GroupP!MapConsistent, Group!InProgress, GroupP!InProgress
<1>7. Group!WaitersCounted <=> GroupP!WaitersCounted
    BY <1>1, <1>2 DEF Group!WaitersCounted, GroupP!WaitersCounted
<1> QED BY <1>3, <1>4, <1>5, <1>6, <1>7 DEF Group!IInv, GroupP!IInv

LEMMA SameGroupStep == [Group!Next]_(Group!vars) => [GroupP!Next]_(GroupP!vars)
<1> USE DEF Group!flightVars, GroupP!flightVars, Group!callerVars, GroupP!callerVars
<1>1. Group!vars = GroupP!vars /\ Group!vars' = GroupP!vars' BY DEF Group!vars, GroupP!vars
<1>2. ASSUME NEW c \in Callers, Group!Environment(c) PROVE GroupP!Environment(c)
  <2>1. Group!Cardinality(Group!Entering) = GroupP!Cardinality(GroupP!Entering)
      BY DEF Group!Cardinality, GroupP!Cardinality, Group!Entering, GroupP!Entering
  <2>2. Group!Cardinality(Group!Unused) = GroupP!Cardinality(GroupP!Unused)
      BY DEF Group!Cardinality, GroupP!Cardinality, Group!Unused, GroupP!Unused
  <2>3. ASSUME NEW k \in Keys, Group!Call(c, k) PROVE GroupP!Call(c, k)
      BY <2>1, <2>2, <2>3 DEF Group!Call, GroupP!Call
  <2>4. Group!Refuse(c) => GroupP!Refuse(c) BY DEF Group!Refuse, GroupP!Refuse
  <2>5. Group!EndContext(c) => GroupP!EndContext(c) BY DEF Group!EndContext, GroupP!EndContext
  <2> QED BY <1>2, <2>3, <2>4, <2>5 DEF Group!Environment, GroupP!Environment
<1>3. ASSUME NEW c \in Callers, Group!CallerStep(c) PROVE GroupP!CallerStep(c)
  <2> USE DEF Group!Attach, GroupP!Attach, Group!Detach, GroupP!Detach, Group!FreeKey, GroupP!FreeKey
  <2>1. ASSUME NEW f \in Flights, Group!Start(c, f) PROVE GroupP!Start(c, f)
      BY <2>1 DEF Group!Start, GroupP!Start
  <2>2. Group!Join(c) => GroupP!Join(c) BY DEF Group!Join, GroupP!Join
  <2>3. Group!Deliver(c) => GroupP!Deliver(c) BY DEF Group!Deliver, GroupP!Deliver
  <2>4. Group!GiveUp(c) => GroupP!GiveUp(c) BY DEF Group!GiveUp, GroupP!GiveUp
  <2>5. Group!Leave(c) => GroupP!Leave(c) BY DEF Group!Leave, GroupP!Leave
  <2> QED BY <1>3, <2>1, <2>2, <2>3, <2>4, <2>5 DEF Group!CallerStep, GroupP!CallerStep
<1>4. ASSUME NEW f \in Flights, Group!RunStep(f) PROVE GroupP!RunStep(f)
  <2>1. ASSUME NEW o \in Group!Outcomes, Group!FnReturn(f, o) PROVE GroupP!FnReturn(f, o)
      BY <2>1 DEF Group!FnReturn, GroupP!FnReturn
  <2>2. Group!FnStep(f) => GroupP!FnStep(f)
      BY <2>1 DEF Group!FnStep, GroupP!FnStep, Group!Outcomes, GroupP!Outcomes
  <2>3. Group!Free(f) => GroupP!Free(f)
      BY DEF Group!Free, GroupP!Free, Group!FreeKey, GroupP!FreeKey
  <2>4. Group!Close(f) => GroupP!Close(f) BY DEF Group!Close, GroupP!Close
  <2> QED BY <1>4, <2>2, <2>3, <2>4 DEF Group!RunStep, GroupP!RunStep
<1> QED BY <1>1, <1>2, <1>3, <1>4 DEF Group!Next, GroupP!Next

LEMMA GroupKept == Group!IInv /\ [Group!Next]_(Group!vars) => Group!IInv'
BY GroupConstants, GroupP!NextIInv, SameGroupInvariant, SameGroupStep, PTL

LEMMA GroupInit == Group!Init => Group!IInv
<1>1. Group!Init => GroupP!Init BY DEF Group!Init, GroupP!Init
<1> QED BY <1>1, GroupConstants, GroupP!InitIInv, SameGroupInvariant

-------------------------------------------------------------------------------
(* And so is the cache core.                                               *)

Users == Callers \cup Flights

LEMMA CoreConstants == CoreP!CacheCoreAssumption
<1>1. TTL \in [Contents -> Nat] BY CachedLookupAssumption DEF TTL
<1>2. {"pending", "timeout", "ctx"} \cap (Contents \cup {None}) = {}
    BY CachedLookupAssumption DEF Contents, Answers
<1>3. None \notin CoreP!Entries BY NoneAssumption DEF Core!Entries, CoreP!Entries
<1> QED BY <1>1, <1>2, <1>3, CachedLookupAssumption DEF CoreP!CacheCoreAssumption

LEMMA SameCoreInvariant == Core!CoreTypeOK /\ Core!WritesKept <=> CoreP!CoreInv
BY DEF Core!CoreTypeOK, CoreP!CoreTypeOK, Core!WritesKept, CoreP!WritesKept, CoreP!CoreInv,
  Core!Entries, CoreP!Entries, Core!Gets, CoreP!Gets, Core!Sets, CoreP!Sets, Core!Idle, CoreP!Idle

CoreStep == Core!StoreNext \/ \E u \in Users : Core!UserStep(u)

LEMMA SameCoreStep == CoreStep => CoreP!StoreNext \/ \E u \in Users : CoreP!UserStep(u)
<1>1. Core!StoreNext => CoreP!StoreNext
    BY DEF Core!StoreNext, CoreP!StoreNext, Core!StoreFails, CoreP!StoreFails, Core!StoreRepaired,
      CoreP!StoreRepaired, Core!Evict, CoreP!Evict, Core!Tick, CoreP!Tick, Core!Aged, CoreP!Aged
<1>2. ASSUME NEW u \in Users, Core!UserStep(u) PROVE CoreP!UserStep(u)
  <2> USE DEF Core!Idle, CoreP!Idle, Core!Bypassed, CoreP!Bypassed
  <2>1. ASSUME NEW k \in Keys, Core!BeginGet(u, k) PROVE CoreP!BeginGet(u, k)
      BY <2>1 DEF Core!BeginGet, CoreP!BeginGet
  <2>2. ASSUME NEW k \in Keys, NEW v \in Contents, Core!BeginSet(u, k, v) PROVE CoreP!BeginSet(u, k, v)
      BY <2>2 DEF Core!BeginSet, CoreP!BeginSet
  <2>3. Core!Performed(op[u]) = CoreP!Performed(op[u]) /\ Core!Answered(op[u]) = CoreP!Answered(op[u])
      BY DEF Core!Performed, CoreP!Performed, Core!Answered, CoreP!Answered
  <2>4. Core!StoreAnswers(u) => CoreP!StoreAnswers(u)
      BY <2>3 DEF Core!StoreAnswers, CoreP!StoreAnswers
  <2>5. Core!Finish(u) => CoreP!Finish(u)
      BY DEF Core!Finish, CoreP!Finish, Core!Fail, CoreP!Fail
  <2> QED BY <1>2, <2>1, <2>2, <2>4, <2>5 DEF Core!UserStep, CoreP!UserStep, Core!Begin, CoreP!Begin
<1> QED BY <1>1, <1>2 DEF CoreStep

LEMMA CoreKept ==
  Core!CoreTypeOK /\ Core!WritesKept /\ CoreStep => (Core!CoreTypeOK /\ Core!WritesKept)'
<1>1. CoreP!CoreInv /\ CoreStep => CoreP!CoreInv'
    BY SameCoreStep, CoreConstants, CoreP!StoreStep, CoreP!UserStepInv DEF Users
<1> QED BY <1>1, SameCoreInvariant, PTL

LEMMA CoreInit == Core!CoreInit => Core!CoreTypeOK /\ Core!WritesKept
<1>1. Core!CoreInit => CoreP!CoreInit
    BY DEF Core!CoreInit, CoreP!CoreInit, Core!Entries, CoreP!Entries, Core!Idle, CoreP!Idle
<1> QED BY <1>1, CoreConstants, CoreP!CoreInitInv, SameCoreInvariant

-------------------------------------------------------------------------------
(* Every step of a lookup is a step of the group, or none.                 *)

LEMMA GroupStep == IInv /\ [Next]_vars => [Group!Next]_(Group!vars)
<1> SUFFICES ASSUME IInv, [Next]_vars PROVE [Group!Next]_(Group!vars)
    OBVIOUS
<1> DEFINE Stutters == UNCHANGED Group!vars
<1> USE DEF Group!vars, Group!flightVars, Group!callerVars
<1>1. UNCHANGED groupVars => Stutters BY DEF groupVars
<1>2. CASE Environment \/ \E u \in Users : StoreAnswers(u)
    BY <1>1, <1>2 DEF Environment, StoreAnswers
<1>3. ASSUME NEW c \in Callers, NEW k \in Keys, BeginLookup(c, k) \/ Uncached(c, k)
      PROVE  [Group!Next]_(Group!vars)
    BY <1>1, <1>3 DEF BeginLookup, Uncached, Group!Next, Group!Environment
<1>4. ASSUME NEW c \in Callers, CallerStep(c) \/ LookupEnds(c) PROVE [Group!Next]_(Group!vars)
  <2>1. Ended(c) => op[c] \in Core!Gets /\ op[c].key \in Keys /\ pc[c] = "idle"
      BY DEF IInv, OpsFit, Ended, Core!Gets
  <2>2. CASE Hit(c)
    <3>1. ended[c] => Group!Refuse(c) BY <2>1, <2>2 DEF Hit, Group!Refuse
    <3>2. ~ended[c] => Stutters BY <2>2 DEF Hit, IInv, TypeOK, Group!TypeOK
    <3> QED BY <3>1, <3>2 DEF Group!Next, Group!Environment
  <2>3. CASE Miss(c) BY <2>1, <2>3 DEF Miss, Group!Next, Group!Environment
  <2>4. CASE CallerInGroup(c) BY <2>4 DEF CallerInGroup, Group!Next
  <2>5. CASE NextRequest(c) BY <2>5 DEF NextRequest, Group!Next, Group!Environment
  <2>6. CASE LookupEnds(c) BY <2>6 DEF LookupEnds, Group!Next, Group!Environment
  <2> QED BY <1>4, <2>2, <2>3, <2>4, <2>5, <2>6 DEF CallerStep
<1>5. ASSUME NEW f \in Flights, FlightStep(f) \/ Upstream(f) PROVE [Group!Next]_(Group!vars)
  <2>1. CASE Save(f) \/ Upstream(f) BY <1>1, <2>1 DEF Save, Upstream, UpstreamAnswers
  <2>2. CASE Answer(f)
    <3>1. reply[f] \in Group!Outcomes BY <2>2 DEF Answer, IInv, TypeOK, Group!Outcomes
    <3> QED BY <2>2, <3>1 DEF Answer, Group!Next, Group!RunStep, Group!FnStep
  <2>3. CASE RunInGroup(f) BY <2>3 DEF RunInGroup, Group!Next, Group!RunStep
  <2> QED BY <1>5, <2>1, <2>2, <2>3 DEF FlightStep
<1>6. CASE UNCHANGED vars BY <1>1, <1>6 DEF vars
<1> QED BY <1>2, <1>3, <1>4, <1>5, <1>6 DEF Next, Users

LEMMA CoreStepped == IInv /\ [Next]_vars => CoreStep \/ UNCHANGED coreVars
<1> SUFFICES ASSUME IInv, [Next]_vars PROVE CoreStep \/ UNCHANGED coreVars
    OBVIOUS
<1> USE DEF CoreStep, Core!UserStep, Core!Begin, Users
<1>1. CASE Environment \/ \E u \in Users : StoreAnswers(u)
    BY <1>1 DEF Environment, StoreAnswers
<1>2. ASSUME NEW c \in Callers, NEW k \in Keys, BeginLookup(c, k) \/ Uncached(c, k)
      PROVE  CoreStep \/ UNCHANGED coreVars
    BY <1>2 DEF BeginLookup, Uncached
<1>3. ASSUME NEW c \in Callers, CallerStep(c) \/ LookupEnds(c)
      PROVE  CoreStep \/ UNCHANGED coreVars
    BY <1>3 DEF CallerStep, Hit, Miss, CallerInGroup, NextRequest, LookupEnds
<1>4. ASSUME NEW f \in Flights, FlightStep(f) \/ Upstream(f)
      PROVE  CoreStep \/ UNCHANGED coreVars
  <2>1. CASE Save(f)
    <3>1. ToStore(reply[f]) \subseteq Contents BY DEF ToStore, Contents
    <3>2. PICK v \in Contents : Core!BeginSet(f, keyOf[f], v) BY <2>1, <3>1 DEF Save
    <3>3. keyOf[f] \in Keys BY <2>1 DEF Save, IInv, Group!IInv, Group!FlightsConsistent
    <3> QED BY <3>2, <3>3
  <2>2. CASE Answer(f) \/ RunInGroup(f) \/ Upstream(f)
      BY <2>2 DEF Answer, RunInGroup, Upstream, UpstreamAnswers
  <2> QED BY <1>4, <2>1, <2>2 DEF FlightStep
<1>5. CASE UNCHANGED vars BY <1>5 DEF vars
<1> QED BY <1>1, <1>2, <1>3, <1>4, <1>5 DEF Next

LEMMA PartsKept ==
  IInv /\ [Next]_vars => Group!IInv' /\ Group!TypeOK' /\ Core!CoreTypeOK' /\ Core!WritesKept'
<1> SUFFICES ASSUME IInv, [Next]_vars
             PROVE  Group!IInv' /\ Group!TypeOK' /\ Core!CoreTypeOK' /\ Core!WritesKept'
    OBVIOUS
<1>1. Group!IInv' BY GroupStep, GroupKept DEF IInv
<1>2. CASE CoreStep BY <1>1, <1>2, CoreKept DEF IInv, TypeOK, Group!IInv
<1>3. CASE UNCHANGED coreVars
    BY <1>1, <1>3 DEF coreVars, IInv, TypeOK, Group!IInv, Core!CoreTypeOK, Core!WritesKept
<1> QED BY <1>2, <1>3, CoreStepped

\* The operations under way keep fitting what their callers and flights do.
LEMMA OpsFitKept ==
  ASSUME IInv, [Next]_vars, Core!CoreTypeOK' PROVE OpsFit'
<1> USE DEF IInv, OpsFit, Free
<1>1. Core!Idle \notin Core!Gets \cup Core!Sets BY DEF Core!Idle, Core!Gets, Core!Sets
<1>2. CASE Environment \/ UNCHANGED vars
    BY <1>2 DEF Environment, Core!StoreNext, Core!StoreFails, Core!StoreRepaired, Core!Evict,
      Core!Tick, vars, groupVars, coreVars
<1>3. ASSUME NEW u \in Users, StoreAnswers(u) PROVE OpsFit'
  <2> DEFINE o == op[u]
  <2>1. UNCHANGED <<groupVars, reply>> BY <1>3 DEF StoreAnswers
  <2>2. PICK end : op' = [op EXCEPT ![u].end = end]
      BY <1>3 DEF StoreAnswers, Core!StoreAnswers
  <2>3. o # Core!Idle BY <1>3 DEF StoreAnswers, Core!StoreAnswers
  <2>4. op'[u] \in {Core!Idle} \cup Core!Gets \cup Core!Sets /\ u \in DOMAIN op
      BY DEF Core!CoreTypeOK, Users, TypeOK
  <2>5. op'[u] = [o EXCEPT !.end = end] BY <2>2, <2>4
  <2>6. o \in Core!Gets => op'[u] \in Core!Gets BY <2>4, <2>5 DEF Core!Idle, Core!Gets, Core!Sets
  <2>7. o \in Core!Sets => op'[u] \in Core!Sets /\ op'[u].key = o.key /\ op'[u].content = o.content
      BY <2>4, <2>5 DEF Core!Idle, Core!Gets, Core!Sets
  <2>8. \A w \in Users : w # u => op'[w] = op[w] BY <2>2 DEF TypeOK, Core!CoreTypeOK, Users
  <2> QED BY <2>1, <2>3, <2>6, <2>7, <2>8 DEF groupVars, Users
<1>4. ASSUME NEW c \in Callers, NEW k \in Keys, BeginLookup(c, k) PROVE OpsFit'
  <2>1. [do |-> "get", key |-> k, end |-> "pending"] \in Core!Gets BY DEF Core!Gets
  <2> QED BY <1>4, <2>1, CachedLookupAssumption
      DEF BeginLookup, Core!BeginGet, groupVars, TypeOK, Core!CoreTypeOK
<1>5. ASSUME NEW c \in Callers, NEW k \in Keys, Uncached(c, k) PROVE OpsFit'
    BY <1>5 DEF Uncached, Group!Call, Group!flightVars, coreVars, TypeOK, Group!TypeOK
<1>6. ASSUME NEW c \in Callers, Hit(c) \/ Miss(c) PROVE OpsFit'
  <2>1. op' = [op EXCEPT ![c] = Core!Idle] BY <1>6 DEF Hit, Miss, Core!Finish
  <2>2. UNCHANGED <<status, keyOf, reply>> BY <1>6 DEF Hit, Miss, Group!Call, Group!Refuse, Group!flightVars
  <2>3. \A d \in Callers \ {c} : pc'[d] = pc[d]
      BY <1>6 DEF Hit, Miss, Group!Call, Group!Refuse, TypeOK, Group!TypeOK
  <2> QED BY <2>1, <2>2, <2>3, CachedLookupAssumption DEF TypeOK, Core!CoreTypeOK
<1>7. ASSUME NEW c \in Callers, CallerInGroup(c) PROVE OpsFit'
  <2>1. UNCHANGED <<op, reply>> /\ Free(c) BY <1>7 DEF CallerInGroup, coreVars
  <2>2. \A d \in Callers \ {c} : pc'[d] = pc[d]
      BY <1>7 DEF CallerInGroup, Group!CallerStep, Group!Start, Group!Join, Group!Deliver, Group!GiveUp,
        Group!Leave, Group!Attach, Group!Detach, TypeOK, Group!TypeOK
  <2>3. \A f \in Flights : status[f] = "running" => status'[f] = status[f] /\ keyOf'[f] = keyOf[f]
      BY <1>7 DEF CallerInGroup, Group!CallerStep, Group!Start, Group!Join, Group!Deliver, Group!GiveUp,
        Group!Leave, Group!flightVars, TypeOK, Group!TypeOK
  <2> QED BY <2>1, <2>2, <2>3
<1>8. ASSUME NEW c \in Callers, NextRequest(c) \/ LookupEnds(c) PROVE OpsFit'
    BY <1>8 DEF NextRequest, LookupEnds, Group!Refuse, Group!EndContext, Group!flightVars, coreVars
<1>9. ASSUME NEW f \in Flights, Save(f) PROVE OpsFit'
  <2>1. keyOf[f] \in Keys BY <1>9 DEF Save, Group!IInv, Group!FlightsConsistent
  <2>2. PICK v \in ToStore(reply[f]) : Core!BeginSet(f, keyOf[f], v) BY <1>9 DEF Save
  <2>3. v = reply[f] /\ v \in Contents BY DEF ToStore, Contents
  <2>4. [do |-> "set", key |-> keyOf[f], content |-> v, end |-> "pending"] \in Core!Sets
      BY <2>1, <2>3 DEF Core!Sets
  <2> QED BY <1>9, <2>2, <2>3, <2>4, CachedLookupAssumption
      DEF Save, Core!BeginSet, groupVars, TypeOK, Core!CoreTypeOK
<1>10. ASSUME NEW f \in Flights, Answer(f) PROVE OpsFit'
  <2>1. op'[f] = Core!Idle /\ \A w \in Users : w # f => op'[w] = op[w]
      BY <1>10 DEF Answer, Core!Finish, coreVars, Users, TypeOK, Core!CoreTypeOK
  <2>2. /\ UNCHANGED <<pc, keyOf>>
        /\ \A g \in Flights \ {f} : status'[g] = status[g] /\ reply'[g] = reply[g]
      BY <1>10 DEF Answer, Group!FnReturn, Group!callerVars, TypeOK, Group!TypeOK
  <2> QED BY <2>1, <2>2, CachedLookupAssumption DEF Users
<1>11. ASSUME NEW f \in Flights, RunInGroup(f) PROVE OpsFit'
  <2>1. UNCHANGED <<op, reply, pc, keyOf>>
      BY <1>11 DEF RunInGroup, Group!Free, Group!Close, Group!callerVars, coreVars
  <2>2. \A g \in Flights : status[g] = "running" => status'[g] = status[g]
      BY <1>11 DEF RunInGroup, Group!Free, Group!Close, TypeOK, Group!TypeOK
  <2> QED BY <2>1, <2>2
<1>12. ASSUME NEW f \in Flights, Upstream(f) PROVE OpsFit'
  <2>1. UNCHANGED <<groupVars, coreVars>> /\ reply[f] = None
      BY <1>12 DEF Upstream, UpstreamAnswers
  <2>2. \A g \in Flights \ {f} : reply'[g] = reply[g]
      BY <1>12 DEF Upstream, UpstreamAnswers, TypeOK
  <2>3. Free(f) BY <2>1, CachedLookupAssumption DEF Core!Sets
  <2> QED BY <2>1, <2>2, <2>3 DEF groupVars, coreVars
<1> QED BY <1>2, <1>3, <1>4, <1>5, <1>6, <1>7, <1>8, <1>9, <1>10, <1>11, <1>12
    DEF Next, CallerStep, FlightStep, Users

LEMMA ReplyTyped ==
  ASSUME IInv, [Next]_vars PROVE reply' \in [Flights -> Answers \cup {Canceled, None}]
<1> USE DEF IInv, TypeOK
<1>1. ASSUME NEW f \in Flights, Upstream(f) PROVE reply' \in [Flights -> Answers \cup {Canceled, None}]
    BY <1>1 DEF Upstream, UpstreamAnswers
<1>2. ASSUME NEW f \in Flights, FlightStep(f) PROVE reply' \in [Flights -> Answers \cup {Canceled, None}]
    BY <1>2 DEF FlightStep, Save, Answer, RunInGroup
<1> QED BY <1>1, <1>2 DEF Next, vars, Environment, BeginLookup, Uncached, CallerStep, Hit, Miss,
    CallerInGroup, NextRequest, LookupEnds, StoreAnswers

LEMMA NextIInv == IInv /\ [Next]_vars => IInv'
BY PartsKept, OpsFitKept, ReplyTyped DEF IInv, TypeOK

LEMMA InitIInv == Init => IInv
<1> SUFFICES ASSUME Init PROVE IInv
    OBVIOUS
<1>1. Group!IInv BY GroupInit DEF Init
<1>2. Core!CoreTypeOK /\ Core!WritesKept BY CoreInit DEF Init
<1>3. OpsFit BY DEF Init, OpsFit, Free, Core!CoreInit
<1> QED BY <1>1, <1>2, <1>3 DEF Init, IInv, TypeOK, Group!IInv

-------------------------------------------------------------------------------
\* Types, and an operation of a flight is about the answer of its own key.
THEOREM LookupsInvariant == Spec => []IInv
BY InitIInv, NextIInv, PTL DEF Spec

\* The lookups do to the group of flights what FlightGroup allows, and nothing
\* else: every theorem about FlightGroup holds of them.
THEOREM LookupsUseFlightGroup == Spec => UsesFlightGroup
<1>1. Init => Group!Init BY DEF Init
<1> QED BY <1>1, GroupStep, LookupsInvariant, PTL DEF Spec, UsesFlightGroup, Group!Spec

\* Of two runs writing the answer of one key at the same time one has been
\* abandoned by all its callers.
THEOREM LookupsHaveOneUsefulWriter == Spec => []OneUsefulWriter
<1>1. IInv => OneUsefulWriter
    BY DEF IInv, OpsFit, OneUsefulWriter, Group!IInv, Group!MapConsistent, Group!InProgress
<1> QED BY <1>1, LookupsInvariant, PTL

\* Neither a failure of upstream nor a cancellation is ever stored, and an
\* answer is stored under the key it was asked for.
THEOREM LookupsStoreOnlyAnswers == Spec => OnlyAnswersStored
<1> DEFINE Stored(k) == /\ entry'[k] # None
                        /\ entry[k] = None \/ entry'[k].content # entry[k].content
           Answered(k) == \E f \in Flights : keyOf[f] = k /\ reply[f] = entry'[k].content
<1>1. ASSUME IInv, [Next]_vars, NEW k \in Keys, Stored(k) PROVE Answered(k)
  <2> USE <1>1 DEF IInv, TypeOK, Core!CoreTypeOK
  <2>1. CASE UNCHANGED entry BY <2>1
  <2>2. ASSUME Environment PROVE Answered(k)
    <3>1. Core!Tick \/ \E j \in Keys : Core!Evict(j)
        BY <1>1, <2>1, <2>2 DEF Environment, Core!StoreNext, Core!StoreFails, Core!StoreRepaired
    <3>2. ASSUME entry[k] # None PROVE Core!Aged(entry[k]) # None => Core!Aged(entry[k]).content = entry[k].content
      <4>1. PICK v \in Contents : entry[k] \in [content : {v}, left : 1 .. TTL[v]]
          BY <3>2 DEF Core!Entries
      <4> QED BY <4>1 DEF Core!Aged
    <3> QED BY <1>1, <3>1, <3>2 DEF Core!Tick, Core!Evict
  <2>3. ASSUME NEW u \in Users, StoreAnswers(u) PROVE Answered(k)
    <3>1. op[u].do = "set" /\ op[u].key = k /\ op[u] \in Core!Gets \cup Core!Sets
        BY <1>1, <2>3 DEF StoreAnswers, Core!StoreAnswers, Core!Performed, Users
    <3>2. ~Free(u) BY <2>3 DEF StoreAnswers, Core!StoreAnswers, Free
    <3>3. u \in Flights BY <3>1, <3>2 DEF OpsFit, Core!Gets, Users
    <3>4. entry'[k].content = op[u].content
        BY <1>1, <2>3, <3>1 DEF StoreAnswers, Core!StoreAnswers, Core!Performed
    <3> QED BY <3>1, <3>2, <3>3, <3>4 DEF OpsFit
  <2>4. Environment \/ (\E u \in Users : StoreAnswers(u)) \/ UNCHANGED entry
      BY <1>1 DEF Next, vars, coreVars, BeginLookup, Core!BeginGet, Uncached, CallerStep, Hit, Miss, Core!Finish,
        CallerInGroup, NextRequest, LookupEnds, FlightStep, Save, Core!BeginSet, Answer, RunInGroup,
        Upstream, UpstreamAnswers, Users
  <2> QED BY <2>1, <2>2, <2>3, <2>4
<1>2. IInv /\ [Next]_vars =>
        [\A k \in Keys : entry'[k] # None /\ (entry[k] = None \/ entry'[k].content # entry[k].content) =>
            \E f \in Flights : keyOf[f] = k /\ reply[f] = entry'[k].content]_vars
    BY <1>1
<1> QED BY <1>2, LookupsInvariant, PTL DEF Spec, OnlyAnswersStored
=============================================================================
