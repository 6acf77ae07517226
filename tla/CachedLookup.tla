---------------------------- MODULE CachedLookup ----------------------------
(***************************************************************************)
(* src/internal/cache/searcher.go (and artists.go, the same with another   *)
(* TTL and no "not found"): a lookup reads the cache, and on a miss shares *)
(* an upstream lookup whose answer is stored before it is handed out.      *)
(*                                                                         *)
(* FlightGroup is the sharing, CacheCore the store access.  The users of   *)
(* the store are the callers, who read, and the flights, who write.        *)
(***************************************************************************)
EXTENDS Naturals, FiniteSets

CONSTANTS Callers, Keys, Flights,
          Found,      \* kinds of tracks upstream finds, see below
          Negative,   \* {"notfound"}, or {} for artists: no tags is all they lack
          Unreadable, \* entries json.Unmarshal rejects
          FullTTL, LowDataTTL, NegativeTTL, Cooldown,     \* Config, in ticks
          None

VARIABLES calls, status, keyOf, cancelled, waiters, outcome,   \* flights
          pc, want, on, ended,                                 \* callers of do
          up, entry, window, op,                               \* the store
          reply       \* what upstream answered a flight, until it is handed out

\* "full": a track (or artist) with LowDataTags tags or more; "thin": one with
\* fewer; "untagged": one with none; "failed": any upstream error, and the error
\* made of a panic.
Answers == Found \cup Negative \cup {"failed"}
Canceled == "canceled"

Contents == Found \cup Negative \cup Unreadable

\* How long SearchTrack keeps an answer.
TTL == [v \in Contents |-> CASE v = "full" -> FullTTL
                             [] v = "notfound" -> NegativeTTL
                             [] OTHER -> LowDataTTL]

ASSUME CachedLookupAssumption == /\ IsFiniteSet(Callers) /\ Callers \cap Flights = {}
                                 /\ Cooldown \in Nat \ {0}
                                 /\ None \notin Flights \cup Keys \cup Contents \cup Answers \cup Nat
                                 /\ None \notin {Canceled, "pending", "timeout", "ctx"}
                                 /\ Found \subseteq {"full", "thin", "untagged"}
                                 /\ Negative \subseteq {"notfound"}
                                 /\ Unreadable \cap (Answers \cup {"pending", "timeout", "ctx"}) = {}
                                 /\ {FullTTL, LowDataTTL, NegativeTTL} \subseteq Nat

Group == INSTANCE FlightGroup

\* An operation is given up when the context it runs under ends: the caller's
\* for a read, the flight's for a write.
Core == INSTANCE CacheCore WITH
          Users <- Callers \cup Flights,
          gone <- [u \in Callers \cup Flights |-> IF u \in Callers THEN ended[u] ELSE cancelled[u]]

ASSUME NoneAssumption == None \notin Core!Entries

groupVars == <<calls, status, keyOf, cancelled, waiters, outcome, pc, want, on, ended>>
coreVars == <<up, entry, window, op>>
vars == <<groupVars, coreVars, reply>>

TypeOK == /\ Group!TypeOK
          /\ Core!CoreTypeOK
          /\ reply \in [Flights -> Answers \cup {Canceled, None}]

Init == /\ Group!Init
        /\ Core!CoreInit
        /\ reply = [f \in Flights |-> None]

Free(u) == op[u] = Core!Idle
Ended(u) == ~Free(u) /\ op[u].end # "pending"

-----------------------------------------------------------------------------
(* The caller: SearchTrack up to the call of do.                           *)

\* The bound of FlightGroup, for callers that are still reading.
Room == Cardinality({c \in Callers : ~Free(c) \/ pc[c] = "entering"}) < Cardinality(Group!Unused)

BeginLookup(c, k) == /\ Free(c) /\ pc[c] = "idle" /\ ~ended[c] /\ Room
                     /\ Core!BeginGet(c, k)
                     /\ UNCHANGED <<groupVars, reply>>

\* While the store is bypassed every lookup is a miss at once.
Uncached(c, k) == /\ Free(c) /\ Room
                  /\ Core!Bypassed(window)
                  /\ Group!Call(c, k)
                  /\ UNCHANGED <<coreVars, reply>>

\* A hit returns, even to a caller whose context has just ended.
Hit(c) == /\ Ended(c) /\ op[c].end \in Contents \ Unreadable
          /\ Core!Finish(c)
          /\ ended' = [ended EXCEPT ![c] = FALSE]
          /\ UNCHANGED <<calls, status, keyOf, cancelled, waiters, outcome, pc, want, on, reply>>

\* Bug: a caller whose context has ended goes on to join a run.
Miss_IgnoresContext(c) == /\ Ended(c) /\ op[c].end \notin Contents \ Unreadable
                          /\ Core!Finish(c)
                          /\ pc' = [pc EXCEPT ![c] = "entering"]
                          /\ want' = [want EXCEPT ![c] = op[c].key]
                          /\ UNCHANGED <<calls, status, keyOf, cancelled, waiters, outcome,
                                         on, ended, reply>>

\* Absent, unreadable or failed: on to do.
Miss(c) == /\ Ended(c) /\ op[c].end \notin Contents \ Unreadable
           /\ Core!Finish(c)
           /\ Group!Call(c, op[c].key) \/ Group!Refuse(c)
           /\ UNCHANGED reply

\* The rest of do, and the end of a caller's context at any point.
CallerInGroup(c) == /\ Free(c)
                    /\ Group!CallerStep(c)
                    /\ UNCHANGED <<coreVars, reply>>
LookupEnds(c) == Group!EndContext(c) /\ UNCHANGED <<coreVars, reply>>
NextRequest(c) == Free(c) /\ Group!Refuse(c) /\ UNCHANGED <<coreVars, reply>>

-----------------------------------------------------------------------------
(* The shared function: ask upstream, store the answer, return it.         *)

UpstreamAnswers(f, a) == /\ status[f] = "running" /\ reply[f] = None
                         /\ a = Canceled => cancelled[f]
                         /\ reply' = [reply EXCEPT ![f] = a]
                         /\ UNCHANGED <<groupVars, coreVars>>

\* Bug: the empty track that comes with an error is stored.
ToStore_ZeroTrack(a) == IF a = Canceled THEN {} ELSE {"untagged"}

\* What SearchTrack saves of an answer: nothing, or the answer.
ToStore(a) == IF a \in Found \cup Negative THEN {a} ELSE {}

Save(f) == /\ status[f] = "running" /\ reply[f] # None
           /\ \E v \in ToStore(reply[f]) : Core!BeginSet(f, keyOf[f], v)
           /\ UNCHANGED <<groupVars, reply>>

\* fn returns: with nothing to store, with the store bypassed or told not to
\* keep it, or once the write is over, whatever came of it.
Answer(f) == /\ reply[f] # None
             /\ \/ /\ Ended(f)
                   /\ Core!Finish(f)
                \/ /\ Free(f)
                   /\ \A v \in ToStore(reply[f]) : TTL[v] = 0 \/ Core!Bypassed(window)
                   /\ UNCHANGED coreVars
             /\ Group!FnReturn(f, reply[f])
             /\ reply' = [reply EXCEPT ![f] = None]

RunInGroup(f) == (Group!Free(f) \/ Group!Close(f)) /\ UNCHANGED <<coreVars, reply>>

-----------------------------------------------------------------------------
StoreAnswers(u) == Core!StoreAnswers(u) /\ UNCHANGED <<groupVars, reply>>
Environment == Core!StoreNext /\ UNCHANGED <<groupVars, reply>>

CallerStep(c) == Hit(c) \/ Miss(c) \/ CallerInGroup(c) \/ NextRequest(c)
FlightStep(f) == Save(f) \/ Answer(f) \/ RunInGroup(f)
Upstream(f) == \E a \in Answers \cup {Canceled} : UpstreamAnswers(f, a)

Next == \/ Environment
        \/ \E c \in Callers : \/ \E k \in Keys : BeginLookup(c, k) \/ Uncached(c, k)
                              \/ CallerStep(c) \/ LookupEnds(c)
        \/ \E f \in Flights : FlightStep(f) \/ Upstream(f)
        \/ \E u \in Callers \cup Flights : StoreAnswers(u)

Spec == Init /\ [][Next]_vars

\* Store operations have a deadline and goroutines are scheduled; upstream may
\* hang until it is cancelled, but a caller's context ends (handlers.go gives
\* every request a deadline).
FairSpec == /\ Spec
            /\ \A u \in Callers \cup Flights : WF_vars(StoreAnswers(u))
            /\ \A c \in Callers : WF_vars(CallerStep(c)) /\ WF_vars(LookupEnds(c))
            /\ \A f \in Flights : /\ WF_vars(FlightStep(f))
                                  /\ WF_vars(cancelled[f] /\ Upstream(f))

-----------------------------------------------------------------------------
(* Properties.                                                             *)

\* Only an answer upstream gave for the key is ever stored, under that key:
\* neither an upstream failure nor a cancellation becomes one (searcher.go:62).
OnlyAnswersStored ==
    [][\A k \in Keys :
         entry'[k] # None /\ (entry[k] = None \/ entry'[k].content # entry[k].content) =>
            \E f \in Flights : keyOf[f] = k /\ reply[f] = entry'[k].content]_vars

\* Of two runs writing the answer of one key at the same time one has been
\* abandoned by all its callers: a useful answer is not raced by another one.
OneUsefulWriter ==
    \A f, g \in Flights : ~Free(f) /\ ~Free(g) /\ op[f].key = op[g].key /\ f # g
                          => cancelled[f] \/ cancelled[g]

\* A lookup ends, with the store down or up, upstream hanging or not.
LookupReturns == \A c \in Callers : (~Free(c) \/ pc[c] # "idle") ~> (Free(c) /\ pc[c] = "idle")

\* The lookups do to the group of flights what FlightGroup allows, and nothing
\* else, so what is shown of FlightGroup holds of them.
UsesFlightGroup == Group!Spec

\* What makes it inductive: a caller reads before it calls do, and a flight
\* writes the answer of its own key while fn is running.
OpsFit ==
    /\ \A c \in Callers : ~Free(c) => op[c] \in Core!Gets /\ pc[c] = "idle"
    /\ \A f \in Flights : ~Free(f) => /\ op[f] \in Core!Sets /\ op[f].key = keyOf[f]
                                      /\ op[f].content = reply[f]
                                      /\ status[f] = "running"

IInv == TypeOK /\ Core!WritesKept /\ OpsFit /\ Group!IInv
=============================================================================
