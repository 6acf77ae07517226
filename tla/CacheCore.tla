----------------------------- MODULE CacheCore -----------------------------
(***************************************************************************)
(* src/internal/cache/core.go over the Redis store of store.go: reads and  *)
(* writes of cached answers with a deadline per operation, and the window  *)
(* in which a store that failed is bypassed.                               *)
(*                                                                         *)
(* Users are the goroutines inside get or set.  An operation is begun by   *)
(* its user, answered (or not) by the store, and only then handled by the  *)
(* user: other users come in between.  Time is counted in ticks left, so   *)
(* it need not be bounded: a tick is a fraction of the shortest TTL.       *)
(***************************************************************************)
EXTENDS Naturals, FiniteSets

CONSTANTS Users,      \* goroutines using the cache
          Keys,
          Contents,   \* what may be cached under a key
          TTL,        \* TTL[v]: ticks a content is kept; 0: never stored
          Cooldown,   \* Config.Cooldown in ticks
          None        \* absent entry, healthy store, idle user

\* An entry, with the ticks it has left.
Entries == UNION {[content : {v}, left : 1 .. TTL[v]] : v \in Contents}

ASSUME CacheCoreAssumption == /\ TTL \in [Contents -> Nat]
                              /\ Cooldown \in Nat \ {0}
                              /\ None \notin Contents \cup Keys \cup Entries \cup Nat
                              /\ {"pending", "timeout", "ctx"} \cap (Contents \cup {None}) = {}

VARIABLES up,         \* the store answers in time
          entry,      \* what the store holds, with the ticks it has left
          window,     \* bypassUntil, in ticks from now; None is the value zero
          op,         \* the operation each user is in
          gone        \* gone[u]: the context u started its operation from ended

coreVars == <<up, entry, window, op>>

\* An operation in flight, and how it ended.  "timeout" and "ctx" are errors
\* the code cannot tell apart by looking at them.
Idle == [do |-> "none"]
Gets == [do : {"get"}, key : Keys, end : Contents \cup {None, "pending", "timeout", "ctx"}]
Sets == [do : {"set"}, key : Keys, content : Contents,
         end : {"pending", "done", "timeout", "ctx"}]

CoreTypeOK == /\ up \in BOOLEAN
              /\ entry \in [Keys -> Entries \cup {None}]
              /\ window \in 0 .. Cooldown \cup {None}
              /\ op \in [Users -> {Idle} \cup Gets \cup Sets]

\* The store outlives the process: an earlier one may have filled it.
CoreInit == /\ up \in BOOLEAN
            /\ entry \in [Keys -> Entries \cup {None}]
            /\ window = None
            /\ op = [u \in Users |-> Idle]

\* Bug: bypassed forgets that a window ends.
Bypassed_Forever(w) == w # None

\* core.bypassed: until != 0 and now < until.
Bypassed(w) == w # None /\ w > 0

-----------------------------------------------------------------------------
(* get and set.                                                            *)

BeginGet(u, k) == /\ op[u] = Idle
                  /\ ~Bypassed(window)
                  /\ op' = [op EXCEPT ![u] = [do |-> "get", key |-> k, end |-> "pending"]]
                  /\ UNCHANGED <<up, entry, window>>

BeginSet(u, k, v) ==
    /\ op[u] = Idle
    /\ TTL[v] > 0 /\ ~Bypassed(window)
    /\ op' = [op EXCEPT ![u] = [do |-> "set", key |-> k, content |-> v, end |-> "pending"]]
    /\ UNCHANGED <<up, entry, window>>

\* What the operation of u leaves in the store if the store performs it.
Performed(o) == IF o.do = "set"
                THEN [entry EXCEPT ![o.key] = [content |-> o.content, left |-> TTL[o.content]]]
                ELSE entry

Answered(o) == IF o.do = "set" THEN "done"
               ELSE IF entry[o.key] = None THEN None ELSE entry[o.key].content

\* The store answers, the deadline of the operation passes, or the context it
\* was started from ends.  A write whose answer is lost may have happened.
StoreAnswers(u) ==
    /\ op[u] # Idle
    /\ op[u].end = "pending"
    /\ \/ /\ up
          /\ entry' = Performed(op[u])
          /\ op' = [op EXCEPT ![u].end = Answered(op[u])]
       \/ \E error \in {"timeout", "ctx"} :
             /\ IF error = "timeout" THEN ~up ELSE gone[u]
             /\ entry' \in {entry, Performed(op[u])}
             /\ op' = [op EXCEPT ![u].end = error]
    /\ UNCHANGED <<up, window>>

\* Bug: fail blames the store for an operation its user gave up.
Fail_BlamesStore(u) == window' = Cooldown

\* core.fail: an error counts unless the user's own context has ended.
Fail(u) == window' = IF gone[u] THEN window ELSE Cooldown

\* The rest of get or set once the store call is over: core.recovered after a
\* successful read, nothing after a successful write.
Finish(u) ==
    /\ op[u] # Idle
    /\ op[u].end # "pending"
    /\ IF op[u].end \in {"timeout", "ctx"} THEN Fail(u)
       ELSE window' = IF op[u].do = "get" THEN None ELSE window
    /\ op' = [op EXCEPT ![u] = Idle]
    /\ UNCHANGED <<up, entry>>

-----------------------------------------------------------------------------
(* The environment.                                                        *)

StoreFails == up /\ up' = FALSE /\ UNCHANGED <<entry, window, op>>
StoreRepaired == ~up /\ up' = TRUE /\ UNCHANGED <<entry, window, op>>

\* Redis may drop an entry early, to make room or by restarting.
Evict(k) == /\ entry[k] # None
            /\ entry' = [entry EXCEPT ![k] = None]
            /\ UNCHANGED <<up, window, op>>

Aged(e) == IF e = None \/ e.left = 1 THEN None ELSE [e EXCEPT !.left = @ - 1]
Tick == /\ entry' = [k \in Keys |-> IF entry[k] = None THEN None ELSE Aged(entry[k])]
        /\ window' = IF window = None \/ window = 0 THEN window ELSE window - 1
        /\ UNCHANGED <<up, op>>

UserGone(u) == ~gone[u] /\ op[u] # Idle /\ gone' = [gone EXCEPT ![u] = TRUE] /\ UNCHANGED coreVars
UserBack(u) == gone[u] /\ op[u] = Idle /\ gone' = [gone EXCEPT ![u] = FALSE] /\ UNCHANGED coreVars

StoreNext == StoreFails \/ StoreRepaired \/ (\E k \in Keys : Evict(k)) \/ Tick
Begin(u) == \E k \in Keys : BeginGet(u, k) \/ \E v \in Contents : BeginSet(u, k, v)
UserStep(u) == Begin(u) \/ StoreAnswers(u) \/ Finish(u)

vars == <<coreVars, gone>>
TypeOK == CoreTypeOK /\ gone \in [Users -> BOOLEAN]
Init == CoreInit /\ gone = [u \in Users |-> FALSE]
Next == \/ StoreNext /\ UNCHANGED gone
        \/ \E u \in Users : UserStep(u) /\ UNCHANGED gone
        \/ \E u \in Users : UserGone(u) \/ UserBack(u)
Spec == Init /\ [][Next]_vars

\* Operations end (they have a deadline) and time passes.
FairSpec == /\ Spec
            /\ \A u \in Users : /\ WF_vars(StoreAnswers(u) /\ UNCHANGED gone)
                                  /\ WF_vars(Finish(u) /\ UNCHANGED gone)
            /\ WF_vars(Tick /\ UNCHANGED gone)

-----------------------------------------------------------------------------
(* Properties.                                                             *)

\* A window opens, or is extended, only because the store did not answer in
\* time, never because the user of an operation left (core.go:156-158).
OnlyStoreOpensWindow ==
    [][window' = Cooldown /\ window # Cooldown =>
         \E u \in Users : op[u] # Idle /\ op[u].end = "timeout"]_vars

\* A store that stays reachable is used again: in the end it is not bypassed,
\* however many operations that started while it was down are still to fail.
RepairedStoreUsedAgain == <>[]up => <>[]~Bypassed(window)

\* What makes it inductive: nothing is being written that is not to be kept,
\* so entries have time left; and an operation given up was given up by its user.
WritesKept == \A u \in Users : op[u] \in Sets => TTL[op[u].content] > 0
CtxMeansGone == \A u \in Users : op[u] # Idle /\ op[u].end = "ctx" => gone[u]

IInv == TypeOK /\ WritesKept /\ CtxMeansGone
=============================================================================
