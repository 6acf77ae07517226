---------------------------- MODULE SharedLookup ----------------------------
(***************************************************************************)
(* What src/internal/cache/flight.go promises its callers, without the     *)
(* waiter counter, the cancellation flags or the order of the locked       *)
(* sections.  Callers asking for the same key at the same time form a      *)
(* batch; a batch gets one answer, and the departure of some members never *)
(* changes the answer of the members that stay.  FlightGroup implements    *)
(* this specification.                                                     *)
(***************************************************************************)
CONSTANTS Callers, Keys,
          Batches,   \* identities of batches
          None,      \* "no batch"
          Answers,   \* what the shared function may answer ...
          Canceled   \* ... and its answer when it was told to stop

VARIABLES open,      \* open[k]: the batch that a new caller of k joins
          formed,    \* batches that exist or have existed
          answer,    \* answer[b]: None until the batch has been answered
          member     \* member[c]: the batch c waits in

vars == <<open, formed, answer, member>>

Members(b) == {c \in Callers : member[c] = b}

Init == /\ open = [k \in Keys |-> None]
        /\ formed = {}
        /\ answer = [b \in Batches |-> None]
        /\ member = [c \in Callers |-> None]

\* The first caller of a key opens a batch ...
Form(c, k, b) == /\ member[c] = None
                 /\ open[k] = None
                 /\ b \notin formed
                 /\ open' = [open EXCEPT ![k] = b]
                 /\ formed' = formed \cup {b}
                 /\ member' = [member EXCEPT ![c] = b]
                 /\ UNCHANGED answer

\* ... and those who come while it is open join it.
Join(c, k) == /\ member[c] = None
              /\ open[k] # None
              /\ member' = [member EXCEPT ![c] = open[k]]
              /\ UNCHANGED <<open, formed, answer>>

\* A batch is answered once, and told "canceled" only when nobody is in it.
Answer(b, a) == /\ b \in formed
                /\ answer[b] = None
                /\ a = Canceled => Members(b) = {}
                /\ answer' = [answer EXCEPT ![b] = a]
                /\ UNCHANGED <<open, formed, member>>

\* An answered batch stops taking members.
Retire(k) == /\ open[k] # None
             /\ answer[open[k]] # None
             /\ open' = [open EXCEPT ![k] = None]
             /\ UNCHANGED <<formed, answer, member>>

\* Members of an answered batch that is no longer open return with its answer.
Deliver(c) == /\ member[c] # None
              /\ answer[member[c]] # None
              /\ \A k \in Keys : open[k] # member[c]
              /\ member' = [member EXCEPT ![c] = None]
              /\ UNCHANGED <<open, formed, answer>>

\* A member may leave; the batch closes exactly when it was the last one.
Leave(c) == /\ member[c] # None
            /\ member' = [member EXCEPT ![c] = None]
            /\ open' = [k \in Keys |->
                          IF open[k] = member[c] /\ Members(member[c]) = {c}
                          THEN None ELSE open[k]]
            /\ UNCHANGED <<formed, answer>>

Next == \/ \E c \in Callers, k \in Keys, b \in Batches : Form(c, k, b)
        \/ \E c \in Callers, k \in Keys : Join(c, k)
        \/ \E b \in Batches, a \in Answers \cup {Canceled} : Answer(b, a)
        \/ \E k \in Keys : Retire(k)
        \/ \E c \in Callers : Deliver(c) \/ Leave(c)

Spec == Init /\ [][Next]_vars
=============================================================================
