------------------------------ MODULE Collection ------------------------------
(***************************************************************************)
(* The Qdrant collection of tracks and the pipeline that replaces it:      *)
(* upload_to_qdrant deletes the collection, creates it again and fills it  *)
(* in batches, while the server goes on reading.  What Qdrant answers is   *)
(* modelled from how internal/vectors/qdrant.go uses it.                   *)
(***************************************************************************)
EXTENDS Naturals, FiniteSets, FiniteSetsExt

CONSTANTS
  Ids,         \* the tracks of the data set, by id
  PageSize,    \* scrollPageSize: points on one page of a scroll
  BatchSize,   \* points in one upsert
  MaxUploads   \* bound: how often the pipeline is run

ASSUME CollectionAssumption ==
  /\ Ids \subseteq Nat \ {0} /\ IsFiniteSet(Ids)
  /\ PageSize \in Nat \ {0} /\ BatchSize \in Nat \ {0} /\ MaxUploads \in Nat

VARIABLES
  exists,   \* whether there is a collection
  gen,      \* which run of the pipeline the points in it are from
  ids,      \* the points in it
  upload    \* where the running upload is: "none", "deleted" or "filling"

collVars == <<exists, gen, ids, upload>>

CollTypeOK ==
  /\ exists \in BOOLEAN
  /\ gen \in 0..MaxUploads
  /\ ids \subseteq Ids
  /\ upload \in {"none", "deleted", "filling"}
  /\ ~exists => ids = {}
  /\ upload = "deleted" => ~exists /\ gen < MaxUploads
  /\ upload = "filling" => exists

\* The server may be started before the pipeline has ever been run, or after.
CollInit ==
  /\ upload = "none"
  /\ gen = 0
  /\ \/ exists = FALSE /\ ids = {}
     \/ exists = TRUE /\ ids = Ids

Points == {[id |-> i, gen |-> gen] : i \in ids}

BeginUpload ==
  /\ upload = "none"
  /\ gen < MaxUploads
  /\ upload' = "deleted"
  /\ exists' = FALSE
  /\ ids' = {}
  /\ UNCHANGED gen

Create ==
  /\ upload = "deleted"
  /\ upload' = "filling"
  /\ exists' = TRUE
  /\ gen' = gen + 1
  /\ UNCHANGED ids

\* One batch, in whatever order the data set has its tracks.
Upsert ==
  /\ upload = "filling"
  /\ \E batch \in SUBSET (Ids \ ids) :
       /\ Cardinality(batch) = Min({BatchSize, Cardinality(Ids \ ids)})
       /\ ids' = ids \cup batch
  /\ upload' = IF ids' = Ids THEN "none" ELSE "filling"
  /\ UNCHANGED <<exists, gen>>

\* The pipeline ends with an error: what it has done so far stays.
UploadDies ==
  /\ upload # "none"
  /\ upload' = "none"
  /\ UNCHANGED <<exists, gen, ids>>

Pipeline == BeginUpload \/ Create \/ Upsert \/ UploadDies

(***************************************************************************)
(* One page of a scroll: the first points from offset on, in the order of  *)
(* their ids, and the id the next page starts at (0 for none).             *)
(***************************************************************************)
Page(offset) ==
  {i \in ids : i >= offset /\ Cardinality({j \in ids : offset <= j /\ j < i}) < PageSize}

NextOffset(offset) ==
  LET rest == {i \in ids : i >= offset} \ Page(offset)
  IN  IF rest = {} THEN 0 ELSE Min(rest)
===============================================================================
