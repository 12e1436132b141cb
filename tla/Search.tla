------------------------------- MODULE Search -------------------------------
(***************************************************************************)
(* GET /postings (app/api/postings.py, app/search/hybrid.py) beside the    *)
(* tasks that insert, edit and embed postings, and the encoder it needs    *)
(* (app/search/encoder.py), which one thread of the process warms up.      *)
(*                                                                         *)
(* A client walks through the pages of one query, a request per page.      *)
(* Every statement of a request reads what is committed by then.  Of a     *)
(* posting, the query sees when it was posted, how well its text matches   *)
(* and how near its embedding is; 0 stands for NULL, for no match, and for *)
(* a posting that the skill and location filters take out.                 *)
(***************************************************************************)
EXTENDS Integers, FiniteSets

CONSTANTS
    Postings,   \* ids
    Contents,   \* the pairs of date and match a fetch may bring
    Nearness,   \* of an embedding to the query
    Clients,
    Warmer,     \* the thread embedding-warmup
    PageSize,
    TopK,       \* TOP_K, candidates of each source
    RrfK,       \* RRF_K
    MaxPages,   \* bound on the pages of a walk
    MaxEdits,   \* bound on the edits of content and of embeddings
    MaxRestarts \* bound on the starts of the process and failures of a load

ASSUME SearchAssumption ==
    /\ Postings \subseteq Nat /\ IsFiniteSet(Postings)
    /\ Contents \subseteq [posted : Nat, text : Nat]
    /\ Nearness \subseteq Nat
    /\ Warmer \notin Clients
    /\ PageSize \in Nat \ {0} /\ TopK \in Nat \ {0} /\ RrfK \in Nat
    /\ MaxPages \in Nat /\ MaxEdits \in Nat /\ MaxRestarts \in Nat

Threads == Clients \cup {Warmer}
Modes == {"fts", "vector", "hybrid"}

VARIABLES
    present,  \* the postings that are committed
    posted, text, near,
    model,    \* whether _model is there
    lock,     \* the thread that holds _model_lock
    ready,    \* the event _ready
    step,     \* where a thread is
    walk,     \* of a client
    edits, restarts

corpus == <<present, posted, text, near>>
encoder == <<model, lock, ready>>
vars == <<corpus, encoder, step, walk, edits, restarts>>

NoWalk == [mode |-> "none", page |-> 0, total |-> 0, ranks |-> [p \in Postings |-> 0],
           unseen |-> {}, calm |-> TRUE]

(***************************************************************************)
(* What a statement returns.  ORDER BY leaves rows it finds equal in any   *)
(* order; every statement here breaks ties by the id.                      *)
(***************************************************************************)
Matches(mode) ==
    CASE mode = "fts"    -> {p \in present : text[p] > 0}
      [] mode = "vector" -> {p \in present : near[p] > 0}
      [] mode = "hybrid" -> {p \in present : text[p] > 0 \/ near[p] > 0}

\* Mutant of Before: no second column to order by.
BeforeByKey(key, p, q) == key[p] > key[q]

\* ORDER BY key DESC, id DESC
Before(key, p, q) == key[p] > key[q] \/ (key[p] = key[q] /\ p > q)

\* The numberings of rows that agree with the order.
Rankings(rows, key) ==
    {f \in [rows -> 1 .. Cardinality(rows)] :
        /\ \A p, q \in rows : f[p] = f[q] => p = q
        /\ \A p, q \in rows : Before(key, p, q) => f[p] < f[q]}

\* ... LIMIT TOP_K; 0 for what is not among them.
Limited(f) == [p \in Postings |-> IF p \in DOMAIN f /\ f[p] <= TopK THEN f[p] ELSE 0]

(***************************************************************************)
(* reciprocal_rank_fusion of two lists: 1 / (k + rank) for each list the   *)
(* posting is in, as a fraction; the higher sum is first, then the lower   *)
(* id.                                                                     *)
(***************************************************************************)
Score(a, b) ==
    CASE a > 0 /\ b > 0 -> [num |-> (RrfK + a) + (RrfK + b), den |-> (RrfK + a) * (RrfK + b)]
      [] a > 0 /\ b = 0 -> [num |-> 1, den |-> RrfK + a]
      [] a = 0 /\ b > 0 -> [num |-> 1, den |-> RrfK + b]
      [] a = 0 /\ b = 0 -> [num |-> 0, den |-> 1]

FusedBefore(first, second, p, q) ==
    LET s == Score(first[p], second[p])
        t == Score(first[q], second[q])
    IN  \/ s.num * t.den > t.num * s.den
        \/ s.num * t.den = t.num * s.den /\ p < q

Fused(first, second) ==
    LET all == {p \in Postings : first[p] > 0 \/ second[p] > 0}
    IN  [p \in Postings |->
            IF p \in all
            THEN 1 + Cardinality({q \in all : FusedBefore(first, second, q, p)})
            ELSE 0]

\* Rows page * PageSize + 1 to (page + 1) * PageSize.
Page(f, page) ==
    {p \in DOMAIN f : page * PageSize < f[p] /\ f[p] <= (page + 1) * PageSize}

(***************************************************************************)
(* The encoder.  get_model: the first check without the lock, the second   *)
(* with it.  A thread that finds no model constructs one.                  *)
(***************************************************************************)
GetModel(th) ==
    /\ step[th] = "model"
    /\ step' = [step EXCEPT ![th] = IF model THEN "encode" ELSE "lock"]
    /\ UNCHANGED <<corpus, encoder, walk, edits, restarts>>

LockModel(th) ==
    /\ step[th] = "lock" /\ lock = {}
    /\ IF model
       THEN lock' = lock /\ step' = [step EXCEPT ![th] = "encode"]
       ELSE lock' = {th} /\ step' = [step EXCEPT ![th] = "build"]
    /\ UNCHANGED <<corpus, model, ready, walk, edits, restarts>>

BuildModel(th) ==
    /\ step[th] = "build"
    /\ model' = TRUE /\ lock' = {}
    /\ step' = [step EXCEPT ![th] = "encode"]
    /\ UNCHANGED <<corpus, ready, walk, edits, restarts>>

\* warm_model, once its first encode has returned.
MarkReady ==
    /\ step[Warmer] = "encode"
    /\ ready' = TRUE
    /\ step' = [step EXCEPT ![Warmer] = "done"]
    /\ UNCHANGED <<corpus, model, lock, walk, edits, restarts>>

\* The construction or the first encode raises: the thread ends, and
\* nothing starts it again.
WarmUpFails ==
    /\ step[Warmer] \in {"build", "encode"}
    /\ restarts < MaxRestarts /\ restarts' = restarts + 1
    /\ lock' = {}
    /\ step' = [step EXCEPT ![Warmer] = "done"]
    /\ UNCHANGED <<corpus, model, ready, walk, edits>>

\* The process ends and another one starts: requests fail.
Restart ==
    /\ restarts < MaxRestarts /\ restarts' = restarts + 1
    /\ model' = FALSE /\ lock' = {} /\ ready' = FALSE
    /\ step' = [th \in Threads |-> IF th = Warmer THEN "model" ELSE "idle"]
    /\ UNCHANGED <<corpus, walk, edits>>

\* Mutant of IsModelReady: the model is there.
ModelBuilt == model

IsModelReady == ready

(***************************************************************************)
(* A request for the next page of a walk, in steps of one statement.  The  *)
(* dashboard offers a next page while there is one by the last total.      *)
(***************************************************************************)
StartWalk(c, mode) ==
    /\ step[c] = "idle" /\ walk[c].mode = "none"
    /\ walk' = [walk EXCEPT ![c] = [NoWalk EXCEPT !.mode = mode, !.unseen = Matches(mode)]]
    /\ UNCHANGED <<corpus, encoder, step, edits, restarts>>

MorePages(c) == walk[c].page = 0 \/ walk[c].page * PageSize < walk[c].total

\* require_model_ready answers 503 and leaves the client where it was.
StartRequest(c) ==
    /\ step[c] = "idle" /\ walk[c].mode # "none"
    /\ MorePages(c) /\ walk[c].page < MaxPages
    /\ walk[c].mode # "fts" => IsModelReady
    /\ step' = [step EXCEPT ![c] = CASE walk[c].mode = "fts"    -> "count"
                                     [] walk[c].mode = "vector" -> "model"
                                     [] walk[c].mode = "hybrid" -> "text"]
    /\ UNCHANGED <<corpus, encoder, walk, edits, restarts>>

\* _fts_results, SELECT count(*)
CountRows(c) ==
    /\ step[c] = "count"
    /\ walk' = [walk EXCEPT ![c].total = Cardinality(Matches("fts"))]
    /\ step' = [step EXCEPT ![c] = "rows"]
    /\ UNCHANGED <<corpus, encoder, edits, restarts>>

\* unseen are the postings that were there when the walk began and were on
\* none of its pages.
Turned(w, page) == [w EXCEPT !.page = @ + 1, !.unseen = @ \ page]

\* _fts_results, ORDER BY posted_at DESC NULLS LAST, id DESC
ReadRows(c) ==
    /\ step[c] = "rows"
    /\ \E f \in Rankings(Matches("fts"), posted) :
           walk' = [walk EXCEPT ![c] = Turned(@, Page(f, walk[c].page))]
    /\ step' = [step EXCEPT ![c] = "idle"]
    /\ UNCHANGED <<corpus, encoder, edits, restarts>>

\* fts_search, ORDER BY ts_rank DESC, id DESC
TextCandidates(c) ==
    /\ step[c] = "text"
    /\ \E f \in Rankings(Matches("fts"), text) :
           walk' = [walk EXCEPT ![c].ranks = Limited(f)]
    /\ step' = [step EXCEPT ![c] = "model"]
    /\ UNCHANGED <<corpus, encoder, edits, restarts>>

\* The query is encoded, ...
Encode(c) ==
    /\ step[c] = "encode"
    /\ step' = [step EXCEPT ![c] = "near"]
    /\ UNCHANGED <<corpus, encoder, walk, edits, restarts>>

(***************************************************************************)
(* ... and vector_search ordered by distance, id DESC; its candidates are  *)
(* fused with those of the text, and the page cut out.  No posting is ever *)
(* deleted, so that fetch_postings_by_ids finds them all.                  *)
(***************************************************************************)
Merged(mode, textRanks, nearRanks) ==
    IF mode = "vector" THEN nearRanks ELSE Fused(textRanks, nearRanks)

Candidates(merged) == {p \in Postings : merged[p] > 0}

NearCandidates(c) ==
    /\ step[c] = "near"
    /\ \E f \in Rankings(Matches("vector"), near) :
           LET merged == Merged(walk[c].mode, walk[c].ranks, Limited(f))
           IN  walk' = [walk EXCEPT ![c] =
                   [Turned(@, Page(merged, walk[c].page)) EXCEPT
                       !.total = Cardinality(Candidates(merged)),
                       !.ranks = NoWalk.ranks]]
    /\ step' = [step EXCEPT ![c] = "idle"]
    /\ UNCHANGED <<corpus, encoder, edits, restarts>>

EndWalk(c) ==
    /\ step[c] = "idle" /\ walk[c].mode # "none"
    /\ walk' = [walk EXCEPT ![c] = NoWalk]
    /\ UNCHANGED <<corpus, encoder, step, edits, restarts>>

(***************************************************************************)
(* The tasks beside it: ingest_posting, and embed_posting.  calm remembers *)
(* of a walk that nothing has happened to reorder what its mode lists:     *)
(* fusion is reordered by any change, a list only by a row that changes.   *)
(***************************************************************************)
Disturbed(modes) ==
    [c \in Clients |-> [walk[c] EXCEPT !.calm = @ /\ walk[c].mode \notin modes]]

Insert(p, content) ==
    /\ p \in Postings \ present
    /\ present' = present \cup {p}
    /\ posted' = [posted EXCEPT ![p] = content.posted]
    /\ text' = [text EXCEPT ![p] = content.text]
    /\ walk' = Disturbed({"hybrid"})
    /\ UNCHANGED <<near, encoder, step, edits, restarts>>

\* A date that is missing does not replace one.
Edit(p, content) ==
    /\ p \in present
    /\ edits < MaxEdits /\ edits' = edits + 1
    /\ posted' = [posted EXCEPT ![p] = IF content.posted = 0 THEN @ ELSE content.posted]
    /\ text' = [text EXCEPT ![p] = content.text]
    /\ walk' = Disturbed({"fts", "hybrid"})
    /\ UNCHANGED <<present, near, encoder, step, restarts>>

Embed(p, nearness) ==
    /\ p \in present
    /\ near[p] # nearness
    /\ IF near[p] = 0
       THEN edits' = edits /\ walk' = Disturbed({"hybrid"})
       ELSE /\ edits < MaxEdits /\ edits' = edits + 1
            /\ walk' = Disturbed({"vector", "hybrid"})
    /\ near' = [near EXCEPT ![p] = nearness]
    /\ UNCHANGED <<present, posted, text, encoder, step, restarts>>

Init ==
    /\ present \in SUBSET Postings
    /\ \E content \in [Postings -> Contents] :
           /\ posted = [p \in Postings |-> IF p \in present THEN content[p].posted ELSE 0]
           /\ text = [p \in Postings |-> IF p \in present THEN content[p].text ELSE 0]
    /\ near \in {n \in [Postings -> Nearness \cup {0}] : \A p \in Postings \ present : n[p] = 0}
    /\ model = FALSE /\ lock = {} /\ ready = FALSE
    /\ step = [th \in Threads |-> IF th = Warmer THEN "model" ELSE "idle"]
    /\ walk = [c \in Clients |-> NoWalk]
    /\ edits = 0 /\ restarts = 0

Next ==
    \/ \E th \in Threads : GetModel(th) \/ LockModel(th) \/ BuildModel(th)
    \/ MarkReady \/ WarmUpFails \/ Restart
    \/ \E c \in Clients :
           \/ \E mode \in Modes : StartWalk(c, mode)
           \/ StartRequest(c) \/ CountRows(c) \/ ReadRows(c)
           \/ TextCandidates(c) \/ Encode(c) \/ NearCandidates(c)
           \/ EndWalk(c)
    \/ \E p \in Postings :
           \/ \E content \in Contents : Insert(p, content) \/ Edit(p, content)
           \/ \E nearness \in Nearness \ {0} : Embed(p, nearness)

Spec == Init /\ [][Next]_vars

(***************************************************************************)
(* What the search promises.                                               *)
(***************************************************************************)
Walk == [mode : Modes \cup {"none"}, page : Nat, total : Nat, ranks : [Postings -> Nat],
         unseen : SUBSET Postings, calm : BOOLEAN]

TypeOK ==
    /\ present \subseteq Postings
    /\ posted \in [Postings -> Nat] /\ text \in [Postings -> Nat] /\ near \in [Postings -> Nat]
    /\ model \in BOOLEAN /\ ready \in BOOLEAN /\ lock \subseteq Threads
    /\ step \in [Threads -> {"idle", "count", "rows", "text", "model", "lock", "build",
                             "encode", "near", "done"}]
    /\ walk \in [Clients -> Walk]
    /\ edits \in Nat /\ restarts \in Nat

\* Where a posting would be if the walk's next request were answered now.
Position(mode, p) ==
    LET In(rows, key) == IF p \in rows
                         THEN 1 + Cardinality({q \in rows : Before(key, q, p)}) ELSE 0
        Ranks(rows, key) ==
            Limited([q \in rows |-> 1 + Cardinality({r \in rows : Before(key, r, q)})])
    IN  CASE mode = "fts"    -> In(Matches("fts"), posted)
          [] mode = "vector" -> In(Matches("vector"), near)
          [] mode = "hybrid" -> Fused(Ranks(Matches("fts"), text),
                                      Ranks(Matches("vector"), near))[p]

\* postings.py:130 and the ORDER BYs of hybrid.py: a client that has read
\* some pages has seen every posting that was there when it began and is not
\* on a later page by now, although others are inserted and embedded between
\* its requests and between the statements of one; in hybrid mode, where any
\* insert may reorder the fused list, if nothing changed meanwhile.
NothingSkipped ==
    \A c \in Clients :
        walk[c].calm =>
            \A p \in walk[c].unseen :
                LET n == Position(walk[c].mode, p)
                IN  n = 0 \/ n > walk[c].page * PageSize
                          \/ (walk[c].mode = "vector" /\ n > TopK)

\* encoder.py:16 and guards.py:14: a request never constructs the model nor
\* waits for the thread that does, and its encode is not the first one.
OnlyWarmUpLoads ==
    \A c \in Clients :
        /\ step[c] \notin {"lock", "build"}
        /\ step[c] \in {"model", "encode"} => model /\ ready
=============================================================================
