---------------------------- MODULE Search_proofs ----------------------------
(***************************************************************************)
(* Theorems about Search: for any postings, contents, embeddings, clients, *)
(* page sizes, limits, edits and restarts.                                 *)
(***************************************************************************)
EXTENDS Search, FiniteSetTheorems, TLAPS

(***************************************************************************)
(* The order of a statement is total, so that the place of a row is one    *)
(* more than the rows before it, whichever ranking the statement returns.  *)
(***************************************************************************)
Place(rows, key, p) == 1 + Cardinality({q \in rows : Before(key, q, p)})
Places(rows, key) == [p \in rows |-> Place(rows, key, p)]

\* Two different rows are ordered, one way only.
LEMMA BeforeIsTotal ==
  ASSUME NEW key \in [Postings -> Nat], NEW p \in Postings, NEW q \in Postings
  PROVE  /\ p # q => Before(key, p, q) \/ Before(key, q, p)
         /\ ~(Before(key, p, q) /\ Before(key, q, p))
  <1>1. p \in Nat /\ q \in Nat /\ key[p] \in Nat /\ key[q] \in Nat
    BY SearchAssumption
  <1>2. QED
    BY <1>1 DEF Before

LEMMA PlaceIsNatural ==
  ASSUME NEW rows \in SUBSET Postings, NEW key, NEW p
  PROVE  Place(rows, key, p) \in Nat /\ Place(rows, key, p) > 0
  <1>1. IsFiniteSet({q \in rows : Before(key, q, p)})
    BY SearchAssumption, FS_Subset
  <1>2. QED
    BY <1>1, FS_CardinalityType DEF Place

\* The length of a stretch of places.
LEMMA Intervals ==
  \A a, b \in Int : a <= b + 1 => /\ IsFiniteSet(a .. b)
                                 /\ Cardinality(a .. b) = b - a + 1
  <1>1. SUFFICES ASSUME NEW a \in Int, NEW b \in Int, a <= b + 1
                 PROVE  IsFiniteSet(a .. b) /\ Cardinality(a .. b) = b - a + 1
    OBVIOUS
  <1>2. IsFiniteSet(a .. b) /\ Cardinality(a .. b) = IF a > b THEN 0 ELSE b - a + 1
    BY FS_Interval
  <1>3. QED
    BY <1>1, <1>2

\* A statement numbers its rows by their places.
LEMMA RankingIsPlaces ==
  ASSUME NEW rows \in SUBSET Postings, NEW key \in [Postings -> Nat],
         NEW f \in Rankings(rows, key)
  PROVE  f = Places(rows, key)
  <1> DEFINE n == Cardinality(rows)
  <1>1. IsFiniteSet(rows) /\ n \in Nat
    BY SearchAssumption, FS_Subset, FS_CardinalityType
  <1>2. /\ f \in [rows -> 1 .. n]
        /\ \A p, q \in rows : f[p] = f[q] => p = q
        /\ \A p, q \in rows : Before(key, p, q) => f[p] < f[q]
    BY DEF Rankings
  <1>3. ASSUME NEW p \in rows PROVE f[p] = Place(rows, key, p)
    <2> DEFINE Ahead == {q \in rows : Before(key, q, p)}
               Behind == {q \in rows : Before(key, p, q)}
    <2>1. IsFiniteSet(Ahead) /\ IsFiniteSet(Behind)
      BY <1>1, FS_Subset
    <2>2. Cardinality(Ahead) \in Nat /\ Cardinality(Behind) \in Nat
      BY <2>1, FS_CardinalityType
    <2>3. f[p] \in 1 .. n /\ f[p] \in Int
      BY <1>2, <1>1
    <2>4. Cardinality(Ahead) <= f[p] - 1
      <3> DEFINE g == [q \in Ahead |-> f[q]]
      <3>1. \A q \in Ahead : f[q] \in 1 .. f[p] - 1
        BY <1>1, <1>2, <2>3
      <3>2. g \in Injection(Ahead, 1 .. f[p] - 1)
        BY <3>1, <1>2 DEF Injection, IsInjective
      <3>3. /\ IsFiniteSet(1 .. f[p] - 1)
            /\ Cardinality(1 .. f[p] - 1) = f[p] - 1
        <4>1. 1 \in Int /\ f[p] - 1 \in Int /\ 1 <= f[p] - 1 + 1
          BY <1>1, <2>3
        <4>2. QED BY <4>1, Intervals
      <3> HIDE DEF g, Ahead
      <3>4. QED
        BY <3>2, <3>3, FS_Injection
    <2>5. Cardinality(Behind) <= n - f[p]
      <3> DEFINE g == [q \in Behind |-> f[q]]
      <3>1. \A q \in Behind : f[q] \in f[p] + 1 .. n
        BY <1>1, <1>2, <2>3
      <3>2. g \in Injection(Behind, f[p] + 1 .. n)
        BY <3>1, <1>2 DEF Injection, IsInjective
      <3>3. /\ IsFiniteSet(f[p] + 1 .. n)
            /\ Cardinality(f[p] + 1 .. n) = n - f[p]
        <4>1. f[p] + 1 \in Int /\ n \in Int /\ f[p] + 1 <= n + 1
          BY <1>1, <2>3
        <4> HIDE DEF n
        <4>2. /\ IsFiniteSet(f[p] + 1 .. n)
              /\ Cardinality(f[p] + 1 .. n) = n - (f[p] + 1) + 1
          BY <4>1, Intervals
        <4>3. n - (f[p] + 1) + 1 = n - f[p]
          BY <4>1, <2>3
        <4>4. QED BY <4>2, <4>3
      <3> HIDE DEF g, Behind, n
      <3>4. QED
        BY <3>2, <3>3, FS_Injection
    <2>6. Cardinality(Ahead) + Cardinality(Behind) + 1 = n
      <3>1. p \in Postings /\ p \notin Ahead /\ p \notin Behind
        BY BeforeIsTotal
      <3>2. rows = (Ahead \cup Behind) \cup {p}
        BY BeforeIsTotal
      <3>3. Ahead \cap Behind = {}
        BY BeforeIsTotal
      <3>4. /\ IsFiniteSet(Ahead \cup Behind)
            /\ Cardinality(Ahead \cup Behind) = Cardinality(Ahead) + Cardinality(Behind)
        <4> HIDE DEF Ahead, Behind
        <4>1. Cardinality(Ahead \cap Behind) = 0
          BY <3>3, FS_EmptySet
        <4>2. Cardinality(Ahead \cup Behind) =
                  Cardinality(Ahead) + Cardinality(Behind) - Cardinality(Ahead \cap Behind)
          BY <2>1, FS_Union
        <4>3. IsFiniteSet(Ahead \cup Behind)
          BY <2>1, FS_Union
        <4>4. QED BY <2>2, <4>1, <4>2, <4>3
      <3> HIDE DEF Ahead, Behind
      <3>5. QED
        BY <3>1, <3>2, <3>4, FS_AddElement
    <2>7. QED
      BY <1>1, <2>2, <2>3, <2>4, <2>5, <2>6 DEF Place
  <1>4. QED
    BY <1>2, <1>3 DEF Places

\* What is inserted or gets its first vector does not bring a row forward.
LEMMA PlacesOnlyGrow ==
  ASSUME NEW rows \in SUBSET Postings, NEW more \in SUBSET Postings,
         rows \subseteq more,
         NEW key, NEW keyAfter,
         \A q \in rows : keyAfter[q] = key[q],
         NEW p \in rows
  PROVE  Place(more, keyAfter, p) >= Place(rows, key, p)
  <1> DEFINE Was == {q \in rows : Before(key, q, p)}
             Is == {q \in more : Before(keyAfter, q, p)}
  <1>1. Was \subseteq Is
    BY DEF Before
  <1>2. IsFiniteSet(Is)
    BY SearchAssumption, FS_Subset
  <1>3. Cardinality(Was) <= Cardinality(Is)
    BY <1>1, <1>2, FS_Subset
  <1>4. Cardinality(Was) \in Nat /\ Cardinality(Is) \in Nat
    BY <1>1, <1>2, FS_Subset, FS_CardinalityType
  <1>5. QED
    BY <1>3, <1>4 DEF Place

-----------------------------------------------------------------------------
(***************************************************************************)
(* Types.                                                                  *)
(***************************************************************************)
LEMMA MatchesOfMode ==
  ASSUME present \subseteq Postings
  PROVE  /\ Matches("fts") = {p \in present : text[p] > 0}
         /\ Matches("vector") = {p \in present : near[p] > 0}
         /\ Matches("fts") \in SUBSET Postings
         /\ Matches("vector") \in SUBSET Postings
         /\ \A mode \in Modes : Matches(mode) \subseteq Postings
  BY DEF Matches, Modes

LEMMA LimitedType ==
  ASSUME NEW rows \in SUBSET Postings, NEW key
  PROVE  Limited(Places(rows, key)) \in [Postings -> Nat]
  BY PlaceIsNatural DEF Limited, Places

LEMMA FusedType ==
  ASSUME NEW first, NEW second
  PROVE  Fused(first, second) \in [Postings -> Nat]
  <1> DEFINE all == {p \in Postings : first[p] > 0 \/ second[p] > 0}
             place(p) == 1 + Cardinality({q \in all : FusedBefore(first, second, q, p)})
  <1>1. ASSUME NEW p \in Postings PROVE place(p) \in Nat
    <2>1. IsFiniteSet({q \in all : FusedBefore(first, second, q, p)})
      BY SearchAssumption, FS_Subset
    <2>2. QED BY <2>1, FS_CardinalityType
  <1> HIDE DEF place
  <1>2. [p \in Postings |-> IF p \in all THEN place(p) ELSE 0] \in [Postings -> Nat]
    BY <1>1
  <1>3. QED
    BY <1>2 DEF place, Fused

LEMMA CountType ==
  ASSUME NEW S \in SUBSET Postings
  PROVE  Cardinality(S) \in Nat
  BY SearchAssumption, FS_Subset, FS_CardinalityType

LEMMA TypeInit ==
  Init => TypeOK
  <1>1. NoWalk \in Walk
    BY DEF NoWalk, Walk
  <1>2. SUFFICES ASSUME Init PROVE TypeOK
    OBVIOUS
  <1>3. /\ present \subseteq Postings
        /\ near \in [Postings -> Nat]
    <2>1. present \subseteq Postings /\ near \in [Postings -> Nearness \cup {0}]
      BY <1>2 DEF Init
    <2>2. Nearness \cup {0} \subseteq Nat
      BY SearchAssumption
    <2>3. QED BY <2>1, <2>2
  <1>4. posted \in [Postings -> Nat] /\ text \in [Postings -> Nat]
    <2>1. PICK content \in [Postings -> Contents] :
              /\ posted = [p \in Postings |-> IF p \in present THEN content[p].posted ELSE 0]
              /\ text = [p \in Postings |-> IF p \in present THEN content[p].text ELSE 0]
      BY <1>2 DEF Init
    <2>2. \A p \in Postings : content[p].posted \in Nat /\ content[p].text \in Nat
      BY SearchAssumption
    <2>3. QED BY <2>1, <2>2
  <1>5. /\ model \in BOOLEAN /\ ready \in BOOLEAN /\ lock \subseteq Threads
        /\ walk \in [Clients -> Walk]
        /\ edits \in Nat /\ restarts \in Nat
    BY <1>1, <1>2 DEF Init
  <1>6. step \in [Threads -> {"model", "idle"}]
    BY <1>2 DEF Init
  <1>7. QED
    BY <1>3, <1>4, <1>5, <1>6 DEF TypeOK

\* The steps of the encoder.
LEMMA TypeEncoder ==
  ASSUME TypeOK, NEW th \in Threads,
         \/ GetModel(th) \/ LockModel(th) \/ BuildModel(th)
         \/ MarkReady \/ WarmUpFails \/ Restart
  PROVE  TypeOK'
  <1> USE DEF TypeOK, corpus, encoder
  <1>1. CASE GetModel(th)
    BY <1>1 DEF GetModel
  <1>2. CASE LockModel(th)
    BY <1>2 DEF LockModel
  <1>3. CASE BuildModel(th)
    BY <1>3 DEF BuildModel
  <1>4. CASE MarkReady
    BY <1>4 DEF MarkReady
  <1>5. CASE WarmUpFails
    <2>1. restarts' \in Nat
      BY <1>5 DEF WarmUpFails
    <2>2. step' \in [Threads -> {"idle", "count", "rows", "text", "model", "lock", "build",
                                "encode", "near", "done"}]
      BY <1>5 DEF WarmUpFails
    <2>3. QED BY <1>5, <2>1, <2>2 DEF WarmUpFails
  <1>6. CASE Restart
    <2>1. restarts' \in Nat
      BY <1>6 DEF Restart
    <2>2. step' \in [Threads -> {"model", "idle"}]
      BY <1>6 DEF Restart
    <2>3. QED BY <1>6, <2>1, <2>2 DEF Restart
  <1>7. QED BY <1>1, <1>2, <1>3, <1>4, <1>5, <1>6

\* The steps of a client.
LEMMA TypeClient ==
  ASSUME TypeOK, NEW c \in Clients,
         \/ \E mode \in Modes : StartWalk(c, mode)
         \/ StartRequest(c) \/ CountRows(c) \/ ReadRows(c)
         \/ TextCandidates(c) \/ Encode(c) \/ NearCandidates(c)
         \/ EndWalk(c)
  PROVE  TypeOK'
  <1> USE DEF TypeOK, corpus, encoder
  <1>1. /\ walk \in [Clients -> Walk] /\ walk[c] \in Walk
        /\ NoWalk \in Walk
        /\ c \in Threads
    BY DEF NoWalk, Walk, Threads
  <1>2. ASSUME NEW mode \in Modes, StartWalk(c, mode) PROVE TypeOK'
    <2>1. [NoWalk EXCEPT !.mode = mode, !.unseen = Matches(mode)] \in Walk
      BY MatchesOfMode DEF NoWalk, Walk
    <2>2. QED BY <1>1, <1>2, <2>1 DEF StartWalk
  <1>3. CASE StartRequest(c)
    BY <1>1, <1>3 DEF StartRequest, Walk, Modes
  <1>4. CASE CountRows(c)
    <2>1. Cardinality(Matches("fts")) \in Nat
      BY MatchesOfMode, CountType
    <2>2. walk' \in [Clients -> Walk]
      BY <1>1, <1>4, <2>1 DEF CountRows, Walk
    <2>3. QED BY <1>4, <2>2 DEF CountRows
  <1>5. ASSUME NEW f, NEW page, NEW w \in Walk PROVE Turned(w, Page(f, page)) \in Walk
    <2>1. w.page + 1 \in Nat /\ w.unseen \ Page(f, page) \in SUBSET Postings
      BY DEF Walk
    <2>2. [w EXCEPT !.page = w.page + 1, !.unseen = w.unseen \ Page(f, page)] \in Walk
      BY <2>1 DEF Walk
    <2>3. QED BY <2>2 DEF Turned
  <1>6. CASE ReadRows(c)
    <2>1. PICK f \in Rankings(Matches("fts"), posted) :
              walk' = [walk EXCEPT ![c] = Turned(@, Page(f, walk[c].page))]
      BY <1>6 DEF ReadRows
    <2>2. walk' \in [Clients -> Walk]
      BY <1>1, <1>5, <2>1
    <2>3. QED BY <1>6, <2>2 DEF ReadRows
  <1>7. CASE TextCandidates(c)
    <2>1. PICK f \in Rankings(Matches("fts"), text) :
              walk' = [walk EXCEPT ![c].ranks = Limited(f)]
      BY <1>7 DEF TextCandidates
    <2>2. Limited(f) \in [Postings -> Nat]
      BY MatchesOfMode, RankingIsPlaces, LimitedType
    <2>3. walk' \in [Clients -> Walk]
      BY <1>1, <2>1, <2>2 DEF Walk
    <2>4. QED BY <1>7, <2>3 DEF TextCandidates
  <1>8. CASE Encode(c)
    BY <1>8 DEF Encode
  <1>9. CASE NearCandidates(c)
    <2>1. PICK f \in Rankings(Matches("vector"), near) :
              walk' = [walk EXCEPT ![c] =
                  [Turned(@, Page(Merged(walk[c].mode, walk[c].ranks, Limited(f)), walk[c].page)) EXCEPT
                      !.total = Cardinality(Candidates(Merged(walk[c].mode, walk[c].ranks, Limited(f)))),
                      !.ranks = NoWalk.ranks]]
      BY <1>9 DEF NearCandidates
    <2> DEFINE merged == Merged(walk[c].mode, walk[c].ranks, Limited(f))
               turned == Turned(walk[c], Page(merged, walk[c].page))
    <2>2. Cardinality(Candidates(merged)) \in Nat
      BY CountType DEF Candidates
    <2>3. turned \in Walk /\ NoWalk.ranks \in [Postings -> Nat]
      BY <1>1, <1>5 DEF NoWalk
    <2> HIDE DEF merged, turned
    <2>4. [turned EXCEPT !.total = Cardinality(Candidates(merged)),
                         !.ranks = NoWalk.ranks] \in Walk
      BY <2>2, <2>3 DEF Walk
    <2>5. walk' \in [Clients -> Walk]
      BY <1>1, <2>1, <2>4 DEF merged, turned
    <2>6. QED BY <1>9, <2>5 DEF NearCandidates
  <1>10. CASE EndWalk(c)
    BY <1>1, <1>10 DEF EndWalk
  <1>11. QED BY <1>2, <1>3, <1>4, <1>6, <1>7, <1>8, <1>9, <1>10

\* What the tasks do to a walk.
LEMMA DisturbedIs ==
  ASSUME TypeOK, NEW modes
  PROVE  /\ Disturbed(modes) \in [Clients -> Walk]
         /\ \A c \in Clients :
                /\ Disturbed(modes)[c].mode = walk[c].mode
                /\ Disturbed(modes)[c].page = walk[c].page
                /\ Disturbed(modes)[c].ranks = walk[c].ranks
                /\ Disturbed(modes)[c].unseen = walk[c].unseen
                /\ Disturbed(modes)[c].calm => walk[c].calm /\ walk[c].mode \notin modes
  BY DEF Disturbed, TypeOK, Walk

\* The steps of the tasks.
LEMMA TypeTasks ==
  ASSUME TypeOK, NEW p \in Postings,
         \/ \E content \in Contents : Insert(p, content) \/ Edit(p, content)
         \/ \E nearness \in Nearness \ {0} : Embed(p, nearness)
  PROVE  TypeOK'
  <1> USE DEF TypeOK, corpus, encoder
  <1>1. ASSUME NEW content \in Contents PROVE content.posted \in Nat /\ content.text \in Nat
    BY SearchAssumption
  <1>2. ASSUME NEW content \in Contents, Insert(p, content) PROVE TypeOK'
    BY <1>1, <1>2, DisturbedIs DEF Insert
  <1>3. ASSUME NEW content \in Contents, Edit(p, content) PROVE TypeOK'
    BY <1>1, <1>3, DisturbedIs DEF Edit
  <1>4. ASSUME NEW nearness \in Nearness, Embed(p, nearness) PROVE TypeOK'
    BY <1>4, DisturbedIs, SearchAssumption DEF Embed
  <1>5. QED BY <1>2, <1>3, <1>4

\* Every reachable state of requests, encoder and tables is well formed.
THEOREM TypeCorrect == Spec => []TypeOK
  <1>1. Init => TypeOK
    BY TypeInit
  <1>2. TypeOK /\ [Next]_vars => TypeOK'
    <2>1. SUFFICES ASSUME TypeOK, [Next]_vars PROVE TypeOK'
      OBVIOUS
    <2>2. CASE UNCHANGED vars
      BY <2>1, <2>2 DEF vars, corpus, encoder, TypeOK
    <2>3. CASE Next
      BY <2>1, <2>3, TypeEncoder, TypeClient, TypeTasks DEF Next, Threads
    <2>4. QED BY <2>1, <2>2, <2>3
  <1>3. QED BY <1>1, <1>2, PTL DEF Spec

-----------------------------------------------------------------------------
(***************************************************************************)
(* The encoder.  A request that is let through needs no more than what the *)
(* event stands for: the event is set by a thread that has the model, and  *)
(* only a new process, which has no requests, clears either.               *)
(***************************************************************************)
EncoderInv ==
    /\ ready => model
    /\ step[Warmer] = "encode" => model
    /\ \A c \in Clients :
           /\ step[c] \notin {"lock", "build"}
           /\ step[c] \in {"text", "model", "encode", "near"} => model /\ ready

LEMMA EncoderStep ==
  ASSUME TypeOK, EncoderInv, [Next]_vars
  PROVE  EncoderInv'
  <1> USE DEF EncoderInv, corpus, encoder
  <1>1. /\ step \in [Threads -> {"idle", "count", "rows", "text", "model", "lock", "build",
                                 "encode", "near", "done"}]
        /\ Warmer \in Threads /\ Clients \subseteq Threads /\ Warmer \notin Clients
    BY SearchAssumption DEF TypeOK, Threads
  <1>2. CASE UNCHANGED <<encoder, step>>
    BY <1>2
  <1>3. ASSUME NEW th \in Threads, GetModel(th) PROVE EncoderInv'
    <2>1. CASE th = Warmer
      BY <1>1, <1>3, <2>1 DEF GetModel
    <2>2. CASE th \in Clients
      BY <1>1, <1>3, <2>2 DEF GetModel
    <2>3. QED BY <2>1, <2>2 DEF Threads
  <1>4. ASSUME NEW th \in Threads, LockModel(th) PROVE EncoderInv'
    <2>1. th = Warmer
      BY <1>4 DEF LockModel, Threads
    <2>2. QED BY <1>1, <1>4, <2>1 DEF LockModel
  <1>5. ASSUME NEW th \in Threads, BuildModel(th) PROVE EncoderInv'
    <2>1. th = Warmer
      BY <1>5 DEF BuildModel, Threads
    <2>2. QED BY <1>1, <1>5, <2>1 DEF BuildModel
  <1>6. CASE MarkReady
    BY <1>1, <1>6 DEF MarkReady
  <1>7. CASE WarmUpFails
    BY <1>1, <1>7 DEF WarmUpFails
  <1>8. CASE Restart
    BY <1>1, <1>8 DEF Restart
  <1>9. ASSUME NEW c \in Clients, StartRequest(c) PROVE EncoderInv'
    <2>1. step'[c] \in {"text", "model"} => ready
      <3>1. step'[c] = CASE walk[c].mode = "fts"    -> "count"
                         [] walk[c].mode = "vector" -> "model"
                         [] walk[c].mode = "hybrid" -> "text"
        BY <1>1, <1>9 DEF StartRequest
      <3>2. walk[c].mode \in {"none", "fts", "vector", "hybrid"} /\ walk[c].mode # "none"
        BY <1>9 DEF StartRequest, TypeOK, Walk, Modes
      <3>3. CASE walk[c].mode = "fts"
        BY <3>1, <3>3
      <3>4. CASE walk[c].mode # "fts"
        BY <1>9, <3>4 DEF StartRequest, IsModelReady
      <3>5. QED BY <3>3, <3>4
    <2>2. step'[c] \in {"count", "model", "text"}
      <3>1. walk[c].mode \in {"none", "fts", "vector", "hybrid"} /\ walk[c].mode # "none"
        BY <1>9 DEF StartRequest, TypeOK, Walk, Modes
      <3>2. QED BY <1>1, <1>9, <3>1 DEF StartRequest
    <2>3. /\ UNCHANGED encoder
          /\ \A th \in Threads \ {c} : step'[th] = step[th]
      BY <1>1, <1>9 DEF StartRequest
    <2>4. QED BY <1>1, <2>1, <2>2, <2>3
  <1>10. ASSUME NEW c \in Clients,
                CountRows(c) \/ ReadRows(c) \/ TextCandidates(c) \/ Encode(c) \/ NearCandidates(c)
         PROVE  EncoderInv'
    <2>1. /\ UNCHANGED encoder
          /\ \A th \in Threads \ {c} : step'[th] = step[th]
          /\ \/ step'[c] \in {"rows", "idle"}
             \/ step[c] \in {"text", "encode"} /\ step'[c] \in {"model", "near"}
      BY <1>1, <1>10 DEF CountRows, ReadRows, TextCandidates, Encode, NearCandidates
    <2>2. QED BY <1>1, <2>1
  <1>11. ASSUME NEW c \in Clients, (\E mode \in Modes : StartWalk(c, mode)) \/ EndWalk(c)
         PROVE  UNCHANGED <<encoder, step>>
    BY <1>11 DEF StartWalk, EndWalk
  <1>12. ASSUME NEW p \in Postings,
                \/ \E content \in Contents : Insert(p, content) \/ Edit(p, content)
                \/ \E nearness \in Nearness \ {0} : Embed(p, nearness)
         PROVE  UNCHANGED <<encoder, step>>
    BY <1>12 DEF Insert, Edit, Embed
  <1>13. CASE UNCHANGED vars
    BY <1>2, <1>13 DEF vars
  <1>14. QED
    BY <1>2, <1>3, <1>4, <1>5, <1>6, <1>7, <1>8, <1>9, <1>10, <1>11, <1>12, <1>13 DEF Next

\* For any number of clients, failures and restarts, no request constructs the
\* model, waits for its lock, or is the first to encode (encoder.py:16).
THEOREM NoRequestLoads == Spec => []OnlyWarmUpLoads
  <1>1. Init => EncoderInv
    <2>1. SUFFICES ASSUME Init PROVE EncoderInv
      OBVIOUS
    <2>2. \A c \in Clients : step[c] = "idle"
      BY <2>1, SearchAssumption DEF Init, Threads
    <2>3. step[Warmer] = "model"
      BY <2>1 DEF Init, Threads
    <2>4. QED BY <2>1, <2>2, <2>3 DEF Init, EncoderInv
  <1>2. TypeOK /\ EncoderInv /\ [Next]_vars => EncoderInv'
    BY EncoderStep
  <1>3. EncoderInv => OnlyWarmUpLoads
    BY DEF EncoderInv, OnlyWarmUpLoads
  <1>4. QED BY <1>1, <1>2, <1>3, TypeCorrect, PTL DEF Spec

-----------------------------------------------------------------------------
(***************************************************************************)
(* The walk.  Where a posting is, is its place; a request in progress has  *)
(* the mode of its walk, and, in hybrid mode, the text ranks of now unless *)
(* something has changed.                                                  *)
(***************************************************************************)
\* A posting that a client still expects on a later page.
Awaited(mode, page, p) ==
    LET n == Position(mode, p)
    IN  n = 0 \/ n > page * PageSize \/ (mode = "vector" /\ n > TopK)

ClientInv(c) ==
    /\ step[c] \in {"count", "rows"} => walk[c].mode = "fts"
    /\ step[c] = "text" => walk[c].mode = "hybrid"
    /\ step[c] \in {"model", "lock", "build", "encode", "near"} =>
           walk[c].mode \in {"vector", "hybrid"}
    /\ walk[c].mode = "none" => walk[c].unseen = {}
    /\ walk[c].mode \in {"fts", "vector"} /\ walk[c].calm =>
           walk[c].unseen \subseteq Matches(walk[c].mode)
    /\ walk[c].mode = "hybrid" /\ walk[c].calm
       /\ step[c] \in {"model", "lock", "build", "encode", "near"} =>
           walk[c].ranks = Limited(Places(Matches("fts"), text))
    /\ walk[c].calm => \A p \in walk[c].unseen : Awaited(walk[c].mode, walk[c].page, p)

WalkInv ==
    /\ \A p \in Postings \ present : near[p] = 0
    /\ \A c \in Clients : ClientInv(c)

LEMMA WalkInvIsEnough ==
  WalkInv => NothingSkipped
  BY DEF WalkInv, ClientInv, NothingSkipped, Awaited

LEMMA PositionIs ==
  ASSUME NEW p
  PROVE  /\ Position("fts", p) = IF p \in Matches("fts")
                                 THEN Place(Matches("fts"), posted, p) ELSE 0
         /\ Position("vector", p) = IF p \in Matches("vector")
                                    THEN Place(Matches("vector"), near, p) ELSE 0
         /\ Position("hybrid", p) = Fused(Limited(Places(Matches("fts"), text)),
                                          Limited(Places(Matches("vector"), near)))[p]
  BY DEF Position, Place, Places

LEMMA PositionType ==
  ASSUME TypeOK, NEW p \in Postings, NEW mode \in Modes
  PROVE  Position(mode, p) \in Nat
  <1>1. Matches("fts") \in SUBSET Postings /\ Matches("vector") \in SUBSET Postings
    BY MatchesOfMode DEF TypeOK
  <1>2. QED
    BY <1>1, PositionIs, PlaceIsNatural, FusedType DEF Modes

LEMMA CorpusKept ==
  ASSUME UNCHANGED corpus
  PROVE  /\ \A mode \in Modes : Matches(mode)' = Matches(mode)
         /\ \A mode \in Modes : \A page, p : Awaited(mode, page, p)' = Awaited(mode, page, p)
  BY DEF corpus, Matches, Position, Awaited, Modes

\* A page is followed by what is behind it.
LEMMA NextPage ==
  ASSUME NEW f, NEW p \in DOMAIN f, NEW page \in Nat, f[p] \in Nat,
         f[p] > page * PageSize, p \notin Page(f, page)
  PROVE  f[p] > (page + 1) * PageSize
  <1>1. page * PageSize \in Nat /\ (page + 1) * PageSize \in Nat
    BY SearchAssumption
  <1>2. QED
    BY <1>1 DEF Page

\* The first page of a walk is not yet read.
LEMMA FirstPage ==
  ASSUME TypeOK, NEW p \in Postings, NEW mode \in Modes
  PROVE  Awaited(mode, 0, p)
  <1>1. Position(mode, p) \in Nat
    BY PositionType
  <1>2. 0 * PageSize = 0
    BY SearchAssumption
  <1>3. QED
    BY <1>1, <1>2 DEF Awaited

\* A step of a thread leaves the walks of other clients as they are.
LEMMA OtherClients ==
  ASSUME TypeOK, WalkInv, UNCHANGED corpus, NEW c \in Clients,
         \/ walk'[c] = walk[c] /\ step'[c] = step[c]
         \/ walk'[c] = walk[c] /\ step'[c] = "idle"
  PROVE  ClientInv(c)'
  <1>1. ClientInv(c) /\ walk[c] \in Walk
    BY DEF WalkInv, TypeOK
  <1>2. walk[c].mode \in Modes \/ walk[c].unseen = {}
    BY <1>1 DEF Walk, ClientInv
  <1>3. "fts" \in Modes /\ "vector" \in Modes
    BY DEF Modes
  <1>4. walk[c].mode \in {"fts", "vector"} => Matches(walk[c].mode)' = Matches(walk[c].mode)
    BY <1>3, CorpusKept
  <1>5. Matches("fts")' = Matches("fts") /\ text' = text
    BY <1>3, CorpusKept DEF corpus
  <1>6. \A p \in walk[c].unseen : Awaited(walk[c].mode, walk[c].page, p)' = Awaited(walk[c].mode, walk[c].page, p)
    BY <1>2, CorpusKept
  <1>7. QED
    BY <1>1, <1>4, <1>5, <1>6 DEF ClientInv

LEMMA OneClient ==
  ASSUME TypeOK, WalkInv, UNCHANGED corpus, NEW c \in Clients, ClientInv(c)',
         \A d \in Clients \ {c} : walk'[d] = walk[d] /\ step'[d] = step[d]
  PROVE  WalkInv'
  BY OtherClients DEF WalkInv, corpus

\* The steps of the encoder.
LEMMA WalkEncoder ==
  ASSUME TypeOK, WalkInv, NEW th \in Threads,
         \/ GetModel(th) \/ LockModel(th) \/ BuildModel(th)
         \/ MarkReady \/ WarmUpFails \/ Restart
  PROVE  WalkInv'
  <1> DEFINE Needs == {"model", "lock", "build", "encode", "near"}
  <1>1. UNCHANGED corpus /\ UNCHANGED walk
    BY DEF GetModel, LockModel, BuildModel, MarkReady, WarmUpFails, Restart
  <1>2. step \in [Threads -> {"idle", "count", "rows", "text", "model", "lock", "build",
                              "encode", "near", "done"}]
    BY DEF TypeOK
  <1>3. ASSUME NEW c \in Clients
        PROVE  \/ step'[c] \in {step[c], "idle"}
               \/ step[c] \in Needs /\ step'[c] \in Needs
    <2>1. c \in Threads /\ c # Warmer
      BY SearchAssumption DEF Threads
    <2>2. CASE GetModel(th) \/ LockModel(th) \/ BuildModel(th)
      BY <1>2, <2>1, <2>2 DEF GetModel, LockModel, BuildModel
    <2>3. CASE MarkReady \/ WarmUpFails
      BY <1>2, <2>1, <2>3 DEF MarkReady, WarmUpFails
    <2>4. CASE Restart
      BY <1>2, <2>1, <2>4 DEF Restart
    <2>5. QED BY <2>2, <2>3, <2>4
  <1>4. ASSUME NEW c \in Clients PROVE ClientInv(c)'
    <2>1. CASE step'[c] \in {step[c], "idle"}
      BY <1>1, <2>1, OtherClients
    <2>2. CASE step[c] \in Needs /\ step'[c] \in Needs
      <3>1. ClientInv(c) /\ walk[c] \in Walk /\ walk'[c] = walk[c]
        BY <1>1 DEF WalkInv, TypeOK
      <3>2. walk[c].mode \in {"vector", "hybrid"} /\ walk[c].mode \in Modes
        BY <2>2, <3>1 DEF ClientInv, Modes
      <3>3. /\ Matches("fts")' = Matches("fts") /\ text' = text
            /\ Matches(walk[c].mode)' = Matches(walk[c].mode)
            /\ \A p : Awaited(walk[c].mode, walk[c].page, p)' = Awaited(walk[c].mode, walk[c].page, p)
        BY <1>1, <3>2, CorpusKept DEF corpus, Modes
      <3>4. QED BY <2>2, <3>1, <3>2, <3>3 DEF ClientInv
    <2>3. QED BY <1>3, <2>1, <2>2
  <1>5. QED BY <1>1, <1>4 DEF WalkInv, corpus

\* The steps of a client that do not return a page.
LEMMA WalkClient ==
  ASSUME TypeOK, WalkInv, NEW c \in Clients,
         \/ \E mode \in Modes : StartWalk(c, mode)
         \/ StartRequest(c) \/ CountRows(c) \/ TextCandidates(c) \/ Encode(c) \/ EndWalk(c)
  PROVE  WalkInv'
  <1>1. /\ walk \in [Clients -> Walk] /\ walk[c] \in Walk
        /\ step \in [Threads -> {"idle", "count", "rows", "text", "model", "lock", "build",
                                 "encode", "near", "done"}]
        /\ c \in Threads /\ Clients \subseteq Threads
        /\ ClientInv(c)
        /\ walk[c].mode \in Modes \cup {"none"}
    BY DEF TypeOK, WalkInv, Threads, Walk
  <1>2. UNCHANGED corpus
    BY DEF StartWalk, StartRequest, CountRows, TextCandidates, Encode, EndWalk
  <1>3. \A d \in Clients \ {c} : walk'[d] = walk[d] /\ step'[d] = step[d]
    BY <1>1 DEF StartWalk, StartRequest, CountRows, TextCandidates, Encode, EndWalk
  <1>4. /\ Matches("fts")' = Matches("fts") /\ text' = text
        /\ \A mode \in Modes : Matches(mode)' = Matches(mode)
        /\ \A mode \in Modes : \A page, p : Awaited(mode, page, p)' = Awaited(mode, page, p)
    BY <1>2, CorpusKept DEF corpus, Modes
  <1> SUFFICES ClientInv(c)'
    BY <1>2, <1>3, OneClient
  <1>5. walk[c].unseen = {} \/ walk[c].mode \in Modes
    BY <1>1 DEF ClientInv
  <1>6. ASSUME NEW mode \in Modes, StartWalk(c, mode) PROVE ClientInv(c)'
    <2>1. /\ walk'[c] = [NoWalk EXCEPT !.mode = mode, !.unseen = Matches(mode)]
          /\ step'[c] = "idle"
      BY <1>1, <1>6 DEF StartWalk
    <2>2. /\ walk'[c].mode = mode /\ walk'[c].page = 0
          /\ walk'[c].unseen = Matches(mode)
      BY <2>1 DEF NoWalk
    <2>3. \A p \in Matches(mode) : Awaited(mode, 0, p)
      BY FirstPage, MatchesOfMode DEF TypeOK
    <2>4. mode # "none"
      BY DEF Modes
    <2>5. QED BY <1>4, <2>1, <2>2, <2>3, <2>4 DEF ClientInv
  <1>7. CASE StartRequest(c)
    <2>1. walk' = walk
      BY <1>7 DEF StartRequest
    <2>2. step'[c] = CASE walk[c].mode = "fts"    -> "count"
                       [] walk[c].mode = "vector" -> "model"
                       [] walk[c].mode = "hybrid" -> "text"
      BY <1>1, <1>7 DEF StartRequest
    <2>3. walk[c].mode \in {"fts", "vector", "hybrid"}
      BY <1>1, <1>7 DEF StartRequest, Modes
    <2>4. \/ walk[c].mode = "fts" /\ step'[c] = "count"
          \/ walk[c].mode = "vector" /\ step'[c] = "model"
          \/ walk[c].mode = "hybrid" /\ step'[c] = "text"
      BY <2>2, <2>3
    <2>5. \A p \in walk[c].unseen : Awaited(walk[c].mode, walk[c].page, p)' = Awaited(walk[c].mode, walk[c].page, p)
      BY <1>4, <1>5, <2>1
    <2>6. QED BY <1>1, <1>4, <2>1, <2>4, <2>5 DEF ClientInv, Modes
  <1>8. CASE CountRows(c)
    <2>1. /\ walk'[c] = [walk[c] EXCEPT !.total = Cardinality(Matches("fts"))]
          /\ step[c] = "count" /\ step'[c] = "rows"
      BY <1>1, <1>8 DEF CountRows
    <2>2. /\ walk'[c].mode = walk[c].mode /\ walk'[c].page = walk[c].page
          /\ walk'[c].unseen = walk[c].unseen /\ walk'[c].calm = walk[c].calm
      BY <1>1, <2>1 DEF Walk
    <2>3. walk[c].mode = "fts"
      BY <1>1, <2>1 DEF ClientInv
    <2>4. QED BY <1>1, <1>4, <2>1, <2>2, <2>3 DEF ClientInv, Modes
  <1>9. CASE TextCandidates(c)
    <2>1. PICK f \in Rankings(Matches("fts"), text) :
              walk' = [walk EXCEPT ![c].ranks = Limited(f)]
      BY <1>9 DEF TextCandidates
    <2>2. step[c] = "text" /\ step'[c] = "model"
      BY <1>1, <1>9 DEF TextCandidates
    <2>3. /\ walk'[c].mode = walk[c].mode /\ walk'[c].page = walk[c].page
          /\ walk'[c].unseen = walk[c].unseen /\ walk'[c].calm = walk[c].calm
          /\ walk'[c].ranks = Limited(f)
      BY <1>1, <2>1 DEF Walk
    <2>4. f = Places(Matches("fts"), text)
      BY MatchesOfMode, RankingIsPlaces DEF TypeOK
    <2>5. walk[c].mode = "hybrid"
      BY <1>1, <2>2 DEF ClientInv
    <2>6. QED BY <1>1, <1>4, <2>2, <2>3, <2>4, <2>5 DEF ClientInv, Modes
  <1>10. CASE Encode(c)
    <2>1. walk' = walk /\ step[c] = "encode" /\ step'[c] = "near"
      BY <1>1, <1>10 DEF Encode
    <2>2. walk[c].mode \in {"vector", "hybrid"}
      BY <1>1, <2>1 DEF ClientInv
    <2>3. QED BY <1>1, <1>4, <2>1, <2>2 DEF ClientInv, Modes
  <1>11. CASE EndWalk(c)
    <2>1. walk'[c] = NoWalk /\ step'[c] = "idle"
      BY <1>1, <1>11 DEF EndWalk
    <2>2. walk'[c].mode = "none" /\ walk'[c].unseen = {}
      BY <2>1 DEF NoWalk
    <2>3. QED BY <2>1, <2>2 DEF ClientInv
  <1>12. QED
    BY <1>6, <1>7, <1>8, <1>9, <1>10, <1>11

\* A page of full-text results.
LEMMA WalkReadRows ==
  ASSUME TypeOK, WalkInv, NEW c \in Clients, ReadRows(c)
  PROVE  WalkInv'
  <1>1. /\ walk[c] \in Walk /\ ClientInv(c) /\ step[c] = "rows" /\ UNCHANGED corpus
        /\ step'[c] = "idle"
        /\ \A d \in Clients \ {c} : walk'[d] = walk[d] /\ step'[d] = step[d]
    BY DEF ReadRows, TypeOK, WalkInv, Threads
  <1>2. PICK f \in Rankings(Matches("fts"), posted) :
            walk' = [walk EXCEPT ![c] = Turned(@, Page(f, walk[c].page))]
    BY DEF ReadRows
  <1>3. /\ walk'[c].mode = "fts" /\ walk[c].mode = "fts"
        /\ walk'[c].page = walk[c].page + 1 /\ walk[c].page \in Nat
        /\ walk'[c].unseen = walk[c].unseen \ Page(f, walk[c].page)
        /\ walk'[c].calm = walk[c].calm
    BY <1>1, <1>2 DEF ClientInv, Turned, Walk, TypeOK
  <1>4. /\ f = Places(Matches("fts"), posted)
        /\ Matches("fts") \in SUBSET Postings
    BY MatchesOfMode, RankingIsPlaces DEF TypeOK
  <1>5. ASSUME walk[c].calm, NEW p \in walk[c].unseen, p \notin Page(f, walk[c].page)
        PROVE  Awaited("fts", walk[c].page + 1, p)
    <2>1. p \in Matches("fts") /\ Awaited("fts", walk[c].page, p)
      BY <1>1, <1>3, <1>5 DEF ClientInv
    <2>2. p \in DOMAIN f /\ f[p] = Place(Matches("fts"), posted, p)
      BY <1>4, <2>1 DEF Places
    <2>3. f[p] \in Nat /\ f[p] > 0 /\ Position("fts", p) = f[p]
      BY <1>4, <2>1, <2>2, PlaceIsNatural, PositionIs
    <2>4. f[p] > walk[c].page * PageSize
      BY <2>1, <2>3 DEF Awaited
    <2>5. QED BY <1>3, <1>5, <2>2, <2>3, <2>4, NextPage DEF Awaited
  <1>6. /\ Matches("fts")' = Matches("fts")
        /\ \A page, p : Awaited("fts", page, p)' = Awaited("fts", page, p)
    BY <1>1, CorpusKept DEF Modes
  <1>7. ClientInv(c)'
    BY <1>1, <1>3, <1>5, <1>6 DEF ClientInv
  <1>8. QED BY <1>1, <1>7, OneClient

\* A page of vector or hybrid results.
LEMMA WalkNearCandidates ==
  ASSUME TypeOK, WalkInv, NEW c \in Clients, NearCandidates(c)
  PROVE  WalkInv'
  <1>1. /\ walk[c] \in Walk /\ ClientInv(c) /\ step[c] = "near" /\ UNCHANGED corpus
        /\ step'[c] = "idle"
        /\ \A d \in Clients \ {c} : walk'[d] = walk[d] /\ step'[d] = step[d]
    BY DEF NearCandidates, TypeOK, WalkInv, Threads
  <1>2. PICK f \in Rankings(Matches("vector"), near) :
            walk' = [walk EXCEPT ![c] =
                [Turned(@, Page(Merged(walk[c].mode, walk[c].ranks, Limited(f)), walk[c].page)) EXCEPT
                    !.total = Cardinality(Candidates(Merged(walk[c].mode, walk[c].ranks, Limited(f)))),
                    !.ranks = NoWalk.ranks]]
    BY DEF NearCandidates
  <1> DEFINE merged == Merged(walk[c].mode, walk[c].ranks, Limited(f))
  <1>3. /\ walk'[c].mode = walk[c].mode /\ walk[c].mode \in {"vector", "hybrid"}
        /\ walk'[c].page = walk[c].page + 1 /\ walk[c].page \in Nat
        /\ walk'[c].unseen = walk[c].unseen \ Page(merged, walk[c].page)
        /\ walk'[c].calm = walk[c].calm
    <2> HIDE DEF merged
    <2>1. walk'[c] = [Turned(walk[c], Page(merged, walk[c].page)) EXCEPT
                          !.total = Cardinality(Candidates(merged)), !.ranks = NoWalk.ranks]
      BY <1>2 DEF merged, TypeOK
    <2>2. walk[c].mode \in {"vector", "hybrid"}
      BY <1>1 DEF ClientInv
    <2>3. QED BY <1>1, <2>1, <2>2 DEF Turned, Walk
  <1>4. /\ f = Places(Matches("vector"), near)
        /\ Matches("vector") \in SUBSET Postings
        /\ walk[c].unseen \subseteq Postings
    BY <1>1, MatchesOfMode, RankingIsPlaces DEF TypeOK, Walk
  <1>5. ASSUME walk[c].calm, NEW p \in walk[c].unseen, p \notin Page(merged, walk[c].page)
        PROVE  Awaited(walk[c].mode, walk[c].page + 1, p)
    <2>1. Awaited(walk[c].mode, walk[c].page, p) /\ p \in Postings
      BY <1>1, <1>4, <1>5 DEF ClientInv
    <2>2. CASE walk[c].mode = "vector"
      <3>1. p \in Matches("vector")
        BY <1>1, <1>5, <2>2 DEF ClientInv
      <3>2. f[p] = Place(Matches("vector"), near, p) /\ DOMAIN f = Matches("vector")
        BY <1>4, <3>1 DEF Places
      <3>3. f[p] \in Nat /\ f[p] > 0 /\ Position("vector", p) = f[p]
        BY <1>4, <3>1, <3>2, PlaceIsNatural, PositionIs
      <3>4. CASE f[p] > TopK
        BY <2>2, <3>3, <3>4 DEF Awaited
      <3>5. CASE ~(f[p] > TopK)
        <4>1. merged = Limited(f)
          BY <2>2 DEF Merged
        <4>2. p \in DOMAIN merged /\ merged[p] = f[p]
          BY <2>1, <3>1, <3>2, <3>3, <3>5, <4>1, SearchAssumption DEF Limited
        <4>3. merged[p] > walk[c].page * PageSize
          BY <2>1, <2>2, <3>3, <3>5, <4>2 DEF Awaited
        <4> HIDE DEF merged
        <4>4. merged[p] > (walk[c].page + 1) * PageSize
          BY <1>3, <1>5, <3>3, <4>2, <4>3, NextPage
        <4>5. QED BY <2>2, <3>3, <4>2, <4>4 DEF Awaited
      <3>6. QED BY <3>4, <3>5
    <2>3. CASE walk[c].mode = "hybrid"
      <3>1. walk[c].ranks = Limited(Places(Matches("fts"), text))
        BY <1>1, <1>5, <2>3 DEF ClientInv
      <3>2. merged = Fused(walk[c].ranks, Limited(f))
        BY <2>3 DEF Merged
      <3>3. Position("hybrid", p) = merged[p]
        BY <1>4, <3>1, <3>2, PositionIs
      <3> HIDE DEF merged
      <3>4. merged[p] \in Nat /\ p \in DOMAIN merged
        BY <2>1, <3>2, FusedType
      <3>5. CASE merged[p] = 0
        BY <2>3, <3>3, <3>5 DEF Awaited
      <3>6. CASE merged[p] # 0
        <4>1. merged[p] > walk[c].page * PageSize
          BY <2>1, <2>3, <3>3, <3>6 DEF Awaited
        <4>2. merged[p] > (walk[c].page + 1) * PageSize
          BY <1>3, <1>5, <3>4, <4>1, NextPage
        <4>3. QED BY <2>3, <3>3, <4>2 DEF Awaited
      <3>7. QED BY <3>5, <3>6
    <2>4. QED BY <1>3, <2>2, <2>3
  <1>6. /\ Matches(walk[c].mode)' = Matches(walk[c].mode)
        /\ \A page, p : Awaited(walk[c].mode, page, p)' = Awaited(walk[c].mode, page, p)
    BY <1>1, <1>3, CorpusKept DEF Modes
  <1> HIDE DEF merged
  <1>7. ClientInv(c)'
    BY <1>1, <1>3, <1>5, <1>6 DEF ClientInv
  <1>8. QED BY <1>1, <1>7, OneClient

-----------------------------------------------------------------------------
(***************************************************************************)
(* The tasks beside the walk.                                              *)
(***************************************************************************)
LEMMA StillAwaitedText ==
  ASSUME TypeOK, TypeOK', Matches("fts") \subseteq Matches("fts")',
         \A q \in Matches("fts") : posted'[q] = posted[q],
         NEW page \in Nat, NEW p \in Matches("fts"), Awaited("fts", page, p)
  PROVE  Awaited("fts", page, p)'
  <1>1. Matches("fts") \in SUBSET Postings /\ Matches("fts")' \in SUBSET Postings
    BY MatchesOfMode DEF TypeOK, Matches
  <1>2. /\ Position("fts", p) = Place(Matches("fts"), posted, p)
        /\ Position("fts", p)' = Place(Matches("fts")', posted', p)
    BY PositionIs DEF Position, Place
  <1>3. Place(Matches("fts")', posted', p) >= Place(Matches("fts"), posted, p)
    BY <1>1, PlacesOnlyGrow
  <1>4. /\ Place(Matches("fts"), posted, p) \in Nat /\ Place(Matches("fts"), posted, p) > 0
        /\ Place(Matches("fts")', posted', p) \in Nat
        /\ page * PageSize \in Nat
    BY <1>1, PlaceIsNatural, SearchAssumption
  <1>5. QED BY <1>2, <1>3, <1>4 DEF Awaited

LEMMA StillAwaitedNear ==
  ASSUME TypeOK, TypeOK', Matches("vector") \subseteq Matches("vector")',
         \A q \in Matches("vector") : near'[q] = near[q],
         NEW page \in Nat, NEW p \in Matches("vector"), Awaited("vector", page, p)
  PROVE  Awaited("vector", page, p)'
  <1>1. Matches("vector") \in SUBSET Postings /\ Matches("vector")' \in SUBSET Postings
    BY MatchesOfMode DEF TypeOK, Matches
  <1>2. /\ Position("vector", p) = Place(Matches("vector"), near, p)
        /\ Position("vector", p)' = Place(Matches("vector")', near', p)
    BY PositionIs DEF Position, Place
  <1>3. Place(Matches("vector")', near', p) >= Place(Matches("vector"), near, p)
    BY <1>1, PlacesOnlyGrow
  <1>4. /\ Place(Matches("vector"), near, p) \in Nat /\ Place(Matches("vector"), near, p) > 0
        /\ Place(Matches("vector")', near', p) \in Nat
        /\ page * PageSize \in Nat /\ TopK \in Nat
    BY <1>1, PlaceIsNatural, SearchAssumption
  <1>5. QED BY <1>2, <1>3, <1>4 DEF Awaited

\* A task has to leave alone, or only to lengthen, the lists of those walks
\* that stay calm.
LEMMA TaskKeepsWalk ==
  ASSUME TypeOK, TypeOK', WalkInv, NEW modes, NEW c \in Clients,
         walk' = Disturbed(modes), step' = step, "hybrid" \in modes,
         "fts" \notin modes => /\ Matches("fts") \subseteq Matches("fts")'
                               /\ \A q \in Matches("fts") : posted'[q] = posted[q],
         "vector" \notin modes => /\ Matches("vector") \subseteq Matches("vector")'
                                  /\ \A q \in Matches("vector") : near'[q] = near[q]
  PROVE  ClientInv(c)'
  <1>1. /\ walk'[c].mode = walk[c].mode /\ walk'[c].page = walk[c].page
        /\ walk'[c].ranks = walk[c].ranks /\ walk'[c].unseen = walk[c].unseen
        /\ walk'[c].calm => walk[c].calm /\ walk[c].mode \notin modes
    BY DisturbedIs
  <1>2. /\ ClientInv(c) /\ walk[c].mode \in {"none", "fts", "vector", "hybrid"}
        /\ walk[c].page \in Nat
    BY DEF WalkInv, TypeOK, Walk, Modes
  <1>3. CASE ~walk'[c].calm
    BY <1>1, <1>2, <1>3 DEF ClientInv
  <1>4. CASE walk'[c].calm /\ walk[c].mode = "none"
    BY <1>1, <1>2, <1>4 DEF ClientInv
  <1>5. CASE walk'[c].calm /\ walk[c].mode = "fts"
    <2>1. /\ walk[c].unseen \subseteq Matches("fts")
          /\ \A p \in walk[c].unseen : Awaited("fts", walk[c].page, p)
          /\ "fts" \notin modes
      BY <1>1, <1>2, <1>5 DEF ClientInv
    <2>2. \A p \in walk[c].unseen : Awaited("fts", walk[c].page, p)'
      BY <1>1, <1>2, <2>1, StillAwaitedText
    <2>3. QED BY <1>1, <1>2, <1>5, <2>1, <2>2 DEF ClientInv
  <1>6. CASE walk'[c].calm /\ walk[c].mode = "vector"
    <2>1. /\ walk[c].unseen \subseteq Matches("vector")
          /\ \A p \in walk[c].unseen : Awaited("vector", walk[c].page, p)
          /\ "vector" \notin modes
      BY <1>1, <1>2, <1>6 DEF ClientInv
    <2>2. \A p \in walk[c].unseen : Awaited("vector", walk[c].page, p)'
      BY <1>1, <1>2, <2>1, StillAwaitedNear
    <2>3. QED BY <1>1, <1>2, <1>6, <2>1, <2>2 DEF ClientInv
  <1>7. QED BY <1>1, <1>2, <1>3, <1>4, <1>5, <1>6

LEMMA WalkTasks ==
  ASSUME TypeOK, WalkInv, NEW p \in Postings,
         \/ \E content \in Contents : Insert(p, content) \/ Edit(p, content)
         \/ \E nearness \in Nearness \ {0} : Embed(p, nearness)
  PROVE  WalkInv'
  <1>1. TypeOK'
    BY TypeTasks
  <1>2. /\ posted \in [Postings -> Nat] /\ text \in [Postings -> Nat] /\ near \in [Postings -> Nat]
        /\ present \subseteq Postings
        /\ \A q \in Postings \ present : near[q] = 0
    BY DEF TypeOK, WalkInv
  <1> SUFFICES /\ \A q \in Postings \ present' : near'[q] = 0
               /\ \A c \in Clients : ClientInv(c)'
    BY DEF WalkInv
  <1>3. ASSUME NEW content \in Contents, Insert(p, content)
        PROVE  /\ \A q \in Postings \ present' : near'[q] = 0
               /\ \A c \in Clients : ClientInv(c)'
    <2>1. /\ p \notin present /\ present' = present \cup {p} /\ near' = near
          /\ \A q \in present : posted'[q] = posted[q] /\ text'[q] = text[q]
          /\ walk' = Disturbed({"hybrid"}) /\ step' = step
      BY <1>2, <1>3 DEF Insert
    <2>2. /\ Matches("fts") \subseteq Matches("fts")'
          /\ \A q \in Matches("fts") : posted'[q] = posted[q]
      BY <2>1 DEF Matches
    <2>3. /\ Matches("vector") \subseteq Matches("vector")'
          /\ \A q \in Matches("vector") : near'[q] = near[q]
      BY <2>1 DEF Matches
    <2>4. \A c \in Clients : ClientInv(c)'
      BY <1>1, <2>1, <2>2, <2>3, TaskKeepsWalk
    <2>5. QED BY <1>2, <2>1, <2>4
  <1>4. ASSUME NEW content \in Contents, Edit(p, content)
        PROVE  /\ \A q \in Postings \ present' : near'[q] = 0
               /\ \A c \in Clients : ClientInv(c)'
    <2>1. /\ present' = present /\ near' = near
          /\ walk' = Disturbed({"fts", "hybrid"}) /\ step' = step
      BY <1>4 DEF Edit
    <2>2. /\ Matches("vector") \subseteq Matches("vector")'
          /\ \A q \in Matches("vector") : near'[q] = near[q]
      BY <2>1 DEF Matches
    <2>3. \A c \in Clients : ClientInv(c)'
      BY <1>1, <2>1, <2>2, TaskKeepsWalk
    <2>4. QED BY <1>2, <2>1, <2>3
  <1>5. ASSUME NEW nearness \in Nearness \ {0}, Embed(p, nearness)
        PROVE  /\ \A q \in Postings \ present' : near'[q] = 0
               /\ \A c \in Clients : ClientInv(c)'
    <2>1. /\ p \in present /\ present' = present /\ posted' = posted /\ text' = text
          /\ \A q \in Postings \ {p} : near'[q] = near[q]
          /\ step' = step
          /\ walk' = Disturbed(IF near[p] = 0 THEN {"hybrid"} ELSE {"vector", "hybrid"})
      BY <1>2, <1>5 DEF Embed
    <2>2. /\ Matches("fts") \subseteq Matches("fts")'
          /\ \A q \in Matches("fts") : posted'[q] = posted[q]
      BY <2>1 DEF Matches
    <2>3. near[p] = 0 => /\ Matches("vector") \subseteq Matches("vector")'
                         /\ \A q \in Matches("vector") : near'[q] = near[q]
      BY <1>2, <2>1 DEF Matches
    <2>4. \A c \in Clients : ClientInv(c)'
      <3>1. CASE near[p] = 0
        BY <1>1, <2>1, <2>2, <2>3, <3>1, TaskKeepsWalk
      <3>2. CASE near[p] # 0
        BY <1>1, <2>1, <2>2, <3>2, TaskKeepsWalk
      <3>3. QED BY <3>1, <3>2
    <2>5. QED BY <1>2, <2>1, <2>4
  <1>6. QED BY <1>3, <1>4, <1>5

\* For any number of postings, clients, pages and candidates, and whatever is
\* inserted, edited or embedded between two statements, no page of a list that
\* nothing has reordered is behind a posting the client has not seen.
THEOREM PagesSkipNothing == Spec => []NothingSkipped
  <1>1. Init => WalkInv
    <2>1. SUFFICES ASSUME Init PROVE WalkInv
      OBVIOUS
    <2>2. \A p \in Postings \ present : near[p] = 0
      BY <2>1 DEF Init
    <2>3. ASSUME NEW c \in Clients PROVE ClientInv(c)
      <3>1. step[c] = "idle" /\ walk[c] = NoWalk
        BY <2>1, SearchAssumption DEF Init, Threads
      <3>2. walk[c].mode = "none" /\ walk[c].unseen = {}
        BY <3>1 DEF NoWalk
      <3>3. QED BY <3>1, <3>2 DEF ClientInv
    <2>4. QED BY <2>2, <2>3 DEF WalkInv
  <1>2. TypeOK /\ WalkInv /\ [Next]_vars => WalkInv'
    <2>1. SUFFICES ASSUME TypeOK, WalkInv, [Next]_vars PROVE WalkInv'
      OBVIOUS
    <2>2. CASE UNCHANGED vars
      BY <2>1, <2>2, OtherClients DEF vars, WalkInv, corpus
    <2>3. CASE Next
      BY <2>1, <2>3, WalkEncoder, WalkClient, WalkReadRows, WalkNearCandidates, WalkTasks
         DEF Next, Threads
    <2>4. QED BY <2>1, <2>2, <2>3
  <1>3. WalkInv => NothingSkipped
    BY WalkInvIsEnough
  <1>4. QED BY <1>1, <1>2, <1>3, TypeCorrect, PTL DEF Spec
=============================================================================
