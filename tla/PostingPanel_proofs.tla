------------------------ MODULE PostingPanel_proofs ------------------------
(***************************************************************************)
(* Theorems about PostingPanel, for every set of postings, boards and      *)
(* fetch tasks and every calendar: some whatever may overlap, others if    *)
(* the overlaps they name are excluded.                                    *)
(***************************************************************************)
EXTENDS PostingPanel, TLAPS

\* What is staged as an update, or is about to be marked, has a row: rows are
\* never deleted, so neither a late commit nor a late mark meets a missing one.
RowsStay ==
    /\ \A f \in Fetchers, p \in Postings :
        staged[f][p] # None /\ staged[f][p].loaded # None => row[p] # None
    /\ \A p \in cands \cup marks : row[p] # None

\* A posting is looked up and missed only inside the ingestion transaction.
MissedInIngest == \A f \in Fetchers : pc[f] # "ingest" => missed[f] = {}

TypeInv == TypeOK /\ RowsStay /\ MissedInIngest

-----------------------------------------------------------------------------
(* What the operators of a commit return. *)

LEMMA NothingType == Nothing \in [Postings -> Contents \cup {None}]
                  /\ Nothing \in [Postings -> Staged \cup {None}]
                  /\ Nothing \in [Postings -> Row \cup {None}]
  BY DEF Nothing

LEMMA RowAfterType ==
  ASSUME NEW s \in Staged, NEW r \in Row \cup {None}, s.loaded # None => r # None
  PROVE  RowAfter(s, r) \in Row
  <1>1. s.content \in Contents /\ HashOf[s.content] \in Hashes
    BY DirectoryAssumption DEF Staged
  <1>2. CASE s.loaded = None
    BY <1>1, <1>2 DEF RowAfter, NewRow, Row
  <1>3. CASE s.loaded # None
    <2>1. s.loaded \in Row /\ r \in Row
      BY <1>3 DEF Staged
    <2>2. UpdatedRow(s, r) \in Row
      BY <1>1, <2>1 DEF UpdatedRow, Row
    <2>3. QED BY <1>3, <2>2 DEF RowAfter
  <1>4. QED BY <1>2, <1>3

LEMMA VersionRowsType ==
  ASSUME NEW s \in Staged
  PROVE  VersionRows(s) \subseteq Version
  BY DirectoryAssumption DEF VersionRows, Version, Staged

-----------------------------------------------------------------------------
THEOREM TypeInit == Init => TypeInv
  <1> SUFFICES ASSUME Init PROVE TypeInv
    OBVIOUS
  <1>1. TypeOK
    BY NothingType, BoundAssumption
    DEF Init, TypeOK, Days, RunStatus, CheckStatus
  <1>2. RowsStay
    BY DEF Init, RowsStay, Nothing
  <1>3. MissedInIngest
    BY DEF Init, MissedInIngest
  <1>4. QED BY <1>1, <1>2, <1>3 DEF TypeInv

\* Leaving puts the task's own variables back to their initial values.
LEMMA LeaveType ==
  ASSUME TypeInv, NEW f \in Fetchers, Leave(f)
  PROVE  /\ pc' \in [Fetchers -> {"idle", "ingest", "record", "failed"}]
         /\ board' \in [Fetchers -> Boards \cup {None}]
         /\ resp' \in [Fetchers -> [Postings -> Contents \cup {None}]]
         /\ todo' \in [Fetchers -> SUBSET Postings]
         /\ staged' \in [Fetchers -> [Postings -> Staged \cup {None}]]
         /\ missed' \in [Fetchers -> SUBSET Postings]
         /\ \A g \in Fetchers : pc'[g] # "idle" => board'[g] \in Boards
         /\ \A g \in Fetchers : \A p \in todo'[g] : resp'[g][p] # None
         /\ \A g \in Fetchers : \A p \in missed'[g] : resp'[g][p] # None
         /\ \A g \in Fetchers, p \in Postings :
                staged'[g][p] # None => staged'[g][p] = staged[g][p]
         /\ MissedInIngest'
  BY NothingType DEF TypeInv, TypeOK, Leave, Nothing, MissedInIngest

LEMMA RecordCheckType ==
  ASSUME TypeInv, NEW f \in Fetchers, pc[f] # "idle", NEW status \in CheckStatus,
         RecordCheck(f, status)
  PROVE  TypeInv'
  <1>1. TypeOK'
    <2>1. checks' \in [Boards -> [Days -> CheckStatus]]
      BY DEF TypeInv, TypeOK, RecordCheck
    <2>2. everOk' \subseteq Boards \X Days /\ listed' \subseteq Postings \X Days
      BY DEF TypeInv, TypeOK, RecordCheck
    <2>3. QED BY <2>1, <2>2, LeaveType DEF TypeInv, TypeOK, RecordCheck, worldVars, rollupVars
  <1>2. RowsStay'
    <2>1. Leave(f) /\ UNCHANGED <<row, cands, marks>>
      BY DEF RecordCheck, rollupVars
    <2>2. \A g \in Fetchers, p \in Postings :
              staged'[g][p] # None => staged'[g][p] = staged[g][p]
      BY <2>1, LeaveType
    <2>3. QED BY <2>1, <2>2 DEF TypeInv, RowsStay
  <1>3. QED BY <1>1, <1>2, LeaveType DEF TypeInv, RecordCheck

LEMMA CommitType ==
  ASSUME TypeInv, NEW f \in Fetchers, Commit(f)
  PROVE  TypeInv'
  <1> USE DEF TypeInv, TypeOK
  <1>1. row' \in [Postings -> Row \cup {None}]
    <2> SUFFICES ASSUME NEW p \in StagedBy(f) PROVE RowAfter(staged[f][p], row[p]) \in Row
      BY DEF Commit
    <2>1. p \in Postings /\ staged[f][p] \in Staged
      BY DEF StagedBy
    <2>2. row[p] \in Row \cup {None}
      BY <2>1
    <2>3. staged[f][p].loaded # None => row[p] # None
      BY <2>1 DEF RowsStay, StagedBy
    <2>4. QED BY <2>1, <2>2, <2>3, RowAfterType
  <1>2. versions' \in [Postings -> SUBSET Version]
    <2> SUFFICES ASSUME NEW p \in StagedBy(f) PROVE VersionRows(staged[f][p]) \subseteq Version
      BY DEF Commit
    <2>1. staged[f][p] \in Staged
      BY DEF StagedBy
    <2>2. QED BY <2>1, VersionRowsType
  <1>3. snapshots' \subseteq Postings \X Days
    <2>1. SnapshotRows(f) \subseteq Postings \X Days
      BY DEF SnapshotRows, StagedBy, Staged
    <2>2. QED BY <2>1 DEF Commit
  <1>4. /\ pc' \in [Fetchers -> {"idle", "ingest", "record", "failed"}]
        /\ board' \in [Fetchers -> Boards \cup {None}]
        /\ resp' \in [Fetchers -> [Postings -> Contents \cup {None}]]
        /\ todo' \in [Fetchers -> SUBSET Postings]
        /\ staged' \in [Fetchers -> [Postings -> Staged \cup {None}]]
        /\ missed' \in [Fetchers -> SUBSET Postings]
        /\ \A g \in Fetchers : pc'[g] # "idle" => board'[g] \in Boards
        /\ \A g \in Fetchers : \A p \in todo'[g] : resp'[g][p] # None
        /\ \A g \in Fetchers : \A p \in missed'[g] : resp'[g][p] # None
        /\ \A g \in Fetchers, p \in Postings :
                staged'[g][p] # None => staged'[g][p] = staged[g][p]
        /\ MissedInIngest'
    <2>1. CASE IsAuthoritative(board[f])
      <3>1. /\ pc' = [pc EXCEPT ![f] = "record"]
            /\ staged' = [staged EXCEPT ![f] = Nothing]
            /\ UNCHANGED <<board, resp, todo, missed>>
        BY <2>1 DEF Commit
      <3>2. pc[f] # "idle" /\ missed[f] = {}
        BY DEF Commit
      <3>3. \A g \in Fetchers, p \in Postings :
                staged'[g][p] # None => staged'[g][p] = staged[g][p]
        BY <3>1 DEF Nothing
      <3>4. MissedInIngest'
        BY <3>1, <3>2 DEF MissedInIngest
      <3>5. QED BY <3>1, <3>2, <3>3, <3>4, NothingType
    <2>2. CASE ~IsAuthoritative(board[f])
      BY <2>2, LeaveType DEF Commit
    <2>3. QED BY <2>1, <2>2
  <1>5. \A p \in Postings : row[p] # None => row'[p] # None
    <2> SUFFICES ASSUME NEW p \in StagedBy(f) PROVE row'[p] # None
      BY DEF Commit
    <2>1. p \in Postings /\ staged[f][p] \in Staged
      BY DEF StagedBy
    <2>2. staged[f][p].loaded # None => row[p] # None
      BY <2>1 DEF RowsStay, StagedBy
    <2>3. row[p] \in Row \cup {None}
      BY <2>1
    <2>4. RowAfter(staged[f][p], row[p]) \in Row
      BY <2>1, <2>2, <2>3, RowAfterType
    <2>5. QED BY <2>1, <2>4, NoneAssumption DEF Commit
  <1>6. RowsStay'
    BY <1>4, <1>5 DEF RowsStay, Commit, rollupVars
  <1>7. /\ UNCHANGED <<day, fetches, checks, runs, rpc, rday, mday, cands, marks,
                        everOk, listed, marked>>
        /\ raced' \subseteq Postings
    BY DEF Commit, worldVars, rollupVars, StagedBy, Overtaken
  <1>8. TypeOK'
    BY <1>1, <1>2, <1>3, <1>4, <1>7
  <1>9. QED BY <1>4, <1>6, <1>8

\* The largest number of a set of versions numbered 1..n is n.
LEMMA MaxOfSeqs ==
  ASSUME NEW V, NEW n \in Nat, {v.seq : v \in V} = 1 .. n
  PROVE  Max({v.seq : v \in V} \cup {0}) = n
  <1> DEFINE S == {v.seq : v \in V} \cup {0}
  <1>1. S = 0 .. n
    OBVIOUS
  <1>2. n \in S /\ \A y \in S : n >= y
    BY <1>1
  <1>3. \A x \in S : (\A y \in S : x >= y) => x = n
    BY <1>1, <1>2
  <1> HIDE DEF S
  <1>4. Max(S) = n
    BY <1>2, <1>3 DEF Max
  <1>5. QED BY <1>4 DEF S

LEMMA LastSeqType ==
  ASSUME TypeOK, VersionChain, NEW p \in Postings
  PROVE  LastSeq(p) \in Nat
  <1>1. CASE row[p] = None
    <2>1. versions[p] = {}
      BY <1>1 DEF VersionChain
    <2>2. {v.seq : v \in versions[p]} = {} /\ {} = 1 .. 0
      BY <2>1
    <2>3. Max({v.seq : v \in versions[p]} \cup {0}) = 0
      BY <2>2, MaxOfSeqs
    <2>4. QED BY <2>3 DEF LastSeq
  <1>2. CASE row[p] # None
    <2>1. [seq |-> LastSeq(p), hash |-> row[p].hash] \in Version
      BY <1>2 DEF VersionChain, TypeOK
    <2>2. QED BY <2>1 DEF Version
  <1>3. QED BY <1>1, <1>2

\* The statements of a fetch about one posting p of its response: the lookup, or
\* the search for a twin that follows a lookup in vain.
LEMMA JobType ==
  ASSUME TypeInv, NEW f \in Fetchers, NEW p \in Postings,
         \/ FindNone(f, p)
         \/ NextJob(f, p) /\ missed' = missed
         \/ Insertable(f, p)
  PROVE  /\ resp[f][p] \in Contents
         /\ UNCHANGED <<pc, board, resp, day, fetches, row, snapshots, versions, checks,
                        runs, rpc, rday, mday, cands, marks, everOk, listed, marked, raced>>
         /\ todo' \in [Fetchers -> SUBSET Postings]
         /\ \A g \in Fetchers : todo'[g] \subseteq todo[g]
         /\ missed' \in [Fetchers -> SUBSET Postings]
         /\ \A g \in Fetchers : \A q \in missed'[g] : resp[g][q] # None
         /\ MissedInIngest'
  <1> USE DEF TypeInv, TypeOK, MissedInIngest
  <1>1. CASE FindNone(f, p) \/ (NextJob(f, p) /\ missed' = missed)
    <2>1. /\ p \in todo[f] /\ todo' = [todo EXCEPT ![f] = @ \ {p}]
          /\ missed' = missed \/ missed' = [missed EXCEPT ![f] = {p}]
          /\ pc[f] = "ingest"
          /\ UNCHANGED <<pc, board, resp, day, fetches, row, snapshots, versions, checks,
                         runs, rpc, rday, mday, cands, marks, everOk, listed, marked, raced>>
      BY <1>1 DEF FindNone, NextJob, worldVars, tableVars, rollupVars, histVars
    <2>2. resp[f][p] \in Contents
      BY <2>1
    <2>3. /\ todo' \in [Fetchers -> SUBSET Postings]
          /\ \A g \in Fetchers : todo'[g] \subseteq todo[g]
      BY <2>1
    <2>4. /\ missed' \in [Fetchers -> SUBSET Postings]
          /\ \A g \in Fetchers : \A q \in missed'[g] : resp[g][q] # None
      <3>1. CASE missed' = missed
        BY <3>1
      <3>2. CASE missed' = [missed EXCEPT ![f] = {p}]
        <4>1. missed'[f] = {p} /\ \A g \in Fetchers \ {f} : missed'[g] = missed[g]
          BY <3>2
        <4>2. missed' \in [Fetchers -> SUBSET Postings]
          BY <3>2
        <4>3. QED BY <2>2, <4>1, <4>2, NoneAssumption
      <3>3. QED BY <2>1, <3>1, <3>2
    <2>5. MissedInIngest'
      BY <2>1
    <2>6. QED BY <2>1, <2>2, <2>3, <2>4, <2>5
  <1>2. CASE Insertable(f, p)
    <2>1. /\ p \in missed[f] /\ missed' = [missed EXCEPT ![f] = @ \ {p}] /\ todo' = todo
          /\ UNCHANGED <<pc, board, resp, day, fetches, row, snapshots, versions, checks,
                         runs, rpc, rday, mday, cands, marks, everOk, listed, marked, raced>>
      BY <1>2 DEF Insertable, worldVars, tableVars, rollupVars, histVars
    <2>2. QED BY <2>1
  <1>3. QED BY <1>1, <1>2

\* What a fetch stages for it.
LEMMA StageType ==
  ASSUME TypeInv, NEW f \in Fetchers, NEW p \in Postings,
         \/ FindNone(f, p)
         \/ NextJob(f, p) /\ missed' = missed
         \/ Insertable(f, p),
         NEW s \in Staged, s.loaded # None => row[p] # None,
         staged' = staged \/ staged' = [staged EXCEPT ![f][p] = s]
  PROVE  TypeInv'
  <1> USE DEF TypeInv, TypeOK
  <1>1. UNCHANGED <<pc, board, resp, day, fetches, row, snapshots, versions, checks,
                     runs, rpc, rday, mday, cands, marks, everOk, listed, marked, raced>>
    BY JobType
  <1>2. /\ todo' \in [Fetchers -> SUBSET Postings]
        /\ missed' \in [Fetchers -> SUBSET Postings]
        /\ \A g \in Fetchers : \A q \in missed'[g] : resp[g][q] # None
    BY JobType
  <1>3. \A g \in Fetchers : todo'[g] \subseteq todo[g]
    BY JobType
  <1>4. staged' \in [Fetchers -> [Postings -> Staged \cup {None}]]
    <2>1. [staged EXCEPT ![f][p] = s] \in [Fetchers -> [Postings -> Staged \cup {None}]]
      OBVIOUS
    <2>2. QED BY <2>1
  <1>5. TypeOK'
    BY <1>1, <1>2, <1>3, <1>4
  <1>6. RowsStay'
    <2>1. CASE staged' = staged
      BY <1>1, <2>1 DEF RowsStay
    <2>2. CASE staged' = [staged EXCEPT ![f][p] = s]
      <3>1. \A g \in Fetchers, q \in Postings :
              staged'[g][q] = staged[g][q] \/ (staged'[g][q] = s /\ q = p)
        BY <2>2
      <3>2. QED BY <1>1, <3>1 DEF RowsStay
    <2>3. QED BY <2>1, <2>2
  <1>7. QED BY <1>5, <1>6, JobType

LEMMA FetchType ==
  ASSUME TypeInv, VersionChain, NEW f \in Fetchers, Fetch(f)
  PROVE  TypeInv'
  <1>1. ASSUME NEW b \in Boards, HttpOk(f, b) PROVE TypeInv'
    <2>1. PICK r \in Responses(b) :
            /\ resp' = [resp EXCEPT ![f] = r]
            /\ todo' = [todo EXCEPT ![f] = {p \in Postings : r[p] # None}]
      BY <1>1 DEF HttpOk
    <2>2. r \in [Postings -> Contents \cup {None}]
      BY DEF Responses
    <2>4. /\ resp' \in [Fetchers -> [Postings -> Contents \cup {None}]]
          /\ todo' \in [Fetchers -> SUBSET Postings]
          /\ \A g \in Fetchers : \A p \in todo'[g] : resp'[g][p] # None
      BY <2>1, <2>2 DEF TypeInv, TypeOK
    <2>5. /\ pc' = [pc EXCEPT ![f] = "ingest"]
          /\ board' = [board EXCEPT ![f] = b]
          /\ fetches' = fetches + 1
          /\ UNCHANGED <<day, row, snapshots, versions, checks, runs, staged, missed,
                         rpc, rday, mday, cands, marks, everOk, listed, marked, raced>>
      BY <1>1 DEF HttpOk, MayFetch, tableVars, rollupVars, histVars
    <2>6. pc[f] = "idle"
      BY <1>1 DEF HttpOk, MayFetch
    <2>7. (TypeOK /\ RowsStay)'
      <3>1. \A g \in Fetchers : \A q \in missed'[g] : resp'[g][q] # None
        <4>1. missed[f] = {} /\ missed' = missed
          BY <2>5, <2>6 DEF TypeInv, MissedInIngest
        <4>2. \A g \in Fetchers \ {f} : resp'[g] = resp[g]
          BY <2>1 DEF TypeInv, TypeOK
        <4>3. \A g \in Fetchers : \A q \in missed[g] : resp[g][q] # None
          BY DEF TypeInv, TypeOK
        <4>4. QED BY <4>1, <4>2, <4>3
      <3>2. QED BY <2>4, <2>5, <3>1 DEF TypeInv, TypeOK, RowsStay
    <2>8. MissedInIngest'
      BY <2>5, <2>6 DEF TypeInv, TypeOK, MissedInIngest
    <2>9. QED BY <2>7, <2>8 DEF TypeInv
  <1>2. ASSUME NEW b \in Boards, HttpFail(f, b) PROVE TypeInv'
    <2>1. /\ pc' = [pc EXCEPT ![f] = "failed"]
          /\ board' = [board EXCEPT ![f] = b]
          /\ fetches' = fetches + 1
          /\ UNCHANGED <<day, row, snapshots, versions, checks, runs, resp,
                         todo, staged, missed, rpc, rday, mday, cands, marks, everOk, listed, marked, raced>>
      BY <1>2 DEF HttpFail, MayFetch, tableVars, rollupVars, histVars
    <2>2. pc[f] = "idle"
      BY <1>2 DEF HttpFail, MayFetch
    <2>3. QED BY <2>1, <2>2 DEF TypeInv, TypeOK, RowsStay, MissedInIngest
  <1>3. ASSUME NEW p \in Postings, FindNone(f, p) \/ SkipDuplicate(f, p) PROVE TypeInv'
    <2>1. /\ staged' = staged
          /\ FindNone(f, p) \/ Insertable(f, p)
      BY <1>3 DEF FindNone, SkipDuplicate
    <2>2. /\ UNCHANGED <<pc, board, resp, day, fetches, row, snapshots, versions, checks,
                         runs, rpc, rday, mday, cands, marks, everOk, listed, marked, raced>>
          /\ todo' \in [Fetchers -> SUBSET Postings]
          /\ \A g \in Fetchers : todo'[g] \subseteq todo[g]
          /\ missed' \in [Fetchers -> SUBSET Postings]
          /\ \A g \in Fetchers : \A q \in missed'[g] : resp[g][q] # None
          /\ MissedInIngest'
      BY <2>1, JobType
    <2>3. QED BY <2>1, <2>2 DEF TypeInv, TypeOK, RowsStay
  <1>4. ASSUME NEW p \in Postings, StageInsert(f, p) PROVE TypeInv'
    <2> DEFINE s == [loaded |-> None, content |-> resp[f][p], day |-> day, seq |-> 1]
    <2>1. Insertable(f, p) /\ staged' = [staged EXCEPT ![f][p] = s]
      BY <1>4 DEF StageInsert
    <2>2. resp[f][p] \in Contents
      BY <2>1, JobType
    <2>3. s \in Staged
      BY <2>2 DEF Staged, TypeInv, TypeOK
    <2>4. QED BY <2>1, <2>3, StageType
  <1>5. ASSUME NEW p \in Postings, StageUpdate(f, p) PROVE TypeInv'
    <2> DEFINE s == [loaded |-> row[p], content |-> resp[f][p], day |-> day, seq |-> 0]
    <2>1. /\ NextJob(f, p) /\ missed' = missed
          /\ row[p] # None /\ staged' = [staged EXCEPT ![f][p] = s]
      BY <1>5 DEF StageUpdate
    <2>2. resp[f][p] \in Contents
      BY <2>1, JobType
    <2>3. s \in Staged
      BY <2>2 DEF Staged, TypeInv, TypeOK
    <2>4. QED BY <2>1, <2>3, StageType
  <1>6. ASSUME NEW p \in Postings, ReadVersionSeq(f, p) PROVE TypeInv'
    <2> DEFINE s == [staged[f][p] EXCEPT !.seq = LastSeq(p) + 1]
    <2>1. staged[f][p] \in Staged /\ staged[f][p].loaded # None
      BY <1>6 DEF ReadVersionSeq, NeedsSeq, TypeInv, TypeOK
    <2>2. LastSeq(p) \in Nat
      BY <1>6, LastSeqType DEF TypeInv
    <2>3. s \in Staged /\ s.loaded = staged[f][p].loaded
      BY <2>1, <2>2 DEF Staged
    <2>4. /\ staged' = [staged EXCEPT ![f][p] = s]
          /\ UNCHANGED <<pc, board, resp, todo, missed, day, fetches, row, snapshots,
                         versions, checks, runs, rpc, rday, mday, cands, marks, everOk, listed,
                         marked, raced>>
      BY <1>6 DEF ReadVersionSeq, worldVars, tableVars, rollupVars, histVars, TypeInv, TypeOK
    <2>5. \A g \in Fetchers, q \in Postings :
            staged'[g][q] = staged[g][q] \/ (staged'[g][q] = s /\ q = p /\ g = f)
      BY <2>4 DEF TypeInv, TypeOK
    <2>6. RowsStay'
      BY <2>1, <2>3, <2>4, <2>5, NoneAssumption DEF TypeInv, TypeOK, RowsStay
    <2>7. TypeOK'
      <3>1. staged' \in [Fetchers -> [Postings -> Staged \cup {None}]]
        BY <2>3, <2>4 DEF TypeInv, TypeOK
      <3>2. QED BY <2>4, <3>1 DEF TypeInv, TypeOK
    <2>8. QED BY <2>4, <2>6, <2>7 DEF TypeInv, MissedInIngest
  <1>7. CASE Commit(f)
    BY <1>7, CommitType
  <1>8. CASE RecordSuccess(f)
    BY <1>8, RecordCheckType DEF RecordSuccess, CheckStatus, Checked
  <1>9. CASE RecordFailure(f)
    BY <1>9, RecordCheckType DEF RecordFailure, CheckStatus, Checked
  <1>10. CASE Abort(f)
    <2>1. UNCHANGED <<day, fetches, row, snapshots, versions, checks, runs,
                      rpc, rday, mday, cands, marks, everOk, listed, marked, raced>>
      BY <1>10 DEF Abort, worldVars, tableVars, rollupVars, histVars
    <2>2. Leave(f)
      BY <1>10 DEF Abort
    <2>3. TypeOK'
      BY <2>1, <2>2, LeaveType DEF TypeInv, TypeOK
    <2>4. RowsStay'
      <3>1. \A g \in Fetchers, p \in Postings :
              staged'[g][p] # None => staged'[g][p] = staged[g][p]
        BY <2>2, LeaveType
      <3>2. QED BY <2>1, <3>1 DEF TypeInv, RowsStay
    <2>5. QED BY <2>2, <2>3, <2>4, LeaveType DEF TypeInv
  <1>11. QED BY <1>1, <1>2, <1>3, <1>4, <1>5, <1>6, <1>7, <1>8, <1>9, <1>10 DEF Fetch

LEMMA MidnightType ==
  ASSUME TypeInv, Midnight
  PROVE  TypeInv'
  <1>1. day' \in Days
    BY BoundAssumption DEF Midnight, TypeInv, TypeOK, Days
  <1>2. UNCHANGED <<fetches, row, snapshots, versions, checks, runs, pc, board, resp, todo,
                     staged, missed, rpc, rday, mday, cands, marks, everOk, listed, marked, raced>>
    BY DEF Midnight, tableVars, fetchVars, rollupVars, histVars
  <1>3. QED BY <1>1, <1>2 DEF TypeInv, TypeOK, RowsStay, MissedInIngest

LEMMA RollupType ==
  ASSUME TypeInv, Rollup
  PROVE  TypeInv'
  <1> USE DEF TypeInv, TypeOK, RowsStay, MissedInIngest
  <1>1. CASE RollupStart
    <2>1. /\ rpc' = "select" /\ rday' = day
          /\ UNCHANGED <<mday, cands, marks, day, fetches, row, snapshots, versions, checks, runs, pc,
                         board, resp, todo, staged, missed, everOk, listed, marked, raced>>
      BY <1>1 DEF RollupStart, worldVars, tableVars, fetchVars, histVars
    <2>2. QED BY <2>1
  <1>2. CASE RollupSelect
    <2>1. /\ rpc' = "check" /\ mday' = day /\ cands' = Candidates(rday)
          /\ UNCHANGED <<rday, marks, day, fetches, row, snapshots, versions, checks, runs, pc,
                         board, resp, todo, staged, missed, everOk, listed, marked, raced>>
      BY <1>2 DEF RollupSelect, worldVars, tableVars, fetchVars, histVars
    <2>2. \A p \in Candidates(rday) : p \in Postings /\ row[p] # None
      BY DEF Candidates
    <2>3. QED BY <2>1, <2>2
  <1>3. ASSUME NEW p \in Postings, RollupCheck(p) PROVE TypeInv'
    BY <1>3 DEF RollupCheck, worldVars, tableVars, fetchVars, histVars
  <1>4. CASE RollupMark
    <2>1. \A p \in marks : [row[p] EXCEPT !.gone = mday] \in Row
      <3>1. \A p \in marks : row[p] \in Row
        OBVIOUS
      <3>2. QED BY <3>1 DEF Row
    <2>2. /\ row' \in [Postings -> Row \cup {None}]
          /\ \A p \in Postings : row[p] # None => row'[p] # None
      <3>1. row' = [p \in Postings |->
                IF p \in marks THEN [row[p] EXCEPT !.gone = mday] ELSE row[p]]
        BY <1>4 DEF RollupMark
      <3>2. QED BY <2>1, <3>1, NoneAssumption
    <2>3. marked' \in [Postings -> Nat]
      BY <1>4 DEF RollupMark
    <2>4. UNCHANGED <<rday, mday, cands, marks, day, fetches, snapshots, versions, checks,
                      runs, pc, board, resp, todo, staged, missed, everOk, listed, raced>> /\ rpc' = "summarise"
      BY <1>4 DEF RollupMark, worldVars, fetchVars
    <2>5. QED BY <2>2, <2>3, <2>4
  <1>5. CASE RollupSummarise
    <2>1. \A s \in Sources : RunStatusOf(s, rday) \in RunStatus
      BY DEF RunStatusOf, RunStatus
    <2>2. runs' \in [Sources -> [Days -> RunStatus]]
      BY <1>5, <2>1 DEF RollupSummarise
    <2>3. /\ rpc' = "idle" /\ rday' = 0 /\ mday' = 0 /\ marks' = {}
          /\ UNCHANGED <<cands, day, fetches, row, snapshots, versions, checks, pc,
                         board, resp, todo, staged, missed, everOk, listed, marked, raced>>
      BY <1>5 DEF RollupSummarise, worldVars, fetchVars, histVars
    <2>4. 0 \in Days
      BY BoundAssumption DEF Days
    <2>5. QED BY <2>2, <2>3, <2>4
  <1>6. CASE RollupAbort
    <2>1. 0 \in Days
      BY BoundAssumption DEF Days
    <2>2. QED BY <1>6, <2>1 DEF RollupAbort, worldVars, tableVars, fetchVars, histVars
  <1>7. QED BY <1>1, <1>2, <1>3, <1>4, <1>5, <1>6 DEF Rollup

LEMMA TypeStep ==
  ASSUME TypeInv, VersionChain, [Next]_vars
  PROVE  TypeInv'
  <1>1. CASE Midnight
    BY <1>1, MidnightType
  <1>2. ASSUME NEW f \in Fetchers, Fetch(f) PROVE TypeInv'
    BY <1>2, FetchType
  <1>3. CASE Rollup
    BY <1>3, RollupType
  <1>4. CASE UNCHANGED vars
    BY <1>4 DEF vars, worldVars, tableVars, fetchVars, rollupVars, histVars,
                TypeInv, TypeOK, RowsStay, MissedInIngest
  <1>5. QED BY <1>1, <1>2, <1>3, <1>4 DEF Next

-----------------------------------------------------------------------------
(***************************************************************************)
(* The version history.  VersionChain is not inductive: it needs that the  *)
(* number a fetch has looked up is never more than one past the last one,  *)
(* which stays true while other fetches add versions.  The uniqueness      *)
(* constraint then leaves exactly the next number.                         *)
(***************************************************************************)
SeqsNeverAhead ==
    \A f \in Fetchers, p \in Postings :
        staged[f][p] # None =>
            /\ staged[f][p].loaded = None => staged[f][p].seq = 1
            /\ staged[f][p].seq <= LastSeq(p) + 1

ChainInv == TypeInv /\ VersionChain /\ SeqsNeverAhead

\* Adding the version LastSeq + 1 to a chain gives a chain that ends there.
LEMMA ChainGrows ==
  ASSUME NEW V \in SUBSET Version, NEW n \in Nat, {v.seq : v \in V} = 1 .. n,
         \A v, w \in V : v.seq = w.seq => v = w,
         NEW h \in Hashes
  PROVE  LET W == V \cup {[seq |-> n + 1, hash |-> h]}
         IN  /\ {v.seq : v \in W} = 1 .. n + 1
             /\ \A v, w \in W : v.seq = w.seq => v = w
             /\ Max({v.seq : v \in W} \cup {0}) = n + 1
  <1> DEFINE x == [seq |-> n + 1, hash |-> h]
             W == V \cup {x}
  <1>1. x.seq = n + 1
    OBVIOUS
  <1>2. {v.seq : v \in W} = {v.seq : v \in V} \cup {n + 1}
    BY <1>1
  <1>3. {v.seq : v \in W} = 1 .. n + 1
    <2>1. 1 .. n + 1 = (1 .. n) \cup {n + 1}
      OBVIOUS
    <2>2. QED BY <1>2, <2>1
  <1>4. \A v \in V : v.seq \in 1 .. n
    OBVIOUS
  <1>5. \A v, w \in W : v.seq = w.seq => v = w
    BY <1>1, <1>4
  <1>6. Max({v.seq : v \in W} \cup {0}) = n + 1
    <2>1. n + 1 \in Nat
      OBVIOUS
    <2> HIDE DEF W
    <2>2. QED BY <1>3, <2>1, MaxOfSeqs
  <1>7. QED BY <1>3, <1>5, <1>6

\* A step that adds no version, changes no live hash and stages nothing new.
LEMMA ChainFrame ==
  ASSUME ChainInv, versions' = versions,
         \A p \in Postings : /\ row'[p] = None <=> row[p] = None
                             /\ row[p] # None => row'[p].hash = row[p].hash,
         \A g \in Fetchers, p \in Postings :
            staged'[g][p] # None => staged'[g][p] = staged[g][p]
  PROVE  VersionChain' /\ SeqsNeverAhead'
  <1>1. \A p \in Postings : LastSeq(p)' = LastSeq(p)
    BY DEF LastSeq
  <1>2. VersionChain'
    BY <1>1 DEF ChainInv, VersionChain
  <1>3. SeqsNeverAhead'
    BY <1>1 DEF ChainInv, SeqsNeverAhead
  <1>4. QED BY <1>2, <1>3

\* A fetch that stages s for p, and whose number is not ahead of the chain.
LEMMA ChainStage ==
  ASSUME ChainInv, NEW f \in Fetchers, NEW p \in Postings, NEW s,
         staged' = [staged EXCEPT ![f][p] = s], UNCHANGED <<row, versions>>,
         s.loaded = None => s.seq = 1, s.seq <= LastSeq(p) + 1
  PROVE  VersionChain' /\ SeqsNeverAhead'
  <1>1. \A q \in Postings : LastSeq(q)' = LastSeq(q)
    BY DEF LastSeq
  <1>2. VersionChain'
    BY <1>1 DEF ChainInv, VersionChain
  <1>3. \A g \in Fetchers, q \in Postings :
          staged'[g][q] = staged[g][q] \/ (staged'[g][q] = s /\ q = p)
    BY DEF ChainInv, TypeInv, TypeOK
  <1>4. SeqsNeverAhead'
    BY <1>1, <1>3 DEF ChainInv, SeqsNeverAhead
  <1>5. QED BY <1>2, <1>4

\* The versions of a posting are numbered 1..LastSeq, also when it has none.
LEMMA SeqsOfChain ==
  ASSUME TypeOK, VersionChain, NEW p \in Postings
  PROVE  LastSeq(p) \in Nat /\ {v.seq : v \in versions[p]} = 1 .. LastSeq(p)
  <1>1. LastSeq(p) \in Nat
    BY LastSeqType
  <1>2. CASE row[p] = None
    <2>1. versions[p] = {}
      BY <1>2 DEF VersionChain
    <2>2. {v.seq : v \in versions[p]} = {} /\ {} = 1 .. 0
      BY <2>1
    <2>3. Max({v.seq : v \in versions[p]} \cup {0}) = 0
      BY <2>2, MaxOfSeqs
    <2>4. QED BY <1>1, <2>2, <2>3 DEF LastSeq
  <1>3. CASE row[p] # None
    BY <1>1, <1>3 DEF VersionChain
  <1>4. QED BY <1>2, <1>3

\* The uniqueness constraint lets only the next number through.
LEMMA SeqIsNext ==
  ASSUME ChainInv, NEW f \in Fetchers, Commit(f), NEW p \in StagedBy(f), staged[f][p].seq # 0
  PROVE  staged[f][p].seq = LastSeq(p) + 1
  <1>1. p \in Postings /\ staged[f][p] # None
    BY DEF StagedBy
  <1>2. LastSeq(p) \in Nat /\ {v.seq : v \in versions[p]} = 1 .. LastSeq(p)
    BY <1>1, SeqsOfChain DEF ChainInv, TypeInv
  <1>3. staged[f][p].seq \in Nat /\ staged[f][p].seq <= LastSeq(p) + 1
    BY <1>1 DEF ChainInv, TypeInv, TypeOK, Staged, SeqsNeverAhead
  <1>4. \A v \in versions[p] : v.seq # staged[f][p].seq
    BY DEF Commit, NoConflict
  <1>5. staged[f][p].seq \notin 1 .. LastSeq(p)
    BY <1>2, <1>4
  <1>6. QED BY <1>2, <1>3, <1>5

LEMMA ChainCommit ==
  ASSUME ChainInv, NEW f \in Fetchers, Commit(f)
  PROVE  VersionChain' /\ SeqsNeverAhead'
  <1> USE DEF ChainInv
  <1>1. ASSUME NEW p \in Postings
        PROVE  /\ LastSeq(p)' \in Nat /\ LastSeq(p)' >= LastSeq(p)
               /\ IF row'[p] = None THEN versions'[p] = {}
                  ELSE /\ {v.seq : v \in versions'[p]} = 1 .. LastSeq(p)'
                       /\ \A v, w \in versions'[p] : v.seq = w.seq => v = w
                       /\ [seq |-> LastSeq(p)', hash |-> row'[p].hash] \in versions'[p]
    <2> DEFINE s == staged[f][p]
               h == HashOf[s.content]
               n == LastSeq(p)
    <2>1. n \in Nat
      BY SeqsOfChain DEF TypeInv
    <2>2. {v.seq : v \in versions[p]} = 1 .. n
      BY SeqsOfChain DEF TypeInv
    <2>3. \A v, w \in versions[p] : v.seq = w.seq => v = w
      BY DEF VersionChain
    <2>4. CASE p \notin StagedBy(f)
      <3>1. row'[p] = row[p] /\ versions'[p] = versions[p]
        BY <2>4 DEF Commit
      <3>2. LastSeq(p)' = n
        BY <3>1 DEF LastSeq
      <3>3. QED BY <2>1, <3>1, <3>2 DEF VersionChain
    <2>5. CASE p \in StagedBy(f)
      <3>1. s \in Staged /\ s # None
        BY <2>5 DEF StagedBy, TypeInv, TypeOK
      <3>2. h \in Hashes
        BY <3>1, DirectoryAssumption DEF Staged
      <3>3. row'[p] = RowAfter(s, row[p]) /\ versions'[p] = versions[p] \cup VersionRows(s)
        BY <2>5 DEF Commit
      <3>4. row[p] \in Row \cup {None} /\ (s.loaded # None => row[p] # None)
        BY <3>1 DEF TypeInv, TypeOK, RowsStay
      <3>5. row'[p] # None
        BY <3>1, <3>3, <3>4, RowAfterType, NoneAssumption
      <3>6. CASE s.seq = 0
        <4>1. versions'[p] = versions[p]
          BY <3>3, <3>6 DEF VersionRows
        <4>2. s.loaded # None
          BY <3>1, <3>6 DEF SeqsNeverAhead
        <4>3. row'[p].hash = row[p].hash
          BY <3>3, <3>6, <4>2 DEF RowAfter, UpdatedRow
        <4>4. LastSeq(p)' = n
          BY <4>1 DEF LastSeq
        <4>5. QED BY <2>1, <3>4, <3>5, <4>1, <4>2, <4>3, <4>4 DEF VersionChain
      <3>7. CASE s.seq # 0
        <4>1. s.seq = n + 1
          BY <2>5, <3>7, SeqIsNext
        <4>2. versions'[p] = versions[p] \cup {[seq |-> n + 1, hash |-> h]}
          BY <3>3, <3>7, <4>1 DEF VersionRows
        <4>3. row'[p].hash = h
          BY <3>3, <3>7 DEF RowAfter, NewRow, UpdatedRow
        <4>4. versions[p] \in SUBSET Version
          BY DEF TypeInv, TypeOK
        <4>5. /\ {v.seq : v \in versions'[p]} = 1 .. n + 1
              /\ \A v, w \in versions'[p] : v.seq = w.seq => v = w
              /\ Max({v.seq : v \in versions'[p]} \cup {0}) = n + 1
          <5> HIDE DEF n, h
          <5>1. QED BY <2>1, <2>2, <2>3, <3>2, <4>2, <4>4, ChainGrows
        <4>6. LastSeq(p)' = n + 1
          BY <4>5 DEF LastSeq
        <4>7. QED BY <2>1, <3>5, <4>2, <4>3, <4>5, <4>6
      <3>8. QED BY <3>6, <3>7
    <2>6. QED BY <2>4, <2>5
  <1>2. VersionChain'
    BY <1>1 DEF VersionChain
  <1>3. \A g \in Fetchers, p \in Postings :
          staged'[g][p] # None => staged'[g][p] = staged[g][p]
    <2>1. CASE IsAuthoritative(board[f])
      <3>1. staged' = [staged EXCEPT ![f] = Nothing]
        BY <2>1 DEF Commit
      <3>2. QED BY <3>1 DEF Nothing, TypeInv, TypeOK
    <2>2. CASE ~IsAuthoritative(board[f])
      BY <2>2, LeaveType DEF Commit
    <2>3. QED BY <2>1, <2>2
  <1>4. SeqsNeverAhead'
    <2> SUFFICES ASSUME NEW g \in Fetchers, NEW p \in Postings, staged'[g][p] # None
                 PROVE  /\ staged'[g][p].loaded = None => staged'[g][p].seq = 1
                        /\ staged'[g][p].seq <= LastSeq(p)' + 1
      BY DEF SeqsNeverAhead
    <2>1. staged'[g][p] = staged[g][p] /\ staged[g][p] \in Staged
      BY <1>3 DEF TypeInv, TypeOK
    <2>2. LastSeq(p)' \in Nat /\ LastSeq(p)' >= LastSeq(p) /\ LastSeq(p) \in Nat
      BY <1>1, LastSeqType DEF TypeInv
    <2>3. QED BY <2>1, <2>2 DEF SeqsNeverAhead, Staged
  <1>5. QED BY <1>2, <1>4

LEMMA ChainStep ==
  ASSUME ChainInv, [Next]_vars
  PROVE  ChainInv'
  <1> USE DEF ChainInv
  <1>1. TypeInv'
    BY TypeStep
  <1>2. VersionChain' /\ SeqsNeverAhead'
    <2>1. CASE Midnight \/ UNCHANGED vars
      <3>1. UNCHANGED <<row, versions, staged>>
        BY <2>1 DEF Midnight, vars, tableVars, fetchVars
      <3>2. QED BY <3>1, ChainFrame
    <2>2. ASSUME NEW f \in Fetchers, NEW b \in Boards, HttpOk(f, b) \/ HttpFail(f, b)
          PROVE  VersionChain' /\ SeqsNeverAhead'
      <3>1. UNCHANGED <<row, versions, staged>>
        BY <2>2 DEF HttpOk, HttpFail, tableVars
      <3>2. QED BY <3>1, ChainFrame
    <2>3. ASSUME NEW f \in Fetchers, NEW p \in Postings, FindNone(f, p) \/ SkipDuplicate(f, p)
          PROVE  VersionChain' /\ SeqsNeverAhead'
      <3>1. UNCHANGED <<row, versions, staged>>
        BY <2>3 DEF FindNone, SkipDuplicate, Insertable, NextJob, tableVars
      <3>2. QED BY <3>1, ChainFrame
    <2>4. ASSUME NEW f \in Fetchers, NEW p \in Postings, StageInsert(f, p)
          PROVE  VersionChain' /\ SeqsNeverAhead'
      <3> DEFINE s == [loaded |-> None, content |-> resp[f][p], day |-> day, seq |-> 1]
      <3>1. staged' = [staged EXCEPT ![f][p] = s] /\ UNCHANGED <<row, versions>>
        BY <2>4 DEF StageInsert, Insertable, tableVars
      <3>2. LastSeq(p) \in Nat
        BY LastSeqType DEF TypeInv
      <3>3. s.seq = 1 /\ s.seq <= LastSeq(p) + 1
        BY <3>2
      <3> HIDE DEF s
      <3>4. QED BY <3>1, <3>3, ChainStage
    <2>5. ASSUME NEW f \in Fetchers, NEW p \in Postings, StageUpdate(f, p)
          PROVE  VersionChain' /\ SeqsNeverAhead'
      <3> DEFINE s == [loaded |-> row[p], content |-> resp[f][p], day |-> day, seq |-> 0]
      <3>1. /\ staged' = [staged EXCEPT ![f][p] = s]
            /\ UNCHANGED <<row, versions>>
            /\ row[p] # None
        BY <2>5 DEF StageUpdate, NextJob, tableVars
      <3>2. LastSeq(p) \in Nat
        BY LastSeqType DEF TypeInv
      <3>3. s.loaded # None /\ s.seq <= LastSeq(p) + 1
        BY <3>1, <3>2
      <3> HIDE DEF s
      <3>4. QED BY <3>1, <3>3, ChainStage
    <2>6. ASSUME NEW f \in Fetchers, NEW p \in Postings, ReadVersionSeq(f, p)
          PROVE  VersionChain' /\ SeqsNeverAhead'
      <3> DEFINE s == [staged[f][p] EXCEPT !.seq = LastSeq(p) + 1]
      <3>1. staged' = [staged EXCEPT ![f][p] = s] /\ UNCHANGED <<row, versions>>
        BY <2>6 DEF ReadVersionSeq, tableVars, TypeInv, TypeOK
      <3>2. staged[f][p] \in Staged /\ staged[f][p].loaded # None
        BY <2>6 DEF ReadVersionSeq, NeedsSeq, TypeInv, TypeOK
      <3>3. LastSeq(p) \in Nat
        BY LastSeqType DEF TypeInv
      <3>4. s.loaded # None /\ s.seq <= LastSeq(p) + 1
        BY <3>2, <3>3 DEF Staged
      <3> HIDE DEF s
      <3>5. QED BY <3>1, <3>4, ChainStage
    <2>7. ASSUME NEW f \in Fetchers, Commit(f) PROVE VersionChain' /\ SeqsNeverAhead'
      BY <2>7, ChainCommit
    <2>8. ASSUME NEW f \in Fetchers, RecordSuccess(f) \/ RecordFailure(f) \/ Abort(f)
          PROVE  VersionChain' /\ SeqsNeverAhead'
      <3>1. Leave(f) /\ UNCHANGED <<row, versions>>
        BY <2>8 DEF RecordSuccess, RecordFailure, RecordCheck, Abort, tableVars
      <3>2. \A g \in Fetchers, p \in Postings :
              staged'[g][p] # None => staged'[g][p] = staged[g][p]
        BY <3>1, LeaveType
      <3>3. QED BY <3>1, <3>2, ChainFrame
    <2>9. CASE Rollup
      <3>1. UNCHANGED <<versions, staged>>
        BY <2>9 DEF Rollup, RollupStart, RollupSelect, RollupCheck, RollupMark, RollupSummarise,
                    RollupAbort,
                    tableVars, fetchVars
      <3>2. \A p \in Postings :
              row'[p] = row[p] \/ (p \in marks /\ row'[p] = [row[p] EXCEPT !.gone = mday])
        BY <2>9 DEF Rollup, RollupStart, RollupSelect, RollupCheck, RollupMark, RollupSummarise,
                    RollupAbort,
                    tableVars, TypeInv, TypeOK
      <3>3. \A p \in marks : row[p] \in Row
        BY DEF TypeInv, TypeOK, RowsStay
      <3>4. \A p \in marks : [row[p] EXCEPT !.gone = mday] \in Row
                            /\ [row[p] EXCEPT !.gone = mday].hash = row[p].hash
        BY <3>3 DEF Row, TypeInv, TypeOK
      <3>5. QED BY <3>1, <3>2, <3>3, <3>4, NoneAssumption, ChainFrame
    <2>10. QED BY <2>1, <2>2, <2>3, <2>4, <2>5, <2>6, <2>7, <2>8, <2>9 DEF Next, Fetch
  <1>3. QED BY <1>1, <1>2

LEMMA ChainInit == Init => ChainInv
  <1> SUFFICES ASSUME Init PROVE ChainInv
    OBVIOUS
  <1>1. VersionChain
    BY DEF Init, VersionChain, Nothing
  <1>2. SeqsNeverAhead
    BY DEF Init, SeqsNeverAhead, Nothing
  <1>3. QED BY <1>1, <1>2, TypeInit DEF ChainInv

\* Every variable stays in its type: no interleaving of fetches, rollup, crashes
\* and midnights ever updates or marks a row that is not there.
THEOREM TypeCorrect == Spec => []TypeOK
  <1>1. ChainInv /\ [Next]_vars => ChainInv'
    BY ChainStep
  <1>2. ChainInv => TypeOK
    BY DEF ChainInv, TypeInv
  <1>3. QED BY <1>1, <1>2, ChainInit, PTL DEF Spec

\* However many fetches of one board overlap, the versions of a posting stay
\* numbered 1..n and the live hash stays the hash of version n.
THEOREM VersionsChained == Spec => []VersionChain
  <1>1. ChainInv /\ [Next]_vars => ChainInv'
    BY ChainStep
  <1>2. ChainInv => VersionChain
    BY DEF ChainInv
  <1>3. QED BY <1>1, <1>2, ChainInit, PTL DEF Spec

-----------------------------------------------------------------------------
(* What the rollup holds between its statements: nothing before it has selected *)
(* its candidates, and a mark day that is the run's day or the day after.       *)

RollupLocal ==
    /\ rpc \in {"idle", "select"} => cands = {} /\ marks = {}
    /\ rpc = "summarise" => cands = {}
    /\ rpc = "select" => day \in {rday, rday + 1}
    /\ rpc \in {"check", "summarise"} => mday \in {rday, rday + 1}

LEMMA RollupLocalStep ==
  ASSUME TypeInv, RollupLocal, [Next]_vars
  PROVE  RollupLocal'
  <1> USE DEF RollupLocal
  <1>1. CASE Midnight \/ UNCHANGED vars
    BY <1>1 DEF Midnight, vars, worldVars, rollupVars, TypeInv, TypeOK, Days
  <1>2. ASSUME NEW f \in Fetchers, Fetch(f) PROVE RollupLocal'
    <2>1. UNCHANGED <<day, rpc, rday, mday, cands, marks>>
      BY <1>2 DEF Fetch, HttpOk, HttpFail, MayFetch, FindNone, SkipDuplicate, StageInsert,
                  StageUpdate, Insertable, NextJob, ReadVersionSeq, Commit, RecordSuccess,
                  RecordFailure, RecordCheck, Abort, worldVars, rollupVars
    <2>2. QED BY <2>1
  <1>3. CASE Rollup
    <2>1. CASE RollupStart
      BY <2>1 DEF RollupStart, worldVars
    <2>2. CASE RollupSelect
      BY <2>2 DEF RollupSelect, worldVars
    <2>3. ASSUME NEW p \in Postings, RollupCheck(p) PROVE RollupLocal'
      BY <2>3 DEF RollupCheck, worldVars
    <2>4. CASE RollupMark
      BY <2>4 DEF RollupMark, worldVars
    <2>5. CASE RollupSummarise \/ RollupAbort
      BY <2>5 DEF RollupSummarise, RollupAbort
    <2>6. QED BY <1>3, <2>1, <2>2, <2>3, <2>4, <2>5 DEF Rollup
  <1>4. QED BY <1>1, <1>2, <1>3 DEF Next

LEMMA RollupLocalInit == Init => RollupLocal
  BY DEF Init, RollupLocal

-----------------------------------------------------------------------------
(***************************************************************************)
(* Disappearances.  A mark is justified by a check recorded before it, and *)
(* an episode is counted against a mark made before it; both facts must    *)
(* survive inside the locals of the rollup and of the fetches.             *)
(***************************************************************************)
ChecksRemembered ==
    \A b \in Boards, d \in Days : checks[b][d] \in Checked => <<b, d>> \in everOk

MarksJustified == \A p \in marks : <<BoardOf[p], rday>> \in everOk

\* The marks a row accounts for: its closed episodes and the one still open.
Accounted(r) == r.episodes + (IF r.gone = NoDay THEN 0 ELSE 1)

StagedAccounted ==
    \A f \in Fetchers, p \in Postings :
        staged[f][p] # None /\ staged[f][p].loaded # None =>
            Accounted(staged[f][p].loaded) <= marked[p]

GoneInv == /\ GoneOnlyAfterCheck
           /\ NoPhantomEpisode
           /\ ChecksRemembered
           /\ MarksJustified
           /\ StagedAccounted

\* The statements of a fetch about one posting of its response.
Job(f, p) ==
    FindNone(f, p) \/ StageUpdate(f, p) \/ SkipDuplicate(f, p) \/ StageInsert(f, p)

\* A step of a fetch or of the boards that leaves the rows and the checks alone.
LEMMA GoneFrame ==
  ASSUME GoneInv, UNCHANGED <<row, checks, everOk, marked, marks, rday>>,
         \A f \in Fetchers, p \in Postings :
            staged'[f][p] # None /\ staged'[f][p].loaded # None =>
                \/ staged[f][p] # None /\ staged[f][p].loaded = staged'[f][p].loaded
                \/ row[p] # None /\ staged'[f][p].loaded = row[p]
  PROVE  GoneInv'
  <1>1. StagedAccounted'
    <2> SUFFICES ASSUME NEW f \in Fetchers, NEW p \in Postings,
                        staged'[f][p] # None, staged'[f][p].loaded # None
                 PROVE  Accounted(staged'[f][p].loaded) <= marked[p]
      BY DEF StagedAccounted, Accounted
    <2>1. CASE staged[f][p] # None /\ staged[f][p].loaded = staged'[f][p].loaded
      BY <2>1 DEF GoneInv, StagedAccounted
    <2>2. CASE row[p] # None /\ staged'[f][p].loaded = row[p]
      BY <2>2 DEF GoneInv, NoPhantomEpisode, Accounted
    <2>3. QED BY <2>1, <2>2
  <1>2. (GoneOnlyAfterCheck /\ NoPhantomEpisode /\ ChecksRemembered /\ MarksJustified)'
    BY DEF GoneInv, GoneOnlyAfterCheck, NoPhantomEpisode, ChecksRemembered, MarksJustified
  <1>3. QED BY <1>1, <1>2 DEF GoneInv

LEMMA GoneRecord ==
  ASSUME TypeInv, GoneInv, NEW f \in Fetchers, pc[f] # "idle", NEW status \in CheckStatus,
         RecordCheck(f, status)
  PROVE  GoneInv'
  <1>1. /\ UNCHANGED <<row, marked, marks, rday>>
        /\ everOk \subseteq everOk'
        /\ status \in Checked => <<board[f], day>> \in everOk'
        /\ checks' = [checks EXCEPT ![board[f]][day] = status]
    BY DEF RecordCheck, rollupVars
  <1>2. ChecksRemembered'
    BY <1>1 DEF GoneInv, ChecksRemembered, TypeInv, TypeOK
  <1>3. StagedAccounted'
    BY <1>1, LeaveType DEF RecordCheck, GoneInv, StagedAccounted, Accounted
  <1>4. (GoneOnlyAfterCheck /\ NoPhantomEpisode /\ MarksJustified)'
    BY <1>1 DEF GoneInv, GoneOnlyAfterCheck, NoPhantomEpisode, MarksJustified
  <1>5. QED BY <1>2, <1>3, <1>4 DEF GoneInv

\* What a commit writes into a row: the loaded mark, cleared and counted, or the
\* mark and the count that are there.
LEMMA GoneCommitRow ==
  ASSUME TypeInv, GoneInv, NEW f \in Fetchers, Commit(f), NEW p \in Postings, row'[p] # None
  PROVE  /\ Accounted(row'[p]) <= marked[p]
         /\ row'[p].gone # NoDay => row[p] # None /\ row'[p].gone = row[p].gone
  <1> DEFINE s == staged[f][p]
  <1>1. CASE p \notin StagedBy(f)
    BY <1>1 DEF Commit, GoneInv, NoPhantomEpisode, Accounted
  <1>2. CASE p \in StagedBy(f)
    <2>1. s \in Staged /\ s # None
      BY <1>2 DEF StagedBy, TypeInv, TypeOK
    <2>2. row'[p] = RowAfter(s, row[p])
      BY <1>2 DEF Commit
    <2>3. marked[p] \in Nat
      BY DEF TypeInv, TypeOK
    <2>4. CASE s.loaded = None
      BY <2>2, <2>3, <2>4 DEF RowAfter, NewRow, Accounted
    <2>5. CASE s.loaded # None
      <3>1. row[p] \in Row /\ row[p] # None /\ s.loaded \in Row
        BY <2>1, <2>5 DEF TypeInv, TypeOK, RowsStay, Staged
      <3>2. row'[p] = UpdatedRow(s, row[p])
        BY <2>2, <2>5 DEF RowAfter
      <3>3. Accounted(s.loaded) <= marked[p] /\ Accounted(row[p]) <= marked[p]
        BY <2>1, <2>5, <3>1 DEF GoneInv, StagedAccounted, NoPhantomEpisode, Accounted
      <3>4. CASE s.loaded.gone = NoDay
        BY <3>1, <3>2, <3>3, <3>4 DEF UpdatedRow, Accounted
      <3>5. CASE s.loaded.gone # NoDay
        <4>1. row'[p].gone = NoDay /\ row'[p].episodes = s.loaded.episodes + 1
          BY <3>2, <3>5 DEF UpdatedRow
        <4>2. s.loaded.episodes \in Nat
          BY <3>1 DEF Row
        <4>3. s.loaded.episodes + 1 <= marked[p]
          BY <3>3, <3>5 DEF Accounted
        <4>4. QED BY <4>1, <4>2, <4>3 DEF Accounted
      <3>6. QED BY <3>4, <3>5
    <2>6. QED BY <2>4, <2>5
  <1>3. QED BY <1>1, <1>2

LEMMA GoneCommit ==
  ASSUME TypeInv, GoneInv, NEW f \in Fetchers, Commit(f)
  PROVE  GoneInv'
  <1>1. UNCHANGED <<checks, everOk, marked, marks, rday>>
    BY DEF Commit, rollupVars, histVars
  <1>2. (GoneOnlyAfterCheck /\ NoPhantomEpisode)'
    BY <1>1, GoneCommitRow DEF GoneInv, GoneOnlyAfterCheck, NoPhantomEpisode, Accounted
  <1>3. \A g \in Fetchers, p \in Postings :
          staged'[g][p] # None => staged'[g][p] = staged[g][p]
    <2>1. CASE IsAuthoritative(board[f])
      <3>1. staged' = [staged EXCEPT ![f] = Nothing]
        BY <2>1 DEF Commit
      <3>2. QED BY <3>1 DEF Nothing, TypeInv, TypeOK
    <2>2. CASE ~IsAuthoritative(board[f])
      BY <2>2, LeaveType DEF Commit
    <2>3. QED BY <2>1, <2>2
  <1>4. (ChecksRemembered /\ MarksJustified /\ StagedAccounted)'
    BY <1>1, <1>3 DEF GoneInv, ChecksRemembered, MarksJustified, StagedAccounted, Accounted
  <1>5. QED BY <1>2, <1>4 DEF GoneInv

LEMMA GoneRollup ==
  ASSUME TypeInv, RollupLocal, GoneInv, Rollup
  PROVE  GoneInv'
  <1>1. UNCHANGED <<checks, everOk, staged>>
    BY DEF Rollup, RollupStart, RollupSelect, RollupCheck, RollupMark, RollupSummarise,
           RollupAbort,
           tableVars, fetchVars, histVars
  <1>2. ASSUME UNCHANGED <<row, marked>>, MarksJustified' PROVE GoneInv'
    BY <1>1, <1>2 DEF GoneInv, GoneOnlyAfterCheck, NoPhantomEpisode, ChecksRemembered,
                      StagedAccounted, Accounted
  <1>3. CASE RollupStart \/ RollupSelect \/ RollupSummarise \/ RollupAbort
    <2>1. UNCHANGED <<row, marked>>
      BY <1>3 DEF RollupStart, RollupSelect, RollupSummarise, RollupAbort, tableVars, histVars
    <2>2. marks' = {} \/ UNCHANGED <<marks, rday>>
      BY <1>3 DEF RollupStart, RollupSelect, RollupSummarise, RollupAbort, RollupLocal
    <2>3. MarksJustified'
      BY <1>1, <2>2 DEF GoneInv, MarksJustified
    <2>4. QED BY <1>2, <2>1, <2>3
  <1>4. ASSUME NEW p \in Postings, RollupCheck(p) PROVE GoneInv'
    <2>1. UNCHANGED <<row, marked, rday>>
      BY <1>4 DEF RollupCheck, tableVars, histVars
    <2>2. \/ marks' = marks
          \/ marks' = marks \cup {p} /\ checks[BoardOf[p]][rday] \in Checked
      BY <1>4 DEF RollupCheck, IsChecked
    <2>3. BoardOf[p] \in Boards /\ rday \in Days
      BY DirectoryAssumption DEF TypeInv, TypeOK
    <2>4. MarksJustified'
      BY <1>1, <2>1, <2>2, <2>3 DEF GoneInv, MarksJustified, ChecksRemembered
    <2>5. QED BY <1>2, <2>1, <2>4
  <1>5. CASE RollupMark
    <2>1. /\ row' = [p \in Postings |->
                IF p \in marks THEN [row[p] EXCEPT !.gone = mday] ELSE row[p]]
          /\ marked' = [p \in Postings |->
                IF p \in marks THEN marked[p] + 1 ELSE marked[p]]
          /\ UNCHANGED <<rday, marks>>
      BY <1>5 DEF RollupMark
    <2>2. ASSUME NEW p \in Postings, p \in marks
          PROVE  /\ row[p] # None
                 /\ row'[p].gone = mday
                 /\ row'[p].episodes = row[p].episodes
                 /\ row[p].episodes \in Nat
                 /\ marked'[p] = marked[p] + 1
      BY <2>1, <2>2 DEF TypeInv, TypeOK, RowsStay, Row
    <2>3. ASSUME NEW p \in Postings, p \notin marks
          PROVE  row'[p] = row[p] /\ marked'[p] = marked[p]
      BY <2>1, <2>3
    <2>4. GoneOnlyAfterCheck'
      <3> SUFFICES ASSUME NEW p \in Postings, row'[p] # None, row'[p].gone # NoDay
                   PROVE  \E d \in {row'[p].gone, row'[p].gone - 1} : <<BoardOf[p], d>> \in everOk
        BY <1>1 DEF GoneOnlyAfterCheck
      <3>1. CASE p \in marks
        <4>1. mday = rday \/ mday = rday + 1
          BY <1>5 DEF RollupMark, RollupLocal
        <4>2. rday \in {mday, mday - 1}
          BY <4>1 DEF TypeInv, TypeOK, Days
        <4>3. row'[p].gone = mday /\ <<BoardOf[p], rday>> \in everOk
          BY <2>2, <3>1 DEF GoneInv, MarksJustified
        <4>4. QED BY <4>2, <4>3
      <3>2. CASE p \notin marks
        BY <2>3, <3>2 DEF GoneInv, GoneOnlyAfterCheck
      <3>3. QED BY <3>1, <3>2
    <2>5. NoPhantomEpisode'
      <3> SUFFICES ASSUME NEW p \in Postings, row'[p] # None
                   PROVE  Accounted(row'[p]) <= marked'[p]
        BY DEF NoPhantomEpisode, Accounted
      <3>1. CASE p \in marks
        <4>1. row[p].episodes <= marked[p] /\ marked[p] \in Nat
          <5>1. row[p].episodes + (IF row[p].gone = NoDay THEN 0 ELSE 1) <= marked[p]
            BY <2>2, <3>1 DEF GoneInv, NoPhantomEpisode
          <5>2. QED BY <2>2, <3>1, <5>1 DEF TypeInv, TypeOK
        <4>2. Accounted(row'[p]) <= row[p].episodes + 1
          BY <2>2, <3>1 DEF Accounted
        <4>3. Accounted(row'[p]) \in Nat
          BY <2>2, <3>1 DEF Accounted
        <4>4. QED BY <2>2, <3>1, <4>1, <4>2, <4>3
      <3>2. CASE p \notin marks
        BY <2>3, <3>2 DEF GoneInv, NoPhantomEpisode, Accounted
      <3>3. QED BY <3>1, <3>2
    <2>6. StagedAccounted'
      <3> SUFFICES ASSUME NEW f \in Fetchers, NEW p \in Postings,
                          staged[f][p] # None, staged[f][p].loaded # None
                   PROVE  Accounted(staged[f][p].loaded) <= marked'[p]
        BY <1>1 DEF StagedAccounted, Accounted
      <3>1. staged[f][p].loaded \in Row
        BY DEF TypeInv, TypeOK, Staged
      <3>2. Accounted(staged[f][p].loaded) \in Nat
        BY <3>1 DEF Accounted, Row
      <3>3. Accounted(staged[f][p].loaded) <= marked[p] /\ marked[p] \in Nat
        BY DEF GoneInv, StagedAccounted, TypeInv, TypeOK
      <3>4. marked'[p] = marked[p] \/ marked'[p] = marked[p] + 1
        BY <2>2, <2>3
      <3>5. QED BY <3>2, <3>3, <3>4
    <2>7. ChecksRemembered' /\ MarksJustified'
      BY <1>1, <2>1 DEF GoneInv, ChecksRemembered, MarksJustified
    <2>8. QED BY <2>4, <2>5, <2>6, <2>7 DEF GoneInv
  <1>6. QED BY <1>3, <1>4, <1>5 DEF Rollup

LEMMA GoneStep ==
  ASSUME TypeInv, VersionChain, RollupLocal, GoneInv, [Next]_vars
  PROVE  GoneInv'
  <1>1. CASE Midnight \/ UNCHANGED vars
    <2>1. UNCHANGED <<row, checks, everOk, marked, marks, rday, staged>>
      BY <1>1 DEF Midnight, vars, tableVars, fetchVars,
                  rollupVars, histVars
    <2>2. QED BY <2>1, GoneFrame
  <1>2. ASSUME NEW f \in Fetchers, NEW b \in Boards, HttpOk(f, b) \/ HttpFail(f, b)
        PROVE  GoneInv'
    <2>1. UNCHANGED <<row, checks, everOk, marked, marks, rday, staged>>
      BY <1>2 DEF HttpOk, HttpFail, tableVars, rollupVars, histVars
    <2>2. QED BY <2>1, GoneFrame
  <1>3. ASSUME NEW f \in Fetchers, NEW p \in Postings, Job(f, p) PROVE GoneInv'
    <2>1. UNCHANGED <<row, checks, everOk, marked, marks, rday>>
      BY <1>3 DEF Job, FindNone, SkipDuplicate, StageInsert, StageUpdate, Insertable, NextJob,
                  tableVars, rollupVars, histVars
    <2>2. \/ staged' = staged
          \/ \E s : /\ staged' = [staged EXCEPT ![f][p] = s]
                    /\ s.loaded # None => row[p] # None /\ s.loaded = row[p]
      <3>1. CASE FindNone(f, p) \/ SkipDuplicate(f, p)
        BY <3>1 DEF FindNone, SkipDuplicate
      <3>2. CASE StageInsert(f, p)
        <4> DEFINE s == [loaded |-> None, content |-> resp[f][p], day |-> day, seq |-> 1]
        <4>1. staged' = [staged EXCEPT ![f][p] = s]
          BY <3>2 DEF StageInsert
        <4>2. s.loaded = None
          OBVIOUS
        <4> HIDE DEF s
        <4>3. QED BY <4>1, <4>2
      <3>3. CASE StageUpdate(f, p)
        <4> DEFINE s == [loaded |-> row[p], content |-> resp[f][p], day |-> day, seq |-> 0]
        <4>1. staged' = [staged EXCEPT ![f][p] = s] /\ row[p] # None
          BY <3>3 DEF StageUpdate
        <4>2. s.loaded = row[p]
          OBVIOUS
        <4> HIDE DEF s
        <4>3. QED BY <4>1, <4>2
      <3>4. QED BY <1>3, <3>1, <3>2, <3>3 DEF Job
    <2>3. \A g \in Fetchers, q \in Postings :
            staged'[g][q] # None /\ staged'[g][q].loaded # None =>
                \/ staged[g][q] # None /\ staged[g][q].loaded = staged'[g][q].loaded
                \/ row[q] # None /\ staged'[g][q].loaded = row[q]
      <3>1. CASE staged' = staged
        BY <3>1
      <3>2. ASSUME NEW s, staged' = [staged EXCEPT ![f][p] = s],
                   s.loaded # None => row[p] # None /\ s.loaded = row[p]
            PROVE  \A g \in Fetchers, q \in Postings :
                    \/ staged'[g][q] = staged[g][q]
                    \/ q = p /\ staged'[g][q] = s
        BY <3>2 DEF TypeInv, TypeOK
      <3>3. QED BY <2>2, <3>1, <3>2
    <2>4. QED BY <2>1, <2>3, GoneFrame
  <1>4. ASSUME NEW f \in Fetchers, NEW p \in Postings, ReadVersionSeq(f, p) PROVE GoneInv'
    <2>1. UNCHANGED <<row, checks, everOk, marked, marks, rday>>
      BY <1>4 DEF ReadVersionSeq, tableVars, rollupVars, histVars
    <2>2. /\ staged[f][p] \in Staged
          /\ staged' = [staged EXCEPT ![f][p] = [@ EXCEPT !.seq = LastSeq(p) + 1]]
      BY <1>4 DEF ReadVersionSeq, NeedsSeq, TypeInv, TypeOK
    <2>3. \A g \in Fetchers, q \in Postings :
            staged'[g][q] # None =>
                staged[g][q] # None /\ staged[g][q].loaded = staged'[g][q].loaded
      BY <2>2, NoneAssumption DEF TypeInv, TypeOK, Staged
    <2>4. QED BY <2>1, <2>3, GoneFrame
  <1>5. ASSUME NEW f \in Fetchers, Commit(f) PROVE GoneInv'
    BY <1>5, GoneCommit
  <1>6. ASSUME NEW f \in Fetchers, RecordSuccess(f) \/ RecordFailure(f) PROVE GoneInv'
    BY <1>6, GoneRecord DEF RecordSuccess, RecordFailure, CheckStatus, Checked
  <1>7. ASSUME NEW f \in Fetchers, Abort(f) PROVE GoneInv'
    <2>1. UNCHANGED <<row, checks, everOk, marked, marks, rday>>
      BY <1>7 DEF Abort, tableVars, rollupVars, histVars
    <2>2. QED BY <1>7, <2>1, LeaveType, GoneFrame DEF Abort
  <1>8. CASE Rollup
    BY <1>8, GoneRollup
  <1>9. QED BY <1>1, <1>2, <1>3, <1>4, <1>5, <1>6, <1>7, <1>8 DEF Next, Fetch, Job

LEMMA GoneInit == Init => GoneInv
  BY DEF Init, GoneInv, GoneOnlyAfterCheck, NoPhantomEpisode, ChecksRemembered, MarksJustified,
         StagedAccounted, Nothing, Checked

\* No interleaving marks a posting disappeared on a day when neither that day nor the
\* day before had a successful check of its board.
THEOREM GoneAfterCheck == Spec => []GoneOnlyAfterCheck
  <1>1. (ChainInv /\ RollupLocal /\ GoneInv) /\ [Next]_vars
            => (ChainInv /\ RollupLocal /\ GoneInv)'
    BY ChainStep, RollupLocalStep, GoneStep DEF ChainInv
  <1>2. GoneInv => GoneOnlyAfterCheck
    BY DEF GoneInv
  <1>3. QED BY <1>1, <1>2, ChainInit, RollupLocalInit, GoneInit, PTL DEF Spec

\* No interleaving of sightings and rollups counts an absence that was not marked.
THEOREM EpisodesCounted == Spec => []NoPhantomEpisode
  <1>1. (ChainInv /\ RollupLocal /\ GoneInv) /\ [Next]_vars
            => (ChainInv /\ RollupLocal /\ GoneInv)'
    BY ChainStep, RollupLocalStep, GoneStep DEF ChainInv
  <1>2. GoneInv => NoPhantomEpisode
    BY DEF GoneInv
  <1>3. QED BY <1>1, <1>2, ChainInit, RollupLocalInit, GoneInit, PTL DEF Spec

-----------------------------------------------------------------------------
(* What the steps of one fetch leave to the others, and in the tables. *)

LEMMA LeaveLocals ==
  ASSUME TypeInv, NEW f \in Fetchers, Leave(f)
  PROVE  /\ pc'[f] = "idle" /\ board'[f] = None /\ resp'[f] = Nothing
         /\ todo'[f] = {} /\ staged'[f] = Nothing /\ missed'[f] = {}
         /\ \A g \in Fetchers \ {f} :
                /\ pc'[g] = pc[g] /\ board'[g] = board[g] /\ resp'[g] = resp[g]
                /\ todo'[g] = todo[g] /\ staged'[g] = staged[g] /\ missed'[g] = missed[g]
  BY DEF TypeInv, TypeOK, Leave

LEMMA RequestLocals ==
  ASSUME TypeInv, NEW f \in Fetchers, NEW b \in Boards, HttpOk(f, b) \/ HttpFail(f, b)
  PROVE  /\ pc[f] = "idle" /\ pc'[f] \in {"ingest", "failed"} /\ board'[f] = b
         /\ pc'[f] = "failed" => resp' = resp /\ todo' = todo
         /\ pc'[f] = "ingest" => /\ resp'[f] \in Responses(b)
                                 /\ todo'[f] = {p \in Postings : resp'[f][p] # None}
         /\ \A g \in Fetchers \ {f} :
                /\ pc'[g] = pc[g] /\ board'[g] = board[g] /\ resp'[g] = resp[g]
                /\ todo'[g] = todo[g]
         /\ UNCHANGED <<day, row, snapshots, versions, checks, staged, missed, rpc, rday, mday, cands, marks,
                        everOk, listed>>
  <1>1. CASE HttpOk(f, b)
    <2>1. PICK r \in Responses(b) :
            /\ resp' = [resp EXCEPT ![f] = r]
            /\ todo' = [todo EXCEPT ![f] = {p \in Postings : r[p] # None}]
      BY <1>1 DEF HttpOk
    <2>2. /\ resp'[f] = r /\ todo'[f] = {p \in Postings : r[p] # None}
          /\ \A g \in Fetchers \ {f} : resp'[g] = resp[g] /\ todo'[g] = todo[g]
      BY <2>1 DEF TypeInv, TypeOK
    <2>3. /\ pc[f] = "idle" /\ pc' = [pc EXCEPT ![f] = "ingest"]
          /\ board' = [board EXCEPT ![f] = b]
          /\ UNCHANGED <<day, row, snapshots, versions, checks, staged, missed, rpc, rday, mday, cands, marks,
                         everOk, listed>>
      BY <1>1 DEF HttpOk, MayFetch, tableVars, rollupVars, histVars
    <2>4. QED BY <2>2, <2>3 DEF TypeInv, TypeOK
  <1>2. CASE HttpFail(f, b)
    BY <1>2 DEF HttpFail, MayFetch, tableVars, rollupVars, histVars, TypeInv, TypeOK
  <1>3. QED BY <1>1, <1>2

\* A lookup takes the posting off the list; a search for a twin follows one in vain.
LEMMA JobLocals ==
  ASSUME TypeInv, NEW f \in Fetchers, NEW p \in Postings, Job(f, p)
  PROVE  /\ resp[f][p] # None
         /\ \/ FindNone(f, p) /\ p \in missed'[f] /\ row[p] = None
            \/ StageUpdate(f, p)
            \/ (SkipDuplicate(f, p) \/ StageInsert(f, p)) /\ p \in missed[f]
         /\ pc[f] = "ingest" \/ p \in missed[f]
         /\ \A q \in Postings : q \in todo[f] \cup missed[f] => q \in todo'[f] \cup missed'[f] \/ q = p
         /\ \A g \in Fetchers \ {f} : todo'[g] = todo[g] /\ missed'[g] = missed[g]
         /\ UNCHANGED <<pc, board, resp, day, row, snapshots, versions, checks, rpc, rday, mday,
                        cands, marks, everOk, listed>>
  <1> USE DEF TypeInv, TypeOK
  <1>1. CASE FindNone(f, p)
    <2>1. /\ pc[f] = "ingest" /\ p \in todo[f] /\ row[p] = None /\ missed[f] = {}
          /\ todo' = [todo EXCEPT ![f] = @ \ {p}] /\ missed' = [missed EXCEPT ![f] = {p}]
          /\ UNCHANGED <<pc, board, resp, day, row, snapshots, versions, checks, rpc, rday, mday,
                         cands, marks, everOk, listed>>
      BY <1>1 DEF FindNone, NextJob, worldVars, tableVars, rollupVars, histVars
    <2>2. QED BY <1>1, <2>1
  <1>2. CASE StageUpdate(f, p)
    <2>1. /\ pc[f] = "ingest" /\ p \in todo[f] /\ missed' = missed
          /\ todo' = [todo EXCEPT ![f] = @ \ {p}]
          /\ UNCHANGED <<pc, board, resp, day, row, snapshots, versions, checks, rpc, rday, mday,
                         cands, marks, everOk, listed>>
      BY <1>2 DEF StageUpdate, NextJob, worldVars, tableVars, rollupVars, histVars
    <2>2. QED BY <1>2, <2>1
  <1>3. CASE SkipDuplicate(f, p) \/ StageInsert(f, p)
    <2>1. /\ p \in missed[f] /\ missed' = [missed EXCEPT ![f] = @ \ {p}]
          /\ UNCHANGED <<pc, board, resp, todo, day, row, snapshots, versions, checks, rpc, rday,
                         mday, cands, marks, everOk, listed>>
      BY <1>3 DEF SkipDuplicate, StageInsert, Insertable, worldVars, tableVars, rollupVars, histVars
    <2>2. QED BY <1>3, <2>1
  <1>4. QED BY <1>1, <1>2, <1>3 DEF Job

\* One posting of one response becomes staged.
LEMMA InsertLocals ==
  ASSUME TypeInv, NEW f \in Fetchers, NEW p \in Postings, StageInsert(f, p)
  PROVE  /\ staged'[f][p] # None
         /\ staged'[f][p].loaded = None
         /\ staged'[f][p].content = resp[f][p]
         /\ staged'[f][p].day = day
         /\ \A g \in Fetchers, q \in Postings :
                g # f \/ q # p => staged'[g][q] = staged[g][q]
  <1> DEFINE s == [loaded |-> None, content |-> resp[f][p], day |-> day, seq |-> 1]
  <1>1. staged' = [staged EXCEPT ![f][p] = s]
    BY DEF StageInsert
  <1>2. resp[f][p] \in Contents
    BY JobType DEF StageInsert
  <1>3. s \in Staged
    BY <1>2 DEF Staged, TypeInv, TypeOK
  <1>4. s.loaded = None /\ s.content = resp[f][p] /\ s.day = day /\ s # None
    BY <1>3, NoneAssumption
  <1> HIDE DEF s
  <1>5. /\ staged'[f][p] = s
        /\ \A g \in Fetchers, q \in Postings :
                g # f \/ q # p => staged'[g][q] = staged[g][q]
    BY <1>1 DEF TypeInv, TypeOK
  <1>6. QED BY <1>4, <1>5

LEMMA UpdateLocals ==
  ASSUME TypeInv, NEW f \in Fetchers, NEW p \in Postings, StageUpdate(f, p)
  PROVE  /\ row[p] # None
         /\ staged'[f][p] # None
         /\ staged'[f][p].loaded = row[p]
         /\ staged'[f][p].content = resp[f][p]
         /\ staged'[f][p].day = day
         /\ staged'[f][p].seq = 0
         /\ \A g \in Fetchers, q \in Postings :
                g # f \/ q # p => staged'[g][q] = staged[g][q]
  <1> DEFINE s == [loaded |-> row[p], content |-> resp[f][p], day |-> day, seq |-> 0]
  <1>1. row[p] # None /\ staged' = [staged EXCEPT ![f][p] = s]
    BY DEF StageUpdate
  <1>2. resp[f][p] \in Contents
    BY JobType DEF StageUpdate
  <1>3. s \in Staged
    BY <1>1, <1>2 DEF Staged, TypeInv, TypeOK
  <1>4. /\ s.loaded = row[p] /\ s.content = resp[f][p] /\ s.day = day /\ s.seq = 0
        /\ s # None
    BY <1>3, NoneAssumption
  <1> HIDE DEF s
  <1>5. /\ staged'[f][p] = s
        /\ \A g \in Fetchers, q \in Postings :
                g # f \/ q # p => staged'[g][q] = staged[g][q]
    BY <1>1 DEF TypeInv, TypeOK
  <1>6. QED BY <1>1, <1>4, <1>5

\* A twin is another posting, with a row or staged in the same session, or it is the
\* posting itself, which another session has inserted since the lookup.
LEMMA SkipLocals ==
  ASSUME TypeInv, NEW f \in Fetchers, NEW p \in Postings, SkipDuplicate(f, p)
  PROVE  /\ staged' = staged
         /\ \/ row[p] # None \/ staged[f][p] # None
            \/ \E q \in Postings : MayBeTwins(p, q) /\ (row[q] # None \/ staged[f][q] # None)
  <1>1. staged' = staged /\ Insertable(f, p)
    BY DEF SkipDuplicate
  <1>2. resp[f][p] \in Contents
    BY <1>1, JobType
  <1>3. PICK view \in Views(f) : FuzzyTwins(view, p, resp[f][p]) # {}
    BY DEF SkipDuplicate
  <1>4. PICK q \in Postings :
            view[q] # None /\ FuzzyKey[q][view[q]] = FuzzyKey[p][resp[f][p]]
    BY <1>3 DEF FuzzyTwins
  <1>5. Contained(f, q) # {} /\ view[q] \in Contents
    BY <1>4 DEF Views
  <1>6. row[q] # None \/ staged[f][q] # None
    BY <1>5 DEF Contained
  <1>7. q # p => MayBeTwins(p, q)
    BY <1>2, <1>4, <1>5 DEF MayBeTwins
  <1>8. QED BY <1>1, <1>6, <1>7

\* A version number is looked up, for a row that was loaded.
LEMMA SeqLocals ==
  ASSUME TypeInv, VersionChain, NEW f \in Fetchers, NEW p \in Postings, ReadVersionSeq(f, p)
  PROVE  /\ pc[f] = "ingest" /\ NeedsSeq(f, p)
         /\ staged'[f][p] # None
         /\ staged'[f][p].loaded = staged[f][p].loaded
         /\ staged'[f][p].content = staged[f][p].content
         /\ staged'[f][p].day = staged[f][p].day
         /\ \A g \in Fetchers, q \in Postings :
                g # f \/ q # p => staged'[g][q] = staged[g][q]
         /\ UNCHANGED <<pc, board, resp, todo, missed, day, row, snapshots, versions, checks, rpc,
                        rday, mday, cands, marks, everOk, listed>>
  <1>1. /\ pc[f] = "ingest" /\ NeedsSeq(f, p)
        /\ UNCHANGED <<pc, board, resp, todo, missed, day, row, snapshots, versions, checks, rpc, rday, mday,
                       cands, marks, everOk, listed>>
    BY DEF ReadVersionSeq, worldVars, tableVars, rollupVars, histVars
  <1>2. staged[f][p] \in Staged
    BY <1>1 DEF NeedsSeq, TypeInv, TypeOK
  <1> DEFINE s == [staged[f][p] EXCEPT !.seq = LastSeq(p) + 1]
  <1>3. /\ s.loaded = staged[f][p].loaded /\ s.content = staged[f][p].content
        /\ s.day = staged[f][p].day
    BY <1>2 DEF Staged
  <1>4. staged' = [staged EXCEPT ![f][p] = s]
    BY DEF ReadVersionSeq, TypeInv, TypeOK
  <1>5. staged'[f][p] = s
    BY <1>4 DEF TypeInv, TypeOK
  <1>6. s # None
    <2>1. LastSeq(p) \in Nat
      BY LastSeqType DEF TypeInv
    <2>2. s \in Staged
      BY <1>2, <2>1 DEF Staged
    <2>3. QED BY <2>2, NoneAssumption
  <1>7. QED BY <1>1, <1>3, <1>4, <1>5, <1>6 DEF TypeInv, TypeOK

\* The commit: what its task keeps, and what it wrote.
LEMMA CommitLocals ==
  ASSUME TypeInv, NEW f \in Fetchers, Commit(f)
  PROVE  /\ pc[f] = "ingest" /\ todo[f] = {} /\ missed[f] = {}
         /\ staged'[f] = Nothing /\ todo'[f] = {} /\ missed'[f] = {}
         /\ \/ pc'[f] = "record" /\ resp'[f] = resp[f] /\ board'[f] = board[f]
            \/ pc'[f] = "idle" /\ resp'[f] = Nothing /\ board'[f] = None
         /\ \A g \in Fetchers \ {f} :
                /\ pc'[g] = pc[g] /\ board'[g] = board[g] /\ resp'[g] = resp[g]
                /\ todo'[g] = todo[g] /\ staged'[g] = staged[g] /\ missed'[g] = missed[g]
         /\ UNCHANGED <<day, checks, rpc, rday, mday, cands, marks, everOk, listed>>
  <1>1. /\ pc[f] = "ingest" /\ todo[f] = {} /\ missed[f] = {}
        /\ UNCHANGED <<day, checks, rpc, rday, mday, cands, marks, everOk, listed>>
    BY DEF Commit, worldVars, rollupVars, histVars
  <1>2. CASE IsAuthoritative(board[f])
    <2>1. /\ pc' = [pc EXCEPT ![f] = "record"]
          /\ staged' = [staged EXCEPT ![f] = Nothing]
          /\ UNCHANGED <<board, resp, todo, missed>>
      BY <1>2 DEF Commit
    <2>2. QED BY <1>1, <2>1 DEF TypeInv, TypeOK
  <1>3. CASE ~IsAuthoritative(board[f])
    <2>1. Leave(f)
      BY <1>3 DEF Commit
    <2>2. QED BY <1>1, <2>1, LeaveLocals
  <1>4. QED BY <1>2, <1>3

LEMMA CommitRows ==
  ASSUME TypeInv, NEW f \in Fetchers, Commit(f), NEW p \in Postings
  PROVE  /\ staged[f][p] = None =>
                /\ row'[p] = row[p]
                /\ \A d : <<p, d>> \in snapshots' <=> <<p, d>> \in snapshots
         /\ staged[f][p] # None =>
                /\ row'[p] = RowAfter(staged[f][p], row[p])
                /\ row'[p] \in Row
                /\ row'[p] # None
                /\ \A d : <<p, d>> \in snapshots' <=>
                            <<p, d>> \in snapshots \/ d = staged[f][p].day
  <1>1. \A d : <<p, d>> \in SnapshotRows(f) <=> staged[f][p] # None /\ d = staged[f][p].day
    BY DEF SnapshotRows, StagedBy
  <1>2. snapshots' = snapshots \cup SnapshotRows(f)
    BY DEF Commit
  <1>3. CASE staged[f][p] = None
    BY <1>1, <1>2, <1>3 DEF Commit, StagedBy
  <1>4. CASE staged[f][p] # None
    <2>1. row'[p] = RowAfter(staged[f][p], row[p])
      BY <1>4 DEF Commit, StagedBy
    <2>2. staged[f][p] \in Staged /\ row[p] \in Row \cup {None}
      BY <1>4 DEF TypeInv, TypeOK
    <2>3. staged[f][p].loaded # None => row[p] # None
      BY <1>4 DEF TypeInv, RowsStay
    <2>4. RowAfter(staged[f][p], row[p]) \in Row
      BY <2>2, <2>3, RowAfterType
    <2>5. QED BY <1>1, <1>2, <1>4, <2>1, <2>4, NoneAssumption
  <1>5. QED BY <1>3, <1>4

\* A check is recorded, or a task gives up: the rows stay as they are.
LEMMA RecordLocals ==
  ASSUME TypeInv, NEW f \in Fetchers, NEW status, RecordCheck(f, status)
  PROVE  /\ Leave(f)
         /\ listed' = listed \cup {<<p, day>> : p \in {q \in Postings : resp[f][q] # None}}
         /\ UNCHANGED <<day, row, snapshots, versions, rpc, rday, mday, cands, marks>>
  BY DEF RecordCheck, worldVars, rollupVars

LEMMA AbortLocals ==
  ASSUME NEW f \in Fetchers, Abort(f)
  PROVE  /\ Leave(f)
         /\ UNCHANGED <<day, row, snapshots, versions, checks, rpc, rday, mday, cands, marks,
                        everOk, listed>>
  BY DEF Abort, worldVars, tableVars, rollupVars, histVars

\* The rollup touches nothing but the marks of the rows.
LEMMA RollupLocals ==
  ASSUME TypeInv, Rollup
  PROVE  /\ UNCHANGED <<day, snapshots, versions, checks, pc, board, resp, todo, staged, missed,
                        everOk, listed>>
         /\ \A p \in Postings :
                \/ row'[p] = row[p]
                \/ /\ RollupMark /\ p \in marks
                   /\ row[p] # None /\ row'[p] # None
                   /\ row'[p].gone = mday
                   /\ row'[p].content = row[p].content
                   /\ row'[p].hash = row[p].hash
  <1>1. /\ UNCHANGED <<day, snapshots, versions, checks, pc, board, resp, todo, staged, missed,
                       everOk, listed>>
        /\ RollupMark \/ row' = row
    BY DEF Rollup, RollupStart, RollupSelect, RollupCheck, RollupMark, RollupSummarise,
           RollupAbort,
           worldVars, tableVars, fetchVars, histVars
  <1>2. ASSUME RollupMark, NEW p \in Postings, p \in marks
        PROVE  /\ row[p] # None /\ row'[p] # None
               /\ row'[p].gone = mday
               /\ row'[p].content = row[p].content
               /\ row'[p].hash = row[p].hash
    <2>1. row[p] \in Row /\ row[p] # None /\ mday \in Days
      BY <1>2 DEF TypeInv, TypeOK, RowsStay
    <2>2. row'[p] = [row[p] EXCEPT !.gone = mday]
      BY <1>2 DEF RollupMark
    <2>3. row'[p] \in Row
      BY <2>1, <2>2 DEF Row
    <2>4. QED BY <2>1, <2>2, <2>3, NoneAssumption DEF Row
  <1>3. ASSUME RollupMark, NEW p \in Postings, p \notin marks PROVE row'[p] = row[p]
    BY <1>3 DEF RollupMark
  <1>4. QED BY <1>1, <1>2, <1>3

\* Rows and snapshots are never deleted.
LEMMA NothingIsDeleted ==
  ASSUME ChainInv, [Next]_vars
  PROVE  /\ \A p \in Postings : row[p] # None => row'[p] # None
         /\ snapshots \subseteq snapshots'
  <1> USE DEF ChainInv
  <1>1. CASE Midnight \/ UNCHANGED vars
    BY <1>1 DEF Midnight, vars, tableVars
  <1>2. ASSUME NEW f \in Fetchers, Fetch(f), ~Commit(f) PROVE UNCHANGED <<row, snapshots>>
    BY <1>2 DEF Fetch, HttpOk, HttpFail, FindNone, SkipDuplicate, StageInsert, StageUpdate,
                Insertable, NextJob, ReadVersionSeq, RecordSuccess, RecordFailure, RecordCheck, Abort, tableVars
  <1>3. ASSUME NEW f \in Fetchers, Commit(f)
        PROVE  /\ \A p \in Postings : row[p] # None => row'[p] # None
               /\ snapshots \subseteq snapshots'
    BY <1>3, CommitRows DEF Commit
  <1>4. CASE Rollup
    BY <1>4, RollupLocals
  <1>5. QED BY <1>1, <1>2, <1>3, <1>4 DEF Next

-----------------------------------------------------------------------------
(***************************************************************************)
(* A recorded success is durable.  Before the commit, each posting of the  *)
(* response is still to do, staged, has a row that another session has     *)
(* inserted, or was skipped for a twin that has a row or is staged in the  *)
(* same session; the commit turns what is staged into rows, and rows are   *)
(* never deleted.                                                          *)
(***************************************************************************)
LocalsEmpty ==
    \A f \in Fetchers :
        /\ pc[f] # "ingest" => staged[f] = Nothing /\ missed[f] = {}
        /\ pc[f] \in {"idle", "failed"} => resp[f] = Nothing

RowsHaveSnapshots ==
    \A p \in Postings : row[p] # None => \E d \in Days : <<p, d>> \in snapshots

Kept(p) ==
    \/ row[p] # None /\ \E d \in Days : <<p, d>> \in snapshots
    \/ \E q \in Postings : MayBeTwins(p, q) /\ row[q] # None

Handled(f, p) ==
    \/ p \in todo[f] \cup missed[f]
    \/ staged[f][p] # None
    \/ Kept(p)
    \/ \E q \in Postings : MayBeTwins(p, q) /\ staged[f][q] # None

NothingLeftOut ==
    \A f \in Fetchers : pc[f] = "ingest" =>
        \A p \in Postings : resp[f][p] # None => Handled(f, p)

DurableInv == LocalsEmpty /\ RowsHaveSnapshots /\ NothingLeftOut /\ SuccessIsDurable

LEMMA KeptStays ==
  ASSUME NEW p \in Postings, Kept(p), snapshots \subseteq snapshots',
         \A q \in Postings : row[q] # None => row'[q] # None
  PROVE  Kept(p)'
  BY DEF Kept, MayBeTwins

\* A task that a step leaves alone, or empties, keeps its part of the invariant.
LEMMA DurableOthers ==
  ASSUME DurableInv, NEW g \in Fetchers, snapshots \subseteq snapshots',
         \A p \in Postings : row[p] # None => row'[p] # None,
         pc'[g] = pc[g], resp'[g] = resp[g], todo'[g] = todo[g], staged'[g] = staged[g],
         missed'[g] = missed[g]
  PROVE  /\ pc'[g] # "ingest" => staged'[g] = Nothing /\ missed'[g] = {}
         /\ pc'[g] \in {"idle", "failed"} => resp'[g] = Nothing
         /\ pc'[g] = "ingest" => \A p \in Postings : resp'[g][p] # None => Handled(g, p)'
         /\ pc'[g] = "record" => \A p \in Postings : resp'[g][p] # None => Kept(p)'
  <1>1. ASSUME NEW p \in Postings, Handled(g, p) PROVE Handled(g, p)'
    BY <1>1, KeptStays DEF Handled, MayBeTwins
  <1>2. pc[g] = "record" => \A p \in Postings : resp[g][p] # None => Kept(p)
    BY DEF DurableInv, SuccessIsDurable, Kept
  <1>3. QED BY <1>1, <1>2, KeptStays DEF DurableInv, LocalsEmpty, NothingLeftOut

LEMMA DurableParts ==
  ASSUME RowsHaveSnapshots',
         \A g \in Fetchers :
            /\ pc'[g] # "ingest" => staged'[g] = Nothing /\ missed'[g] = {}
            /\ pc'[g] \in {"idle", "failed"} => resp'[g] = Nothing
            /\ pc'[g] = "ingest" => \A p \in Postings : resp'[g][p] # None => Handled(g, p)'
            /\ pc'[g] = "record" => \A p \in Postings : resp'[g][p] # None => Kept(p)'
  PROVE  DurableInv'
  <1>1. SuccessIsDurable'
    BY DEF SuccessIsDurable, Kept
  <1>2. QED BY <1>1 DEF DurableInv, LocalsEmpty, NothingLeftOut

\* A posting that was looked up, or compared, is staged, has a row or has a twin.
LEMMA DurableJob ==
  ASSUME TypeInv, VersionChain, DurableInv, NEW f \in Fetchers, NEW p \in Postings,
         Job(f, p) \/ ReadVersionSeq(f, p)
  PROVE  DurableInv'
  <1>1. UNCHANGED <<pc, resp, row, snapshots>> /\ pc[f] = "ingest"
    BY JobLocals, SeqLocals DEF DurableInv, LocalsEmpty
  <1>2. \A q \in Postings : q \in todo[f] \cup missed[f] => q \in todo'[f] \cup missed'[f] \/ q = p
    BY JobLocals, SeqLocals
  <1>3. /\ \A g \in Fetchers, q \in Postings : g # f \/ q # p => staged'[g][q] = staged[g][q]
        /\ staged[f][p] # None => staged'[f][p] # None
    BY InsertLocals, UpdateLocals, SeqLocals DEF Job, FindNone, SkipDuplicate
  <1>4. \A g \in Fetchers \ {f} : staged'[g] = staged[g]
    BY DEF Job, FindNone, SkipDuplicate, StageInsert, StageUpdate, ReadVersionSeq, TypeInv, TypeOK
  <1>5. \A q \in Postings : Kept(q) => Kept(q)'
    BY <1>1 DEF Kept, MayBeTwins
  <1>6. ASSUME NEW q \in Postings, Handled(f, q), q # p PROVE Handled(f, q)'
    <2>1. q \in todo[f] \cup missed[f] => q \in todo'[f] \cup missed'[f]
      BY <1>2, <1>6
    <2>2. \A r \in Postings : staged[f][r] # None => staged'[f][r] # None
      BY <1>3
    <2>3. QED BY <1>5, <1>6, <2>1, <2>2 DEF Handled, MayBeTwins
  <1>7. Handled(f, p)'
    <2>1. CASE FindNone(f, p)
      BY <2>1 DEF Handled, FindNone, TypeInv, TypeOK
    <2>2. CASE SkipDuplicate(f, p)
      <3>1. row[p] # None => Kept(p)
        BY DEF DurableInv, RowsHaveSnapshots, Kept
      <3>2. \/ Kept(p) \/ staged[f][p] # None
            \/ \E q \in Postings : MayBeTwins(p, q) /\ staged[f][q] # None
        BY <2>2, <3>1, SkipLocals DEF Kept
      <3>3. staged' = staged
        BY <2>2, SkipLocals
      <3>4. QED BY <1>5, <3>2, <3>3 DEF Handled, MayBeTwins
    <2>3. CASE StageInsert(f, p) \/ StageUpdate(f, p)
      BY <2>3, InsertLocals, UpdateLocals DEF Handled
    <2>4. CASE ReadVersionSeq(f, p)
      BY <2>4, SeqLocals DEF Handled
    <2>5. QED BY <2>1, <2>2, <2>3, <2>4 DEF Job
  <1>8. \A q \in Postings : resp[f][q] # None => Handled(f, q)'
    BY <1>1, <1>6, <1>7 DEF DurableInv, NothingLeftOut
  <1>9. ASSUME NEW g \in Fetchers \ {f}
        PROVE  /\ pc'[g] # "ingest" => staged'[g] = Nothing /\ missed'[g] = {}
               /\ pc'[g] \in {"idle", "failed"} => resp'[g] = Nothing
               /\ pc'[g] = "ingest" => \A q \in Postings : resp'[g][q] # None => Handled(g, q)'
               /\ pc'[g] = "record" => \A q \in Postings : resp'[g][q] # None => Kept(q)'
    <2>1. todo'[g] = todo[g] /\ missed'[g] = missed[g]
      BY JobLocals, SeqLocals
    <2>2. QED BY <1>1, <1>4, <2>1, DurableOthers
  <1>10. RowsHaveSnapshots'
    BY <1>1 DEF DurableInv, RowsHaveSnapshots
  <1>11. QED BY <1>1, <1>8, <1>9, <1>10, DurableParts

LEMMA DurableCommit ==
  ASSUME TypeInv, DurableInv, NEW f \in Fetchers, Commit(f)
  PROVE  DurableInv'
  <1>1. \A p \in Postings : row[p] # None => row'[p] # None
    BY CommitRows
  <1>2. snapshots \subseteq snapshots'
    BY DEF Commit
  <1>3. ASSUME NEW p \in Postings, resp[f][p] # None PROVE Kept(p)'
    <2>1. Handled(f, p) /\ p \notin todo[f] \cup missed[f]
      BY <1>3, CommitLocals DEF DurableInv, NothingLeftOut
    <2>2. CASE staged[f][p] # None
      <3>1. staged[f][p].day \in Days
        BY <2>2 DEF TypeInv, TypeOK, Staged
      <3>2. QED BY <2>2, <3>1, CommitRows DEF Kept
    <2>3. CASE Kept(p)
      BY <1>1, <1>2, <2>3, KeptStays
    <2>4. ASSUME NEW q \in Postings, MayBeTwins(p, q), staged[f][q] # None PROVE Kept(p)'
      <3>1. row'[q] # None
        BY <2>4, CommitRows
      <3>2. QED BY <2>4, <3>1 DEF Kept, MayBeTwins
    <2>5. QED BY <2>1, <2>2, <2>3, <2>4 DEF Handled
  <1>4. ASSUME NEW g \in Fetchers \ {f}
        PROVE  /\ pc'[g] # "ingest" => staged'[g] = Nothing /\ missed'[g] = {}
               /\ pc'[g] \in {"idle", "failed"} => resp'[g] = Nothing
               /\ pc'[g] = "ingest" => \A p \in Postings : resp'[g][p] # None => Handled(g, p)'
               /\ pc'[g] = "record" => \A p \in Postings : resp'[g][p] # None => Kept(p)'
    BY <1>1, <1>2, CommitLocals, DurableOthers
  <1>5. /\ staged'[f] = Nothing /\ missed'[f] = {}
        /\ \/ pc'[f] = "record" /\ resp'[f] = resp[f]
           \/ pc'[f] = "idle" /\ resp'[f] = Nothing
    BY CommitLocals
  <1>6. RowsHaveSnapshots'
    <2> SUFFICES ASSUME NEW p \in Postings, row'[p] # None
                 PROVE  \E d \in Days : <<p, d>> \in snapshots'
      BY DEF RowsHaveSnapshots
    <2>1. CASE staged[f][p] = None
      BY <1>2, <2>1, CommitRows DEF DurableInv, RowsHaveSnapshots
    <2>2. CASE staged[f][p] # None
      <3>1. staged[f][p].day \in Days
        BY <2>2 DEF TypeInv, TypeOK, Staged
      <3>2. QED BY <2>2, <3>1, CommitRows
    <2>3. QED BY <2>1, <2>2
  <1>7. QED BY <1>3, <1>4, <1>5, <1>6, DurableParts

LEMMA DurableStep ==
  ASSUME ChainInv, DurableInv, [Next]_vars
  PROVE  DurableInv'
  <1> USE DEF ChainInv
  <1>1. /\ snapshots \subseteq snapshots'
        /\ \A p \in Postings : row[p] # None => row'[p] # None
    BY NothingIsDeleted
  <1>2. ASSUME \A p \in Postings : row'[p] # None => row[p] # None PROVE RowsHaveSnapshots'
    BY <1>1, <1>2 DEF DurableInv, RowsHaveSnapshots
  <1>3. CASE Midnight \/ UNCHANGED vars \/ Rollup
    <2>1. UNCHANGED <<pc, resp, todo, staged, missed>>
      BY <1>3, RollupLocals DEF Midnight, vars, fetchVars
    <2>2. \A p \in Postings : row'[p] # None => row[p] # None
      BY <1>3, RollupLocals DEF Midnight, vars, tableVars
    <2>3. QED BY <1>1, <1>2, <2>1, <2>2, DurableOthers, DurableParts
  <1>4. ASSUME NEW f \in Fetchers, NEW b \in Boards, HttpOk(f, b) \/ HttpFail(f, b)
        PROVE  DurableInv'
    <2>1. /\ pc[f] = "idle" /\ staged' = staged /\ missed' = missed /\ row' = row
          /\ \/ pc'[f] = "failed" /\ resp' = resp
             \/ pc'[f] = "ingest" /\ todo'[f] = {p \in Postings : resp'[f][p] # None}
          /\ \A g \in Fetchers \ {f} :
                pc'[g] = pc[g] /\ resp'[g] = resp[g] /\ todo'[g] = todo[g]
      BY <1>4, RequestLocals
    <2>2. staged[f] = Nothing /\ missed[f] = {} /\ resp[f] = Nothing
      BY <2>1 DEF DurableInv, LocalsEmpty
    <2>3. pc'[f] = "ingest" => \A p \in Postings : resp'[f][p] # None => Handled(f, p)'
      BY <2>1 DEF Handled
    <2>4. QED BY <1>1, <1>2, <2>1, <2>2, <2>3, DurableOthers, DurableParts
  <1>5. ASSUME NEW f \in Fetchers, NEW p \in Postings, Job(f, p) \/ ReadVersionSeq(f, p)
        PROVE  DurableInv'
    BY <1>5, DurableJob
  <1>6. ASSUME NEW f \in Fetchers, Commit(f) PROVE DurableInv'
    BY <1>6, DurableCommit
  <1>7. ASSUME NEW f \in Fetchers, RecordSuccess(f) \/ RecordFailure(f) \/ Abort(f)
        PROVE  DurableInv'
    <2>1. Leave(f) /\ row' = row
      BY <1>7 DEF RecordSuccess, RecordFailure, RecordCheck, Abort, tableVars
    <2>2. QED BY <1>1, <1>2, <2>1, LeaveLocals, DurableOthers, DurableParts
  <1>8. QED BY <1>3, <1>4, <1>5, <1>6, <1>7 DEF Next, Fetch, Job

LEMMA DurableInit == Init => DurableInv
  BY DEF Init, DurableInv, LocalsEmpty, RowsHaveSnapshots, NothingLeftOut, SuccessIsDurable,
         Nothing

\* Whatever overlaps, a fetch that records a success has a row and a snapshot for
\* each posting of its response, or a row for a twin of it.
THEOREM SuccessesAreDurable == Spec => []SuccessIsDurable
  <1>1. (ChainInv /\ DurableInv) /\ [Next]_vars => (ChainInv /\ DurableInv)'
    BY ChainStep, DurableStep
  <1>2. DurableInv => SuccessIsDurable
    BY DEF DurableInv
  <1>3. QED BY <1>1, <1>2, ChainInit, DurableInit, PTL DEF Spec

-----------------------------------------------------------------------------
(***************************************************************************)
(* The hash beside the description.  A fetch compares its text with the    *)
(* hash it has loaded, not with the text: if nobody has overtaken it, what *)
(* it writes fits, whatever the row was before.                            *)
(***************************************************************************)
LEMMA HashStep ==
  ASSUME ChainInv, HashDescribesRow, [Next]_vars
  PROVE  HashDescribesRow'
  <1> USE DEF ChainInv
  <1>1. ASSUME raced' = raced,
               \A p \in Postings :
                    \/ row'[p] = row[p]
                    \/ /\ row[p] # None
                       /\ row'[p].content = row[p].content /\ row'[p].hash = row[p].hash
        PROVE  HashDescribesRow'
    BY <1>1 DEF HashDescribesRow
  <1>2. CASE Midnight \/ UNCHANGED vars
    BY <1>1, <1>2 DEF Midnight, vars, tableVars, histVars
  <1>3. ASSUME NEW f \in Fetchers, Fetch(f), ~Commit(f) PROVE HashDescribesRow'
    <2>1. UNCHANGED <<row, raced>>
      BY <1>3 DEF Fetch, HttpOk, HttpFail, FindNone, SkipDuplicate, StageInsert, StageUpdate,
                  Insertable, NextJob, ReadVersionSeq, RecordSuccess, RecordFailure, RecordCheck,
                  Abort, tableVars, histVars
    <2>2. QED BY <1>1, <2>1
  <1>4. ASSUME NEW f \in Fetchers, Commit(f) PROVE HashDescribesRow'
    <2> SUFFICES ASSUME NEW p \in Postings, p \notin raced', row'[p] # None
                 PROVE  row'[p].hash = HashOf[row'[p].content]
      BY DEF HashDescribesRow
    <2>1. CASE staged[f][p] = None
      <3>1. row'[p] = row[p] /\ p \notin raced
        BY <1>4, <2>1, CommitRows DEF Commit, StagedBy
      <3>2. QED BY <3>1 DEF HashDescribesRow
    <2>2. CASE staged[f][p] # None
      <3> DEFINE s == staged[f][p]
      <3>1. row'[p] = RowAfter(s, row[p])
        BY <1>4, <2>2, CommitRows
      <3>2. CASE s.loaded = None
        BY <3>1, <3>2 DEF RowAfter, NewRow
      <3>3. CASE s.loaded # None
        <4>1. s.loaded.content = row[p].content /\ s.loaded.hash = row[p].hash
          BY <1>4, <2>2, <3>3 DEF Commit, Overtaken, StagedBy
        <4>2. s.seq # 0 \/ HashOf[s.content] = s.loaded.hash
          BY <1>4, <2>2, <3>3 DEF Commit, NeedsSeq
        <4>3. row'[p] = UpdatedRow(s, row[p])
          BY <3>1, <3>3 DEF RowAfter
        <4>4. row'[p].content = s.content
          BY <4>1, <4>3 DEF UpdatedRow
        <4>5. row'[p].hash = HashOf[s.content]
          BY <4>1, <4>2, <4>3 DEF UpdatedRow
        <4>6. QED BY <4>4, <4>5
      <3>4. QED BY <3>2, <3>3
    <2>3. QED BY <2>1, <2>2
  <1>5. CASE Rollup
    <2>1. raced' = raced
      BY <1>5 DEF Rollup, RollupStart, RollupSelect, RollupCheck, RollupMark, RollupSummarise,
                  RollupAbort, histVars
    <2>2. QED BY <1>1, <1>5, <2>1, RollupLocals
  <1>6. QED BY <1>2, <1>3, <1>4, <1>5 DEF Next

\* Whatever overlaps, the live hash is the hash of the description beside it, unless
\* the last update of the row was computed from an older row: the first fetch that
\* nobody overtakes repairs the pair.
THEOREM HashesDescribe == Spec => []HashDescribesRow
  <1>1. (ChainInv /\ HashDescribesRow) /\ [Next]_vars => (ChainInv /\ HashDescribesRow)'
    BY ChainStep, HashStep
  <1>2. Init => HashDescribesRow
    BY DEF Init, HashDescribesRow, Nothing
  <1>3. QED BY <1>1, <1>2, ChainInit, PTL DEF Spec

-----------------------------------------------------------------------------
(***************************************************************************)
(* No fetch during the rollup.  The checks that justified a mark are then  *)
(* still there when the run is summarised, even if midnight falls between. *)
(***************************************************************************)
RollupAlone == rpc # "idle" => \A f \in Fetchers : pc[f] = "idle"

MarksChecked ==
    rpc # "idle" =>
        /\ \A p \in cands \cup marks : IsAuthoritative(BoardOf[p])
        /\ \A p \in marks : IsChecked(checks[BoardOf[p]][rday])

MarkInv == RollupAlone /\ MarksChecked

LEMMA AloneStep ==
  ASSUME "fetch_rollup" \notin Overlap, TypeInv, RollupAlone, [Next]_vars
  PROVE  RollupAlone'
  <1>1. CASE Midnight \/ UNCHANGED vars
    BY <1>1 DEF Midnight, vars, fetchVars, rollupVars, RollupAlone
  <1>2. ASSUME NEW f \in Fetchers, Fetch(f) PROVE RollupAlone'
    <2>1. rpc' = rpc /\ (rpc = "idle" \/ pc[f] # "idle" \/ pc' = pc)
      BY <1>2 DEF Fetch, HttpOk, HttpFail, MayFetch, FindNone, SkipDuplicate, StageInsert,
                  StageUpdate, Insertable, NextJob, ReadVersionSeq, Commit, RecordSuccess,
                  RecordFailure, RecordCheck, Abort, rollupVars
    <2>2. QED BY <2>1 DEF RollupAlone
  <1>3. CASE Rollup
    <2>1. pc' = pc
      BY <1>3, RollupLocals
    <2>2. rpc # "idle" \/ \A f \in Fetchers : pc[f] = "idle"
      BY <1>3 DEF Rollup, RollupStart, RollupSelect, RollupCheck, RollupMark, RollupSummarise,
                  RollupAbort
    <2>3. QED BY <2>1, <2>2 DEF RollupAlone
  <1>4. QED BY <1>1, <1>2, <1>3 DEF Next

LEMMA MarkStep ==
  ASSUME "fetch_rollup" \notin Overlap, TypeInv, RollupLocal, MarkInv, [Next]_vars
  PROVE  MarkInv'
  <1> USE DEF IsAuthoritative, IsChecked
  <1>1. RollupAlone'
    BY AloneStep DEF MarkInv
  <1> SUFFICES MarksChecked'
    BY <1>1 DEF MarkInv
  <1>2. ASSUME UNCHANGED <<rpc, rday, mday, cands, marks>>, rpc = "idle" \/ UNCHANGED checks
        PROVE  MarksChecked'
    BY <1>2 DEF MarkInv, MarksChecked
  <1>3. CASE Midnight \/ UNCHANGED vars
    <2>1. UNCHANGED <<rpc, rday, mday, cands, marks, checks>>
      BY <1>3 DEF Midnight, vars, tableVars, rollupVars
    <2>2. QED BY <1>2, <2>1
  <1>4. ASSUME NEW f \in Fetchers, Fetch(f) PROVE MarksChecked'
    <2>1. UNCHANGED <<rpc, rday, mday, cands, marks>> /\ (pc[f] # "idle" \/ UNCHANGED checks)
      BY <1>4 DEF Fetch, HttpOk, HttpFail, FindNone, SkipDuplicate, StageInsert, StageUpdate,
                  Insertable, NextJob, ReadVersionSeq, Commit, RecordSuccess, RecordFailure, RecordCheck, Abort,
                  rollupVars, tableVars
    <2>2. QED BY <1>2, <2>1 DEF MarkInv, RollupAlone
  <1>5. CASE Rollup
    <2>1. checks' = checks
      BY <1>5, RollupLocals
    <2>2. CASE RollupStart \/ RollupSelect
      BY <2>2 DEF RollupStart, RollupSelect, RollupLocal, Candidates, MarksChecked
    <2>3. ASSUME NEW p \in Postings, RollupCheck(p) PROVE MarksChecked'
      BY <2>1, <2>3 DEF RollupCheck, MarkInv, MarksChecked
    <2>4. CASE RollupMark
      BY <2>1, <2>4 DEF RollupMark, MarkInv, MarksChecked
    <2>5. CASE RollupSummarise \/ RollupAbort
      BY <2>5 DEF RollupSummarise, RollupAbort, MarksChecked
    <2>6. QED BY <1>5, <2>2, <2>3, <2>4, <2>5 DEF Rollup
  <1>6. QED BY <1>3, <1>4, <1>5 DEF Next

\* A source with a good check on the day is not declared failed.
LEMMA GoodCheckCounts ==
  ASSUME NEW b \in Boards, NEW d \in Days, IsChecked(checks[b][d])
  PROVE  RunStatusOf(SourceOf[b], d) # "failed"
  <1> DEFINE outcomes == {checks[c][d] : c \in {e \in Boards : SourceOf[e] = SourceOf[b]}}
                            \ {"none"}
  <1>1. checks[b][d] \in outcomes /\ checks[b][d] # "error"
    BY DEF IsChecked, Checked
  <1> HIDE DEF outcomes
  <1>2. outcomes # {} /\ outcomes # {"error"}
    BY <1>1
  <1>3. RunStatusOf(SourceOf[b], d) =
            CASE outcomes = {} -> "none"
              [] outcomes = {"error"} -> "failed"
              [] "error" \in outcomes /\ outcomes # {"error"} -> "degraded"
              [] OTHER -> "ok"
    BY DEF RunStatusOf, outcomes
  <1>4. QED BY <1>2, <1>3

\* If no fetch runs during the rollup, a source whose run is declared failed has no
\* posting marked by that rollup.
THEOREM FailedRunsMarkNothing ==
  ASSUME "fetch_rollup" \notin Overlap
  PROVE  Spec => FailedRunMarksNothing
  <1>1. (ChainInv /\ RollupLocal /\ MarkInv) /\ [Next]_vars
            => (ChainInv /\ RollupLocal /\ MarkInv)'
    BY ChainStep, RollupLocalStep, MarkStep DEF ChainInv
  <1>2. ASSUME ChainInv, MarkInv, RollupSummarise, NEW p \in marks
        PROVE  runs'[SourceOf[BoardOf[p]]][rday] # "failed"
    <2>1. p \in Postings /\ rday \in Days
      BY <1>2 DEF ChainInv, TypeInv, TypeOK
    <2>2. BoardOf[p] \in Boards /\ SourceOf[BoardOf[p]] \in Sources
      BY <2>1, DirectoryAssumption
    <2>3. SourceOf[BoardOf[p]] \in Authoritative /\ IsChecked(checks[BoardOf[p]][rday])
      BY <1>2 DEF MarkInv, MarksChecked, RollupSummarise, IsAuthoritative
    <2>4. runs[SourceOf[BoardOf[p]]] \in [Days -> RunStatus]
      BY <1>2, <2>2 DEF ChainInv, TypeInv, TypeOK
    <2>5. runs'[SourceOf[BoardOf[p]]][rday] = RunStatusOf(SourceOf[BoardOf[p]], rday)
      BY <1>2, <2>1, <2>2, <2>3, <2>4 DEF RollupSummarise
    <2>6. QED BY <2>1, <2>2, <2>3, <2>5, GoodCheckCounts
  <1>3. ChainInv /\ MarkInv /\ [Next]_vars =>
            [RollupSummarise =>
                \A p \in marks : runs'[SourceOf[BoardOf[p]]][rday] # "failed"]_vars
    BY <1>2
  <1>4. Init => MarkInv
    BY DEF Init, MarkInv, RollupAlone, MarksChecked
  <1>5. QED BY <1>1, <1>3, <1>4, ChainInit, RollupLocalInit, PTL DEF Spec, FailedRunMarksNothing

-----------------------------------------------------------------------------
(***************************************************************************)
(* A mark means unseen, if no fetch runs during the rollup and nothing     *)
(* runs across midnight; two fetches of a board may still overlap.  A      *)
(* posting that a success lists has a snapshot of that day or, skipped for *)
(* a twin's row, has no row; a row that another session gives it the same  *)
(* day comes with a snapshot of the day.                                   *)
(***************************************************************************)
Calm == "fetch_rollup" \notin Overlap /\ "midnight" \notin Overlap

RollupToday ==
    /\ rpc # "idle" => rday = day
    /\ rpc \in {"check", "summarise"} => mday = day

NoneAhead == \A p \in Postings, d \in Days : <<p, d>> \in snapshots \cup listed => d <= day

MarksUnseen == rpc # "idle" => \A p \in cands \cup marks : <<p, rday>> \notin snapshots

ListedToday ==
    \A p \in Postings : <<p, day>> \in listed /\ row[p] # None => <<p, day>> \in snapshots

\* A fetch that is in flight staged p today, and will clear the mark it has.
StagedOfToday(f, p) ==
    staged[f][p] # None =>
        /\ staged[f][p].day = day
        /\ staged[f][p].loaded # None /\ staged[f][p].loaded.gone = NoDay =>
                row[p].gone = NoDay

StagedToday == \A f \in Fetchers, p \in Postings : StagedOfToday(f, p)

SeenToday(p) == row[p] # None => row[p].gone = NoDay /\ <<p, day>> \in snapshots

\* The posting p of a response was looked up and is not staged: it had no row.
Passed(f, p) ==
    /\ pc[f] = "record" \/ (pc[f] = "ingest" /\ p \notin todo[f])
    /\ resp[f][p] # None
    /\ staged[f][p] = None

PassedSeen == \A f \in Fetchers, p \in Postings : Passed(f, p) => SeenToday(p)

CalmInv == /\ RollupToday
           /\ NoneAhead
           /\ MarksUnseen
           /\ ListedToday
           /\ StagedToday
           /\ PassedSeen
           /\ GoneMeansUnseen

Before == ChainInv /\ DurableInv /\ RollupLocal /\ RollupAlone /\ CalmInv

LEMMA CalmMidnight ==
  ASSUME Calm, Before, Midnight
  PROVE  CalmInv'
  <1>1. /\ Quiet /\ day' = day + 1
        /\ UNCHANGED <<row, snapshots, listed, pc, staged, rpc>>
    BY DEF Midnight, Calm, tableVars, fetchVars, rollupVars, histVars
  <1>2. \A f \in Fetchers, p \in Postings : pc[f] = "idle" /\ staged[f][p] = None
    BY <1>1 DEF Quiet, Before, DurableInv, LocalsEmpty, Nothing
  <1>3. NoneAhead'
    <2>1. \A d \in Days : d <= day => d <= day + 1
      BY DEF Days, Before, ChainInv, TypeInv, TypeOK
    <2>2. QED BY <1>1, <2>1 DEF Before, CalmInv, NoneAhead
  <1>4. (RollupToday /\ MarksUnseen /\ StagedToday /\ PassedSeen)'
    BY <1>1, <1>2 DEF Quiet, RollupToday, MarksUnseen, StagedToday, StagedOfToday, PassedSeen,
                      Passed
  <1>5. (ListedToday /\ GoneMeansUnseen)'
    <2>1. \A p \in Postings : <<p, day + 1>> \notin listed
      <3>1. ASSUME NEW p \in Postings, <<p, day + 1>> \in listed PROVE FALSE
        <4>1. day + 1 \in Days /\ day \in Days
          BY <3>1 DEF Before, ChainInv, TypeInv, TypeOK
        <4>2. day + 1 <= day
          BY <3>1, <4>1 DEF Before, CalmInv, NoneAhead
        <4>3. QED BY <4>1, <4>2 DEF Days
      <3>2. QED BY <3>1
    <2>2. QED BY <1>1, <2>1 DEF Before, CalmInv, ListedToday, GoneMeansUnseen
  <1>6. QED BY <1>3, <1>4, <1>5 DEF CalmInv

\* A step of a fetch that leaves the tables alone: what it stages, and what it
\* passes over, is all there is to look at.
LEMMA CalmFrame ==
  ASSUME Before, rpc = "idle", UNCHANGED <<day, rpc, row, snapshots, listed>>,
         \A f \in Fetchers, p \in Postings : StagedOfToday(f, p)',
         \A f \in Fetchers, p \in Postings : Passed(f, p)' => Passed(f, p) \/ SeenToday(p)
  PROVE  CalmInv'
  <1>1. (RollupToday /\ MarksUnseen)'
    BY DEF RollupToday, MarksUnseen
  <1>2. (NoneAhead /\ ListedToday /\ GoneMeansUnseen)'
    BY DEF Before, CalmInv, NoneAhead, ListedToday, GoneMeansUnseen
  <1>3. \A p \in Postings : SeenToday(p) => SeenToday(p)'
    BY DEF SeenToday
  <1>4. PassedSeen'
    BY <1>3 DEF Before, CalmInv, PassedSeen
  <1>5. QED BY <1>1, <1>2, <1>4 DEF CalmInv, StagedToday

LEMMA CalmRequest ==
  ASSUME Calm, Before, NEW f \in Fetchers, NEW b \in Boards, HttpOk(f, b) \/ HttpFail(f, b)
  PROVE  CalmInv'
  <1>1. rpc = "idle"
    BY DEF HttpOk, HttpFail, MayFetch, Calm
  <1>2. UNCHANGED <<day, row, snapshots, staged, rpc, listed>>
    BY RequestLocals DEF Before, ChainInv
  <1>3. /\ \/ pc'[f] = "failed"
           \/ pc'[f] = "ingest" /\ todo'[f] = {p \in Postings : resp'[f][p] # None}
        /\ \A g \in Fetchers \ {f} :
                pc'[g] = pc[g] /\ resp'[g] = resp[g] /\ todo'[g] = todo[g]
    BY RequestLocals DEF Before, ChainInv
  <1>4. \A g \in Fetchers, p \in Postings : StagedOfToday(g, p)'
    BY <1>2 DEF Before, CalmInv, StagedToday, StagedOfToday
  <1>5. \A g \in Fetchers, p \in Postings : Passed(g, p)' => Passed(g, p)
    BY <1>2, <1>3 DEF Passed
  <1>6. QED BY <1>1, <1>2, <1>4, <1>5, CalmFrame

LEMMA CalmJob ==
  ASSUME Before, NEW f \in Fetchers, NEW p \in Postings, Job(f, p) \/ ReadVersionSeq(f, p)
  PROVE  CalmInv'
  <1> USE DEF ChainInv
  <1>1. /\ pc[f] = "ingest"
        /\ UNCHANGED <<pc, resp, day, row, snapshots, rpc, listed>>
    BY JobLocals, SeqLocals DEF Before, DurableInv, LocalsEmpty
  <1>2. rpc = "idle"
    BY <1>1 DEF Before, RollupAlone
  <1>3. /\ \A g \in Fetchers \ {f} : todo'[g] = todo[g]
        /\ \A q \in Postings : q \in todo[f] => q \in todo'[f] \/ q = p
    <2>1. \A g \in Fetchers \ {f} : todo'[g] = todo[g]
      BY JobLocals, SeqLocals DEF Before
    <2>2. \/ todo'[f] = todo[f] \ {p}
          \/ todo' = todo
      BY DEF Job, FindNone, StageUpdate, NextJob, SkipDuplicate, StageInsert, Insertable,
             ReadVersionSeq, Before, TypeInv, TypeOK
    <2>3. QED BY <2>1, <2>2
  <1>4. \A g \in Fetchers, q \in Postings : g # f \/ q # p => staged'[g][q] = staged[g][q]
    BY InsertLocals, UpdateLocals, SeqLocals DEF Before, Job, FindNone, SkipDuplicate
  <1>5. StagedOfToday(f, p)'
    <2>1. CASE FindNone(f, p) \/ SkipDuplicate(f, p)
      BY <1>1, <2>1 DEF FindNone, SkipDuplicate, Before, CalmInv, StagedToday, StagedOfToday
    <2>2. CASE StageInsert(f, p)
      BY <1>1, <2>2, InsertLocals DEF Before, StagedOfToday
    <2>3. CASE StageUpdate(f, p)
      <3>1. row[p] # None /\ staged'[f][p].loaded = row[p] /\ staged'[f][p].day = day
        BY <2>3, UpdateLocals DEF Before
      <3>2. QED BY <1>1, <3>1 DEF StagedOfToday
    <2>4. CASE ReadVersionSeq(f, p)
      <3>1. /\ staged[f][p] # None
            /\ staged'[f][p].loaded = staged[f][p].loaded
            /\ staged'[f][p].day = staged[f][p].day
        BY <2>4, SeqLocals DEF Before, NeedsSeq
      <3>2. QED BY <1>1, <3>1 DEF Before, CalmInv, StagedToday, StagedOfToday
    <2>5. QED BY <2>1, <2>2, <2>3, <2>4 DEF Job
  <1>6. \A g \in Fetchers, q \in Postings : g # f \/ q # p => StagedOfToday(g, q)'
    BY <1>1, <1>4 DEF Before, CalmInv, StagedToday, StagedOfToday
  <1>7. Passed(f, p)' => Passed(f, p) \/ SeenToday(p)
    <2>1. CASE FindNone(f, p)
      BY <2>1 DEF FindNone, SeenToday
    <2>2. CASE SkipDuplicate(f, p)
      BY <1>1, <2>2 DEF SkipDuplicate, Insertable, Passed
    <2>3. CASE StageInsert(f, p) \/ StageUpdate(f, p)
      BY <2>3, InsertLocals, UpdateLocals DEF Before, Passed
    <2>4. CASE ReadVersionSeq(f, p)
      BY <2>4, SeqLocals DEF Before, Passed
    <2>5. QED BY <2>1, <2>2, <2>3, <2>4 DEF Job
  <1>8. \A g \in Fetchers, q \in Postings : g # f \/ q # p => (Passed(g, q)' => Passed(g, q))
    BY <1>1, <1>3, <1>4 DEF Passed
  <1>9. \A g \in Fetchers, q \in Postings : StagedOfToday(g, q)'
    BY <1>5, <1>6
  <1>10. \A g \in Fetchers, q \in Postings : Passed(g, q)' => Passed(g, q) \/ SeenToday(q)
    BY <1>7, <1>8
  <1>11. QED BY <1>1, <1>2, <1>9, <1>10, CalmFrame

\* What a commit leaves of a posting that it saw.
LEMMA SeenAtCommit ==
  ASSUME Before, NEW f \in Fetchers, Commit(f), NEW p \in Postings, staged[f][p] # None
  PROVE  /\ row'[p].gone = NoDay
         /\ \A d \in Days : <<p, d>> \in snapshots' <=> <<p, d>> \in snapshots \/ d = day
         /\ row[p] = None => staged[f][p].loaded = None
  <1> DEFINE s == staged[f][p]
  <1>1. /\ row'[p] = RowAfter(s, row[p])
        /\ \A d \in Days : <<p, d>> \in snapshots' <=> <<p, d>> \in snapshots \/ d = s.day
    BY CommitRows DEF Before, ChainInv
  <1>2. /\ s.day = day
        /\ s.loaded # None /\ s.loaded.gone = NoDay => row[p].gone = NoDay
    BY DEF Before, CalmInv, StagedToday, StagedOfToday
  <1>3. row'[p].gone = NoDay
    <2>1. CASE s.loaded = None
      BY <1>1, <2>1 DEF RowAfter, NewRow
    <2>2. CASE s.loaded # None
      BY <1>1, <1>2, <2>2 DEF RowAfter, UpdatedRow
    <2>3. QED BY <2>1, <2>2
  <1>4. row[p] = None => s.loaded = None
    BY DEF Before, ChainInv, TypeInv, RowsStay
  <1>5. QED BY <1>1, <1>2, <1>3, <1>4

LEMMA CalmCommit ==
  ASSUME Before, NEW f \in Fetchers, Commit(f)
  PROVE  CalmInv'
  <1> USE DEF ChainInv
  <1>1. /\ pc[f] = "ingest" /\ todo[f] = {} /\ staged'[f] = Nothing
        /\ \/ pc'[f] = "record" /\ resp'[f] = resp[f]
           \/ pc'[f] = "idle"
        /\ \A g \in Fetchers \ {f} :
                /\ pc'[g] = pc[g] /\ resp'[g] = resp[g] /\ todo'[g] = todo[g]
                /\ staged'[g] = staged[g]
        /\ UNCHANGED <<day, rpc, listed>>
    BY CommitLocals DEF Before
  <1>2. rpc = "idle" /\ day \in Days
    BY <1>1 DEF Before, RollupAlone, TypeInv, TypeOK
  <1>3. ASSUME NEW p \in Postings, staged[f][p] # None
        PROVE  /\ row'[p] # None
               /\ row'[p].gone = NoDay
               /\ \A d \in Days : <<p, d>> \in snapshots' <=> <<p, d>> \in snapshots \/ d = day
               /\ row[p] = None => staged[f][p].loaded = None
    BY <1>3, SeenAtCommit, CommitRows DEF Before
  <1>4. ASSUME NEW p \in Postings, staged[f][p] = None
        PROVE  /\ row'[p] = row[p]
               /\ \A d : <<p, d>> \in snapshots' <=> <<p, d>> \in snapshots
    BY <1>4, CommitRows DEF Before
  <1>5. (RollupToday /\ MarksUnseen)'
    BY <1>1, <1>2 DEF RollupToday, MarksUnseen
  <1>6. NoneAhead'
    <2>1. day <= day
      BY <1>2 DEF Days
    <2>2. QED BY <1>1, <1>3, <1>4, <2>1 DEF Before, CalmInv, NoneAhead
  <1>7. ListedToday'
    <2> SUFFICES ASSUME NEW p \in Postings, <<p, day>> \in listed, row'[p] # None
                 PROVE  <<p, day>> \in snapshots'
      BY <1>1 DEF ListedToday
    <2>1. CASE staged[f][p] = None
      BY <1>4, <2>1 DEF Before, CalmInv, ListedToday
    <2>2. CASE staged[f][p] # None
      BY <1>2, <1>3, <2>2
    <2>3. QED BY <2>1, <2>2
  <1>8. StagedToday'
    <2> SUFFICES ASSUME NEW g \in Fetchers, NEW p \in Postings PROVE StagedOfToday(g, p)'
      BY DEF StagedToday
    <2>1. CASE g = f
      BY <1>1, <2>1 DEF StagedOfToday, Nothing
    <2>2. CASE g # f
      <3>1. staged'[g] = staged[g] /\ StagedOfToday(g, p)
        BY <1>1, <2>2 DEF Before, CalmInv, StagedToday
      <3>2. CASE staged[f][p] = None
        BY <1>1, <1>4, <3>1, <3>2 DEF StagedOfToday
      <3>3. CASE staged[f][p] # None
        BY <1>1, <1>3, <3>1, <3>3 DEF StagedOfToday
      <3>4. QED BY <3>2, <3>3
    <2>3. QED BY <2>1, <2>2
  <1>9. PassedSeen'
    <2> SUFFICES ASSUME NEW g \in Fetchers, NEW p \in Postings, Passed(g, p)'
                 PROVE  SeenToday(p)'
      BY DEF PassedSeen
    <2>1. CASE staged[f][p] # None
      BY <1>1, <1>2, <1>3, <2>1 DEF SeenToday
    <2>2. CASE staged[f][p] = None
      <3>1. Passed(g, p)
        BY <1>1, <2>2 DEF Passed
      <3>2. SeenToday(p)
        BY <3>1 DEF Before, CalmInv, PassedSeen
      <3>3. QED BY <1>1, <1>4, <2>2, <3>2 DEF SeenToday
    <2>3. QED BY <2>1, <2>2
  <1>10. GoneMeansUnseen'
    <2> SUFFICES ASSUME NEW p \in Postings, row'[p] # None, row'[p].gone # NoDay,
                        NEW d \in Days, d >= row'[p].gone
                 PROVE  <<p, d>> \notin snapshots' \cup listed'
      BY DEF GoneMeansUnseen
    <2>1. staged[f][p] = None
      BY <1>3
    <2>2. QED BY <1>1, <1>4, <2>1 DEF Before, CalmInv, GoneMeansUnseen
  <1>11. QED BY <1>5, <1>6, <1>7, <1>8, <1>9, <1>10 DEF CalmInv

LEMMA CalmRecord ==
  ASSUME Before, NEW f \in Fetchers, RecordSuccess(f) \/ RecordFailure(f) \/ Abort(f)
  PROVE  CalmInv'
  <1> USE DEF ChainInv
  <1>1. Leave(f) /\ pc[f] # "idle" /\ UNCHANGED <<day, row, snapshots, rpc>>
    BY RecordLocals, AbortLocals DEF Before, RecordSuccess, RecordFailure, RecordCheck, Abort,
                                     worldVars, rollupVars
  <1>2. rpc = "idle" /\ day \in Days
    BY <1>1 DEF Before, RollupAlone, TypeInv, TypeOK
  <1>3. /\ pc'[f] = "idle" /\ staged'[f] = Nothing
        /\ \A g \in Fetchers \ {f} :
                /\ pc'[g] = pc[g] /\ resp'[g] = resp[g] /\ todo'[g] = todo[g]
                /\ staged'[g] = staged[g]
    BY <1>1, LeaveLocals DEF Before
  <1>4. ASSUME NEW p \in Postings, NEW d \in Days, <<p, d>> \in listed'
        PROVE  \/ <<p, d>> \in listed
               \/ d = day /\ Passed(f, p)
    <2>1. CASE Abort(f)
      BY <1>4, <2>1, AbortLocals
    <2>2. CASE RecordFailure(f)
      <3>1. resp[f] = Nothing
        BY <2>2 DEF RecordFailure, Before, DurableInv, LocalsEmpty
      <3>2. listed' = listed
        BY <2>2, <3>1, RecordLocals DEF Before, RecordFailure, Nothing
      <3>3. QED BY <1>4, <3>2
    <2>3. CASE RecordSuccess(f)
      <3>1. pc[f] = "record" /\ staged[f] = Nothing
        BY <2>3 DEF RecordSuccess, Before, DurableInv, LocalsEmpty
      <3>2. listed' = listed \cup {<<q, day>> : q \in {r \in Postings : resp[f][r] # None}}
        BY <2>3, RecordLocals DEF Before, RecordSuccess
      <3>3. QED BY <1>4, <3>1, <3>2 DEF Passed, Nothing
    <2>4. QED BY <2>1, <2>2, <2>3
  <1>5. ASSUME NEW p \in Postings, Passed(f, p)
        PROVE  row[p] # None => row[p].gone = NoDay /\ <<p, day>> \in snapshots
    BY <1>5 DEF Before, CalmInv, PassedSeen, SeenToday
  <1>6. ASSUME NEW p \in Postings, NEW d \in Days, <<p, d>> \in listed', <<p, d>> \notin listed
        PROVE  /\ d = day
               /\ row[p] # None => row[p].gone = NoDay /\ <<p, day>> \in snapshots
    BY <1>4, <1>5, <1>6
  <1>7. (RollupToday /\ MarksUnseen)'
    BY <1>1, <1>2 DEF RollupToday, MarksUnseen
  <1>8. NoneAhead'
    <2>1. day <= day
      BY <1>2 DEF Days
    <2>2. QED BY <1>1, <1>6, <2>1 DEF Before, CalmInv, NoneAhead
  <1>9. ListedToday'
    BY <1>1, <1>2, <1>6 DEF Before, CalmInv, ListedToday
  <1>10. StagedToday'
    <2> SUFFICES ASSUME NEW g \in Fetchers, NEW p \in Postings PROVE StagedOfToday(g, p)'
      BY DEF StagedToday
    <2>1. CASE g = f
      BY <1>3, <2>1 DEF StagedOfToday, Nothing
    <2>2. CASE g # f
      <3>1. staged'[g] = staged[g] /\ StagedOfToday(g, p)
        BY <1>3, <2>2 DEF Before, CalmInv, StagedToday
      <3>2. QED BY <1>1, <1>6, <3>1 DEF StagedOfToday
    <2>3. QED BY <2>1, <2>2
  <1>11. PassedSeen'
    <2>1. \A g \in Fetchers, p \in Postings : Passed(g, p)' => Passed(g, p)
      BY <1>3 DEF Passed
    <2>2. QED BY <1>1, <2>1 DEF Before, CalmInv, PassedSeen, SeenToday
  <1>12. GoneMeansUnseen'
    <2> SUFFICES ASSUME NEW p \in Postings, row[p] # None, row[p].gone # NoDay,
                        NEW d \in Days, d >= row[p].gone
                 PROVE  <<p, d>> \notin snapshots \cup listed'
      BY <1>1 DEF GoneMeansUnseen
    <2>1. <<p, d>> \notin snapshots \cup listed
      BY DEF Before, CalmInv, GoneMeansUnseen
    <2>2. QED BY <1>6, <2>1
  <1>13. QED BY <1>7, <1>8, <1>9, <1>10, <1>11, <1>12 DEF CalmInv

\* The mark is put on a posting without a snapshot of the day, and there is no
\* later one.
LEMMA MarkedUnseen ==
  ASSUME Before, RollupMark, NEW p \in marks, NEW d \in Days, d >= mday
  PROVE  <<p, d>> \notin snapshots \cup listed
  <1>1. p \in Postings /\ row[p] # None /\ rday \in Days /\ day \in Days
    BY DEF Before, ChainInv, TypeInv, TypeOK, RowsStay
  <1>2. rday = day /\ mday = day /\ <<p, rday>> \notin snapshots
    BY DEF RollupMark, Before, CalmInv, RollupToday, MarksUnseen
  <1>3. ASSUME <<p, d>> \in snapshots \cup listed PROVE FALSE
    <2>1. d <= day
      BY <1>1, <1>3 DEF Before, CalmInv, NoneAhead
    <2>2. d = rday
      BY <1>1, <1>2, <2>1 DEF Days
    <2>3. <<p, d>> \in snapshots
      BY <1>1, <1>2, <1>3, <2>2 DEF Before, CalmInv, ListedToday
    <2>4. QED BY <1>2, <2>2, <2>3
  <1>4. QED BY <1>3

LEMMA CalmRollup ==
  ASSUME Calm, Before, Rollup
  PROVE  CalmInv'
  <1> USE DEF ChainInv
  <1>1. /\ UNCHANGED <<day, snapshots, listed, pc, staged>>
        /\ \A p \in Postings :
                \/ row'[p] = row[p]
                \/ /\ RollupMark /\ p \in marks
                   /\ row[p] # None /\ row'[p] # None
                   /\ row'[p].gone = mday
    BY RollupLocals DEF Before
  <1>2. \A f \in Fetchers : pc[f] = "idle"
    BY DEF Rollup, RollupStart, RollupSelect, RollupCheck, RollupMark, RollupSummarise,
           RollupAbort,
           Before, RollupAlone, Calm
  <1>3. \A f \in Fetchers, p \in Postings : staged[f][p] = None
    BY <1>2 DEF Before, DurableInv, LocalsEmpty, Nothing
  <1>4. (StagedToday /\ PassedSeen)'
    BY <1>1, <1>2, <1>3 DEF StagedToday, StagedOfToday, PassedSeen, Passed
  <1>5. (NoneAhead /\ ListedToday)'
    <2>1. \A p \in Postings : row'[p] = None <=> row[p] = None
      BY <1>1
    <2>2. QED BY <1>1, <2>1 DEF Before, CalmInv, NoneAhead, ListedToday
  <1>6. (RollupToday /\ MarksUnseen)'
    <2>1. CASE RollupStart
      BY <1>1, <2>1 DEF RollupStart, Before, RollupLocal, RollupToday, MarksUnseen
    <2>2. CASE RollupSelect
      BY <1>1, <2>2 DEF RollupSelect, Before, CalmInv, RollupLocal, Candidates, RollupToday, MarksUnseen
    <2>3. ASSUME NEW p \in Postings, RollupCheck(p) PROVE (RollupToday /\ MarksUnseen)'
      BY <1>1, <2>3 DEF RollupCheck, Before, CalmInv, RollupToday, MarksUnseen
    <2>4. CASE RollupMark
      BY <1>1, <2>4 DEF RollupMark, Before, CalmInv, RollupToday, MarksUnseen
    <2>5. CASE RollupSummarise \/ RollupAbort
      BY <2>5 DEF RollupSummarise, RollupAbort, RollupToday, MarksUnseen
    <2>6. QED BY <2>1, <2>2, <2>3, <2>4, <2>5 DEF Rollup
  <1>7. GoneMeansUnseen'
    <2> SUFFICES ASSUME NEW p \in Postings, row'[p] # None, row'[p].gone # NoDay,
                        NEW d \in Days, d >= row'[p].gone
                 PROVE  <<p, d>> \notin snapshots \cup listed
      BY <1>1 DEF GoneMeansUnseen
    <2>1. CASE row'[p] = row[p]
      BY <2>1 DEF Before, CalmInv, GoneMeansUnseen
    <2>2. CASE RollupMark /\ p \in marks /\ row'[p].gone = mday
      BY <2>2, MarkedUnseen
    <2>3. QED BY <1>1, <2>1, <2>2
  <1>8. QED BY <1>4, <1>5, <1>6, <1>7 DEF CalmInv

LEMMA CalmStep ==
  ASSUME Calm, Before, [Next]_vars
  PROVE  Before'
  <1>1. (ChainInv /\ DurableInv)'
    BY ChainStep, DurableStep DEF Before
  <1>2. RollupAlone' /\ RollupLocal'
    BY AloneStep, RollupLocalStep DEF Before, Calm, ChainInv
  <1>3. CalmInv'
    <2>1. CASE UNCHANGED vars
      BY <2>1 DEF vars, worldVars, tableVars, fetchVars, rollupVars, histVars, Before, CalmInv,
                  RollupToday, NoneAhead, MarksUnseen, ListedToday, StagedToday,
                  StagedOfToday, PassedSeen, Passed, SeenToday, GoneMeansUnseen
    <2>2. CASE Midnight
      BY <2>2, CalmMidnight
    <2>3. ASSUME NEW f \in Fetchers, Fetch(f) PROVE CalmInv'
      BY <2>3, CalmRequest, CalmJob, CalmCommit, CalmRecord DEF Fetch, Job
    <2>4. CASE Rollup
      BY <2>4, CalmRollup
    <2>5. QED BY <2>1, <2>2, <2>3, <2>4 DEF Next
  <1>4. QED BY <1>1, <1>2, <1>3 DEF Before

LEMMA CalmInit == Init => RollupAlone /\ CalmInv
  BY DEF Init, RollupAlone, CalmInv, RollupToday, NoneAhead, MarksUnseen, ListedToday,
         StagedToday, StagedOfToday, PassedSeen, Passed, GoneMeansUnseen, Nothing

\* If no fetch runs during the rollup and nothing across midnight, a posting marked
\* disappeared on a day was in no snapshot and in no recorded success of that day
\* or of a later one, even if two fetches of its board overlap.
THEOREM GoneIsUnseen ==
  ASSUME "fetch_rollup" \notin Overlap, "midnight" \notin Overlap
  PROVE  Spec => []GoneMeansUnseen
  <1>1. Before /\ [Next]_vars => Before'
    BY CalmStep DEF Calm
  <1>2. Init => Before
    BY ChainInit, DurableInit, RollupLocalInit, CalmInit DEF Before
  <1>3. Before => GoneMeansUnseen
    BY DEF Before, CalmInv
  <1>4. QED BY <1>1, <1>2, <1>3, PTL DEF Spec
=============================================================================
