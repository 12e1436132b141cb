---------------------------- MODULE PostingPanel ----------------------------
(***************************************************************************)
(* The daily panel of job postings: what the fetch tasks                   *)
(* (app/tasks/greenhouse.py and its twins for lever, ashby and adzuna),    *)
(* the shared ingestion path (app/ingestion/ingest.py,                     *)
(* app/ingestion/panel.py) and the nightly rollup (app/tasks/panel.py) do  *)
(* to the tables postings, posting_snapshots,                              *)
(* posting_description_versions, collection_run_companies and              *)
(* collection_runs.                                                        *)
(*                                                                         *)
(* Every database transaction runs at READ COMMITTED through an ORM        *)
(* session that neither autoflushes nor refreshes: a SELECT sees what is   *)
(* committed when it runs, and the UPDATE sent at commit names only the    *)
(* columns whose value differs from the one that was loaded.  A step of    *)
(* this module is one such SELECT, or one commit.                          *)
(*                                                                         *)
(* A posting is identified by (source, source_id); company_token is a      *)
(* function of it (BoardOf).  Title, location, company and description are *)
(* one abstract content, HashOf of which is the hash of the normalised     *)
(* description.  An aggregator (adzuna) is a board of a source outside     *)
(* Authoritative.                                                          *)
(***************************************************************************)
EXTENDS Integers, FiniteSets, FiniteSetsExt

CONSTANTS
    Postings,       \* postings that may ever appear on a board
    Boards,         \* board tokens under observation
    Sources,        \* greenhouse, lever, ...
    Authoritative,  \* the sources whose boards the companies control
    BoardOf,        \* the board each posting is published on
    SourceOf,       \* the source of each board
    FuzzyKey,       \* (company, lower-case title, lower-case location) by content
    Contents,       \* contents a posting may have
    Hashes,         \* hashes of normalised descriptions
    HashOf,         \* the hash of each content
    Fetchers,       \* fetch tasks that may be in flight at once
    Overlap,        \* which overlaps the schedule allows, see below
    MaxDay,         \* bound on the calendar
    MaxFetches,     \* bound on the number of requests
    None            \* the null value

(***************************************************************************)
(* The beat schedule starts the fetches on the hour or half hour, every    *)
(* four hours, a company's board being in one batch, and the rollup at     *)
(* 07:00.  Overlap says which of the activities may nevertheless run into  *)
(* each other: two fetches of one company's board, a fetch and the rollup, *)
(* either of them and midnight.  The queries of an aggregator are sent all *)
(* at once, so its fetches overlap in any case.                            *)
(***************************************************************************)
Overlaps == {"fetch_fetch", "fetch_rollup", "midnight"}

Days == 0 .. MaxDay
NoDay == -1

\* A row of postings: disappeared_at (its day) and absence_episode_count are
\* gone and episodes.
Row == [content : Contents, hash : Hashes, gone : Days \cup {NoDay}, episodes : Nat]

\* What a fetch holds on a posting until it commits: the row it loaded (None
\* for an insert), the content it was given, the day of its own clock, and
\* the version_seq of the version row to add (0 for none).
Staged == [loaded : Row \cup {None}, content : Contents, day : Days, seq : Nat]

Version == [seq : Nat, hash : Hashes]

Checked == {"ok", "empty"}
CheckStatus == Checked \cup {"none", "error"}
RunStatus == {"none", "ok", "degraded", "failed"}

ASSUME DirectoryAssumption ==
    /\ BoardOf \in [Postings -> Boards]
    /\ SourceOf \in [Boards -> Sources]
    /\ Authoritative \subseteq Sources
    /\ HashOf \in [Contents -> Hashes]
    /\ DOMAIN FuzzyKey = Postings

ASSUME BoundAssumption ==
    /\ MaxDay \in Nat
    /\ MaxFetches \in Nat
    /\ Overlap \subseteq Overlaps

ASSUME NoneAssumption ==
    /\ None \notin Contents
    /\ None \notin Row
    /\ None \notin Staged
    /\ None \notin Boards

VARIABLES
    day,        \* the current UTC day
    fetches,    \* number of requests so far
    \* the tables
    row,        \* postings
    snapshots,  \* posting_snapshots: pairs <<posting, day>>
    versions,   \* posting_description_versions of each posting
    checks,     \* collection_run_companies.status by board and day
    runs,       \* collection_runs.status by source and day
    \* the fetch tasks
    pc, board, resp, todo, staged,
    missed,     \* the posting a task has just looked up and not found
    \* the rollup
    rpc, rday, cands, marks,
    mday,       \* the day of the mark, from a clock reading of its own
    \* history
    everOk,     \* pairs <<board, day>> for which a success was recorded
    listed,     \* pairs <<posting, day>> of the results of those successes
    marked,     \* number of times each posting was marked disappeared
    raced       \* postings whose last UPDATE was computed from an older row

worldVars  == <<day, fetches>>
tableVars  == <<row, snapshots, versions, checks, runs>>
fetchVars  == <<pc, board, resp, todo, staged, missed>>
rollupVars == <<rpc, rday, mday, cands, marks>>
histVars   == <<everOk, listed, marked, raced>>
vars == <<worldVars, tableVars, fetchVars, rollupVars, histVars>>

TypeOK ==
    /\ day \in Days
    /\ fetches \in Nat
    /\ row \in [Postings -> Row \cup {None}]
    /\ snapshots \subseteq Postings \X Days
    /\ versions \in [Postings -> SUBSET Version]
    /\ checks \in [Boards -> [Days -> CheckStatus]]
    /\ runs \in [Sources -> [Days -> RunStatus]]
    /\ pc \in [Fetchers -> {"idle", "ingest", "record", "failed"}]
    /\ board \in [Fetchers -> Boards \cup {None}]
    /\ \A f \in Fetchers : pc[f] # "idle" => board[f] \in Boards
    /\ resp \in [Fetchers -> [Postings -> Contents \cup {None}]]
    /\ todo \in [Fetchers -> SUBSET Postings]
    /\ \A f \in Fetchers : \A p \in todo[f] : resp[f][p] # None
    /\ staged \in [Fetchers -> [Postings -> Staged \cup {None}]]
    /\ missed \in [Fetchers -> SUBSET Postings]
    /\ \A f \in Fetchers : \A p \in missed[f] : resp[f][p] # None
    /\ rpc \in {"idle", "select", "check", "summarise"}
    /\ rday \in Days /\ mday \in Days
    /\ cands \subseteq Postings
    /\ marks \subseteq Postings
    /\ everOk \subseteq Boards \X Days
    /\ listed \subseteq Postings \X Days
    /\ marked \in [Postings -> Nat]
    /\ raced \subseteq Postings

Nothing == [p \in Postings |-> None]

Init ==
    /\ day = 0
    /\ fetches = 0
    /\ row = Nothing
    /\ snapshots = {}
    /\ versions = [p \in Postings |-> {}]
    /\ checks = [b \in Boards |-> [d \in Days |-> "none"]]
    /\ runs = [s \in Sources |-> [d \in Days |-> "none"]]
    /\ pc = [f \in Fetchers |-> "idle"]
    /\ board = [f \in Fetchers |-> None]
    /\ resp = [f \in Fetchers |-> Nothing]
    /\ todo = [f \in Fetchers |-> {}]
    /\ staged = [f \in Fetchers |-> Nothing]
    /\ missed = [f \in Fetchers |-> {}]
    /\ rpc = "idle"
    /\ rday = 0 /\ mday = 0
    /\ cands = {}
    /\ marks = {}
    /\ everOk = {}
    /\ listed = {}
    /\ marked = [p \in Postings |-> 0]
    /\ raced = {}

-----------------------------------------------------------------------------
IsAuthoritative(b) == SourceOf[b] \in Authoritative

Quiet == rpc = "idle" /\ \A f \in Fetchers : pc[f] = "idle"

Midnight ==
    /\ day < MaxDay
    /\ "midnight" \in Overlap \/ Quiet
    /\ rpc = "select" => day = rday  \* at most one between two statements
    /\ day' = day + 1
    /\ UNCHANGED <<fetches, tableVars, fetchVars, rollupVars, histVars>>

-----------------------------------------------------------------------------
(* A fetch task: the HTTP request, the ingestion transaction, the check. *)

MayFetch(f, b) ==
    /\ pc[f] = "idle"
    /\ "fetch_rollup" \in Overlap \/ rpc = "idle"
    /\ IsAuthoritative(b) =>
           "fetch_fetch" \in Overlap \/ \A g \in Fetchers : board[g] # b
    /\ fetches < MaxFetches
    /\ fetches' = fetches + 1

\* What a request may return: companies open, close and edit requisitions at will
\* between two requests, and an aggregator returns what its ranking picks.
Responses(b) ==
    {r \in [Postings -> Contents \cup {None}] :
        \A p \in Postings : BoardOf[p] # b => r[p] = None}

\* The request returned a valid payload.
HttpOk(f, b) ==
    /\ MayFetch(f, b)
    /\ \E r \in Responses(b) :
        /\ resp' = [resp EXCEPT ![f] = r]
        /\ todo' = [todo EXCEPT ![f] = {p \in Postings : r[p] # None}]
    /\ pc' = [pc EXCEPT ![f] = "ingest"]
    /\ board' = [board EXCEPT ![f] = b]
    /\ UNCHANGED <<day, tableVars, staged, missed, rollupVars, histVars>>

\* The request timed out, or answered an error or an invalid payload.  Only a
\* company's board keeps a record of it; a failed aggregator query just raises.
HttpFail(f, b) ==
    /\ MayFetch(f, b)
    /\ IsAuthoritative(b)
    /\ pc' = [pc EXCEPT ![f] = "failed"]
    /\ board' = [board EXCEPT ![f] = b]
    /\ UNCHANGED <<day, tableVars, resp, todo, staged, missed, rollupVars, histVars>>

\* Returns, raises (Celery retries it) or is lost (the broker redelivers it):
\* either way the next attempt starts over from the request.
Leave(f) ==
    /\ pc' = [pc EXCEPT ![f] = "idle"]
    /\ board' = [board EXCEPT ![f] = None]
    /\ resp' = [resp EXCEPT ![f] = Nothing]
    /\ todo' = [todo EXCEPT ![f] = {}]
    /\ staged' = [staged EXCEPT ![f] = Nothing]
    /\ missed' = [missed EXCEPT ![f] = {}]

\* record_company_check, in a transaction and with a clock of its own: the
\* latest outcome of the day replaces the earlier ones.
RecordCheck(f, status) ==
    /\ checks' = [checks EXCEPT ![board[f]][day] = status]
    /\ everOk' = IF status \in Checked THEN everOk \cup {<<board[f], day>>} ELSE everOk
    /\ listed' = listed \cup {<<p, day>> : p \in {q \in Postings : resp[f][q] # None}}
    /\ Leave(f)
    /\ UNCHANGED <<worldVars, row, snapshots, versions, runs, rollupVars, marked, raced>>

RecordFailure(f) ==
    /\ pc[f] = "failed"
    /\ RecordCheck(f, "error")

RecordSuccess(f) ==
    /\ pc[f] = "record"
    /\ RecordCheck(f, IF resp[f] = Nothing THEN "empty" ELSE "ok")

LastSeq(p) == Max({v.seq : v \in versions[p]} \cup {0})

\* Mutant of NeedsSeq: takes an unchanged text to have its hash.
NeedsSeqOfEdits(f, p) ==
    LET s == staged[f][p] IN
    /\ s # None /\ s.loaded # None /\ s.seq = 0
    /\ s.content # s.loaded.content
    /\ HashOf[s.content] # s.loaded.hash

\* A staged update whose hash differs must still look up the version_seq.
NeedsSeq(f, p) ==
    LET s == staged[f][p] IN
    /\ s # None
    /\ s.loaded # None
    /\ s.seq = 0
    /\ HashOf[s.content] # s.loaded.hash

\* The lookup of the next job by (source, source_id).
NextJob(f, p) ==
    /\ pc[f] = "ingest"
    /\ p \in todo[f]
    /\ missed[f] = {}
    /\ \A q \in Postings : ~NeedsSeq(f, q)
    /\ todo' = [todo EXCEPT ![f] = @ \ {p}]
    /\ UNCHANGED <<pc, board, resp, worldVars, tableVars, rollupVars, histVars>>

FindNone(f, p) ==
    /\ NextJob(f, p)
    /\ row[p] = None
    /\ missed' = [missed EXCEPT ![f] = {p}]
    /\ UNCHANGED staged

StageUpdate(f, p) ==
    /\ NextJob(f, p)
    /\ row[p] # None
    /\ staged' = [staged EXCEPT ![f][p] =
            [loaded |-> row[p], content |-> resp[f][p], day |-> day, seq |-> 0]]
    /\ UNCHANGED missed

(***************************************************************************)
(* find_fuzzy_duplicate, the next statement.  It sees the committed rows,  *)
(* p itself if another session has inserted it by now, and of its own      *)
(* session the inserts and those updates that an insert has flushed.       *)
(***************************************************************************)
Contained(f, q) ==
    {r.content : r \in {row[q], staged[f][q]} \ {None}}

Views(f) ==
    {v \in [Postings -> Contents \cup {None}] :
        \A q \in Postings : IF Contained(f, q) = {} THEN v[q] = None
                                                   ELSE v[q] \in Contained(f, q)}

FuzzyTwins(view, p, content) ==
    {q \in Postings : view[q] # None /\ FuzzyKey[q][view[q]] = FuzzyKey[p][content]}

Insertable(f, p) ==
    /\ p \in missed[f]
    /\ missed' = [missed EXCEPT ![f] = @ \ {p}]
    /\ UNCHANGED <<pc, board, resp, todo, worldVars, tableVars, rollupVars, histVars>>

SkipDuplicate(f, p) ==
    /\ Insertable(f, p)
    /\ \E view \in Views(f) : FuzzyTwins(view, p, resp[f][p]) # {}
    /\ UNCHANGED staged

StageInsert(f, p) ==
    /\ Insertable(f, p)
    /\ \E view \in Views(f) : FuzzyTwins(view, p, resp[f][p]) = {}
    /\ staged' = [staged EXCEPT ![f][p] =
            [loaded |-> None, content |-> resp[f][p], day |-> day, seq |-> 1]]

\* The SELECT of the last version, a statement after the one that loaded the row.
ReadVersionSeq(f, p) ==
    /\ pc[f] = "ingest"
    /\ NeedsSeq(f, p)
    /\ staged' = [staged EXCEPT ![f][p].seq = LastSeq(p) + 1]
    /\ UNCHANGED <<pc, board, resp, todo, missed, worldVars, tableVars, rollupVars, histVars>>

StagedBy(f) == {p \in Postings : staged[f][p] # None}

\* Mutant of NoConflict: no constraint on (posting_id, version_seq).
NoPostingConflict(f) ==
    \A p \in StagedBy(f) : staged[f][p].loaded = None => row[p] = None

\* The uniqueness constraints of postings (source, source_id) and of
\* posting_description_versions (posting_id, version_seq).
NoConflict(f) ==
    \A p \in StagedBy(f) :
        /\ staged[f][p].loaded = None => row[p] = None
        /\ \A v \in versions[p] : v.seq # staged[f][p].seq

NewRow(s) ==
    [content |-> s.content, hash |-> HashOf[s.content], gone |-> NoDay, episodes |-> 0]

\* Mutant of UpdatedRow: counts the episode and leaves the mark.
UpdatedRowKeepsMark(s, r) ==
    [r EXCEPT !.content = s.content, !.hash = HashOf[s.content],
              !.episodes = IF s.loaded.gone = NoDay THEN @ ELSE s.loaded.episodes + 1]

\* The UPDATE: a column is written when its new value differs from the loaded
\* one; any other column of the committed row r stays as it is.
UpdatedRow(s, r) ==
    LET reappears == s.loaded.gone # NoDay IN
    [content  |-> IF s.content # s.loaded.content THEN s.content ELSE r.content,
     hash     |-> IF s.seq # 0 THEN HashOf[s.content] ELSE r.hash,
     gone     |-> IF reappears THEN NoDay ELSE r.gone,
     episodes |-> IF reappears THEN s.loaded.episodes + 1 ELSE r.episodes]

RowAfter(s, r) == IF s.loaded = None THEN NewRow(s) ELSE UpdatedRow(s, r)

VersionRows(s) ==
    IF s.seq = 0 THEN {} ELSE {[seq |-> s.seq, hash |-> HashOf[s.content]]}

\* Mutant of SnapshotRows: only postings seen again get a snapshot.
SnapshotRowsOfUpdates(f) ==
    {<<p, staged[f][p].day>> : p \in {q \in StagedBy(f) : staged[f][q].loaded # None}}

\* What ON CONFLICT DO NOTHING leaves in posting_snapshots.
SnapshotRows(f) == {<<p, staged[f][p].day>> : p \in StagedBy(f)}

\* The row that was loaded is no longer the one the UPDATE meets.
Overtaken(f) ==
    {p \in StagedBy(f) :
        LET s == staged[f][p] IN
        s.loaded # None /\ (s.loaded.content # row[p].content \/ s.loaded.hash # row[p].hash)}

Commit(f) ==
    /\ pc[f] = "ingest"
    /\ todo[f] = {} /\ missed[f] = {}
    /\ \A p \in Postings : ~NeedsSeq(f, p)
    /\ NoConflict(f)
    /\ row' = [p \in Postings |->
            IF p \in StagedBy(f) THEN RowAfter(staged[f][p], row[p]) ELSE row[p]]
    /\ versions' = [p \in Postings |->
            IF p \in StagedBy(f) THEN versions[p] \cup VersionRows(staged[f][p])
                                 ELSE versions[p]]
    /\ snapshots' = snapshots \cup SnapshotRows(f)
    /\ IF IsAuthoritative(board[f])
       THEN /\ pc' = [pc EXCEPT ![f] = "record"]
            /\ staged' = [staged EXCEPT ![f] = Nothing]
            /\ UNCHANGED <<board, resp, todo, missed>>
       ELSE Leave(f)
    /\ raced' = (raced \ StagedBy(f)) \cup Overtaken(f)
    /\ UNCHANGED <<worldVars, checks, runs, rollupVars, everOk, listed, marked>>

\* A uniqueness conflict, a deadlock between two sessions, the task's time
\* limit or the loss of its worker: the transaction, if any, is rolled back.
Abort(f) ==
    /\ pc[f] # "idle"
    /\ Leave(f)
    /\ UNCHANGED <<worldVars, tableVars, rollupVars, histVars>>

-----------------------------------------------------------------------------
(* run_daily_rollup. *)

\* Mutant of Candidates: without the NOT IN (seen today).
AllLiveRows(d) ==
    {p \in Postings : row[p] # None /\ IsAuthoritative(BoardOf[p]) /\ row[p].gone = NoDay}

Candidates(d) ==
    {p \in Postings :
        /\ row[p] # None
        /\ IsAuthoritative(BoardOf[p])
        /\ row[p].gone = NoDay
        /\ <<p, d>> \notin snapshots}

RollupStart ==
    /\ rpc = "idle"
    /\ "fetch_rollup" \in Overlap \/ \A f \in Fetchers : pc[f] = "idle"
    /\ rpc' = "select"
    /\ rday' = day
    /\ UNCHANGED <<mday, cands, marks, worldVars, tableVars, fetchVars, histVars>>

\* _detect_disappeared reads the clock again and selects the candidates.
RollupSelect ==
    /\ rpc = "select"
    /\ rpc' = "check"
    /\ mday' = day
    /\ cands' = Candidates(rday)
    /\ UNCHANGED <<rday, marks, worldVars, tableVars, fetchVars, histVars>>

\* Mutant of IsChecked: any record of the day will do.
HasRecord(status) == status # "none"

IsChecked(status) == status \in Checked

\* One candidate's query of collection_run_companies.
RollupCheck(p) ==
    /\ rpc = "check"
    /\ p \in cands
    /\ cands' = cands \ {p}
    /\ marks' = IF IsChecked(checks[BoardOf[p]][rday]) THEN marks \cup {p} ELSE marks
    /\ UNCHANGED <<rpc, rday, mday, worldVars, tableVars, fetchVars, histVars>>

RollupMark ==
    /\ rpc = "check"
    /\ cands = {}
    /\ rpc' = "summarise"
    /\ row' = [p \in Postings |->
            IF p \in marks THEN [row[p] EXCEPT !.gone = mday] ELSE row[p]]
    /\ marked' = [p \in Postings |-> IF p \in marks THEN marked[p] + 1 ELSE marked[p]]
    /\ UNCHANGED <<rday, mday, cands, marks, worldVars, snapshots, versions, checks, runs,
                   fetchVars, everOk, listed, raced>>

\* Mutant of RunStatusOf: copies the status of the checks.
CheckStatusOf(s, d) ==
    CHOOSE status \in CheckStatus : \E b \in Boards : SourceOf[b] = s /\ checks[b][d] = status

\* The row of collection_runs of source s on day d, there once a check is.
RunStatusOf(s, d) ==
    LET outcomes == {checks[b][d] : b \in {c \in Boards : SourceOf[c] = s}} \ {"none"}
    IN CASE outcomes = {} -> "none"
         [] outcomes = {"error"} -> "failed"
         [] "error" \in outcomes /\ outcomes # {"error"} -> "degraded"
         [] OTHER -> "ok"

RollupSummarise ==
    /\ rpc = "summarise"
    /\ rpc' = "idle"
    /\ rday' = 0 /\ mday' = 0
    /\ marks' = {}
    /\ runs' = [s \in Sources |->
            IF s \in Authoritative THEN [runs[s] EXCEPT ![rday] = RunStatusOf(s, rday)]
                                   ELSE runs[s]]
    /\ UNCHANGED <<cands, worldVars, row, snapshots, versions, checks, fetchVars, histVars>>

RollupAbort ==
    /\ rpc # "idle"
    /\ rpc' = "idle"
    /\ rday' = 0 /\ mday' = 0
    /\ cands' = {}
    /\ marks' = {}
    /\ UNCHANGED <<worldVars, tableVars, fetchVars, histVars>>

-----------------------------------------------------------------------------
Fetch(f) ==
    \/ \E b \in Boards : HttpOk(f, b) \/ HttpFail(f, b)
    \/ \E p \in Postings :
        \/ FindNone(f, p)
        \/ StageUpdate(f, p)
        \/ SkipDuplicate(f, p)
        \/ StageInsert(f, p)
        \/ ReadVersionSeq(f, p)
    \/ Commit(f)
    \/ RecordSuccess(f)
    \/ RecordFailure(f)
    \/ Abort(f)

Rollup ==
    \/ RollupStart
    \/ RollupSelect
    \/ \E p \in Postings : RollupCheck(p)
    \/ RollupMark
    \/ RollupSummarise
    \/ RollupAbort

Next == Midnight \/ (\E f \in Fetchers : Fetch(f)) \/ Rollup

Spec == Init /\ [][Next]_vars

-----------------------------------------------------------------------------
(* What holds whatever overlaps. *)

\* A posting carries a disappearance day only when a check of its own board was
\* recorded as successful on that day, never on the strength of failed checks
\* alone and never for an aggregator (_detect_disappeared), although a later
\* check of the same day may have overwritten the record; or on the day before,
\* as midnight may pass between the two clock readings of the rollup.
GoneOnlyAfterCheck ==
    \A p \in Postings :
        row[p] # None /\ row[p].gone # NoDay =>
            \E d \in {row[p].gone, row[p].gone - 1} : <<BoardOf[p], d>> \in everOk

\* The versions of a posting are numbered 1..n without gap or twin, and the live
\* row's description_hash is the hash of version n, however the fetches that
\* wrote them were interleaved (apply_panel_fields_on_update).
VersionChain ==
    \A p \in Postings :
        IF row[p] = None THEN versions[p] = {}
        ELSE /\ {v.seq : v \in versions[p]} = 1 .. LastSeq(p)
             /\ \A v, w \in versions[p] : v.seq = w.seq => v = w
             /\ [seq |-> LastSeq(p), hash |-> row[p].hash] \in versions[p]

\* absence_episode_count never exceeds the times the posting was marked
\* disappeared, one of which is still pending while the mark stands: two fetches
\* that both see the posting back count it once.
NoPhantomEpisode ==
    \A p \in Postings :
        row[p] # None =>
            row[p].episodes + (IF row[p].gone = NoDay THEN 0 ELSE 1) <= marked[p]

MayBeTwins(p, q) ==
    q # p /\ \E c, d \in Contents : FuzzyKey[p][c] = FuzzyKey[q][d]

\* A fetch about to record its success has left nothing out: each posting of the
\* response has a row and a snapshot, or there is a row that was its twin (the
\* check is recorded after the ingestion transaction has committed, never
\* before).
SuccessIsDurable ==
    \A f \in Fetchers : pc[f] = "record" =>
        \A p \in Postings : resp[f][p] # None =>
            \/ row[p] # None /\ \E d \in Days : <<p, d>> \in snapshots
            \/ \E q \in Postings : MayBeTwins(p, q) /\ row[q] # None

\* description_hash is the hash of the row's own description (models.Posting),
\* except while the last UPDATE of the row was computed from an older one: the
\* next fetch that nobody overtakes repairs what two overlapping ones have mixed.
HashDescribesRow ==
    \A p \in Postings \ raced : row[p] # None => row[p].hash = HashOf[row[p].content]

-----------------------------------------------------------------------------
(* What holds when the overlaps are excluded, as the schedule intends. *)

\* A posting marked disappeared on a day was not in the results of that day nor of
\* a later one, whether the day is the snapshot's or the recorded check's: every
\* sighting clears the mark (docstring of _detect_disappeared).
GoneMeansUnseen ==
    \A p \in Postings : row[p] # None /\ row[p].gone # NoDay =>
        \A d \in Days : d >= row[p].gone => <<p, d>> \notin snapshots \cup listed

\* A version row is written only when the description's hash changed
\* (models.PostingDescriptionVersion): false for an aggregator.
VersionsAreChanges ==
    \A p \in Postings : \A v, w \in versions[p] :
        w.seq = v.seq + 1 => w.hash # v.hash

\* A rollup that declares a source failed, its every check of the day an error,
\* has marked none of the source's postings disappeared.
FailedRunMarksNothing ==
    [][RollupSummarise =>
        \A p \in marks : runs'[SourceOf[BoardOf[p]]][rday] # "failed"]_vars

\* Only a duplicate from another source is skipped (ingest.IngestResult.skipped).
SkipsAreCrossSource ==
    [][\A f \in Fetchers, p \in Postings : SkipDuplicate(f, p) =>
        \E q \in Postings : MayBeTwins(p, q) /\ row[q] # None /\ SourceOf[BoardOf[q]] # SourceOf[BoardOf[p]]]_vars
=============================================================================
