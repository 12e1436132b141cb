-------------------------- MODULE CompanyDirectory --------------------------
(***************************************************************************)
(* The companies table as the tasks fill it: fetch_adzuna (app/tasks/      *)
(* adzuna.py) looks up or inserts the company of each result within the    *)
(* one transaction of the page, the batch dispatchers (app/tasks/          *)
(* scheduler.py) that of each board, committing after each.                *)
(*                                                                         *)
(* A row is its slug, which is unique.  INSERT ... ON CONFLICT DO NOTHING  *)
(* waits for a transaction that has inserted the slug and not ended.       *)
(* Nothing deletes a company.  The digest of a name makes a slug of its    *)
(* own, behind the readable one: Suffixed(slug, name).                     *)
(***************************************************************************)
EXTENDS TaskLifecycle, Sequences

CONSTANTS
    Names,
    Slugs,       \* the readable ones
    Fetches,     \* the tasks that need companies
    Wanted,      \* for each of them a sequence of [name, slug]
    CommitsEach, \* those among them that commit after each company
    None

Readable(slug) == <<"readable", slug>>
Suffixed(slug, name) == <<"sha256", slug, name>>
AllSlugs == ({"readable"} \X Slugs) \cup ({"sha256"} \X Slugs \X Names)

ASSUME CompanyDirectoryAssumption ==
    /\ Fetches \subseteq Tasks /\ CommitsEach \subseteq Fetches
    /\ None \notin Names
    /\ Wanted \in [Fetches -> Seq([name : Names, slug : Slugs])]

VARIABLES
    company,   \* by slug, the name of the committed row; None where there is none
    fetch,     \* the transaction of each worker
    resolved   \* history: the rows that committed work refers to

directoryVars == <<company, fetch, resolved>>

\* next: the company to resolve; try: the slug to be tried for it;
\* inserted: the uncommitted rows; picked: the rows found or inserted.
NoFetch == [next |-> 1, try |-> "readable", inserted |-> {}, picked |-> {}]

DirectoryInit ==
    /\ company = [s \in AllSlugs |-> None]
    /\ fetch = [w \in Workers |-> NoFetch]
    /\ resolved = {}

Fetching(w) == worker[w].step = "body" /\ worker[w].task \in Fetches
WantedBy(w) == Wanted[worker[w].task]
Resolving(w) == Fetching(w) /\ fetch[w].next <= Len(WantedBy(w))
Item(w) == WantedBy(w)[fetch[w].next]
SlugTried(w) ==
    IF fetch[w].try = "readable" THEN Readable(Item(w).slug)
    ELSE Suffixed(Item(w).slug, Item(w).name)

\* The name in the row of a slug as a worker sees it.
Seen(w, s) ==
    IF \E row \in fetch[w].inserted : row.slug = s
    THEN (CHOOSE row \in fetch[w].inserted : row.slug = s).name
    ELSE company[s]

\* A transaction that has inserted the slug and not ended.
Waits(w, v) ==
    /\ v # w
    /\ Resolving(w)
    /\ company[SlugTried(w)] = None
    /\ \E row \in fetch[v].inserted : row.slug = SlugTried(w)

\* The next company's turn: a dispatcher has committed the last one.
Ready(w) ==
    /\ Resolving(w)
    /\ worker[w].task \in CommitsEach => fetch[w].picked = {}
    /\ \A v \in Workers : ~Waits(w, v)

Picks(w, s, rows) ==
    fetch' = [fetch EXCEPT ![w] =
        [next |-> @.next + 1, try |-> "readable", inserted |-> @.inserted \cup rows,
         picked |-> @.picked \cup {[name |-> Item(w).name, base |-> Item(w).slug, slug |-> s]}]]

\* The slug is free: the row is inserted.
InsertCompany(w) ==
    LET s == SlugTried(w) IN
    /\ Ready(w)
    /\ Seen(w, s) = None
    /\ Picks(w, s, {[slug |-> s, name |-> Item(w).name]})
    /\ UNCHANGED <<lifecycleVars, company, resolved>>

\* Mutant of SameCompany: the row of the readable slug is taken for it.
SameSlug(w) == Seen(w, SlugTried(w)) # None

SameCompany(w) == Seen(w, SlugTried(w)) = Item(w).name

\* It is taken by the same name.
FindCompany(w) ==
    /\ Ready(w)
    /\ SameCompany(w)
    /\ Picks(w, SlugTried(w), {})
    /\ UNCHANGED <<lifecycleVars, company, resolved>>

\* It is taken by another name: the digest is tried.
TrySuffix(w) ==
    /\ Ready(w)
    /\ fetch[w].try = "readable"
    /\ Seen(w, SlugTried(w)) # None /\ ~SameCompany(w)
    /\ fetch' = [fetch EXCEPT ![w].try = "digest"]
    /\ UNCHANGED <<lifecycleVars, company, resolved>>

\* The rows of a transaction become everybody's.
CommitRows(w) ==
    /\ company' = [s \in AllSlugs |-> Seen(w, s)]
    /\ resolved' = resolved \cup fetch[w].picked

CommitOne(w) ==
    /\ Resolving(w)
    /\ worker[w].task \in CommitsEach
    /\ fetch[w].picked # {}
    /\ CommitRows(w)
    /\ fetch' = [fetch EXCEPT ![w].inserted = {}, ![w].picked = {}]
    /\ UNCHANGED lifecycleVars

CommitFetch(w) ==
    /\ Fetching(w) /\ ~Resolving(w)
    /\ CommitRows(w)
    /\ fetch' = [fetch EXCEPT ![w] = NoFetch]
    /\ Returns(w)

\* Mutant of RollBack: the session is left open, and with it the transaction.
LeaveOpen(w) ==
    /\ Raises(w)
    /\ UNCHANGED directoryVars

RollBack(w) ==
    /\ fetch' = [fetch EXCEPT ![w] = NoFetch]
    /\ Raises(w)
    /\ UNCHANGED <<company, resolved>>

FetchFails(w) == Fetching(w) /\ Happens("error") /\ RollBack(w)

\* Postgres looks for a cycle of waiting transactions and aborts one.
Deadlocked(w) ==
    \E D \in SUBSET Workers :
        /\ w \in D
        /\ \A d \in D : (\E v \in D : Waits(d, v)) /\ (\E v \in D : Waits(v, d))

DeadlockAbort(w) == Fetching(w) /\ Deadlocked(w) /\ RollBack(w) /\ UNCHANGED faults

DirectoryStep(w) ==
    \/ InsertCompany(w) \/ FindCompany(w) \/ TrySuffix(w) \/ CommitOne(w) \/ CommitFetch(w)
    \/ DeadlockAbort(w)

(***************************************************************************)
(* What the directory promises.                                            *)
(***************************************************************************)
Row == [slug : AllSlugs, name : Names]
Pick == [name : Names, base : Slugs, slug : AllSlugs]

DirectoryTypeOK ==
    /\ company \in [AllSlugs -> Names \cup {None}]
    /\ fetch \in [Workers -> [next : Nat \ {0}, try : {"readable", "digest"},
                              inserted : SUBSET Row, picked : SUBSET Pick]]
    /\ resolved \subseteq Pick

\* Postings are attached to the company of their own name and, seen from
\* one readable slug, to one row of it, although two names may share the
\* slug and transactions that insert them at once may end either way.
CompanyIsItsOwn ==
    \A a \in resolved :
        /\ company[a.slug] = a.name
        /\ \A b \in resolved : a.name = b.name /\ a.base = b.base => a.slug = b.slug
=============================================================================
