---------------------------- MODULE ReviewImport ----------------------------
(***************************************************************************)
(* Scripts that write sources: scripts/import_reviews.py, which loads a    *)
(* CSV of reviews in one transaction, and scripts/seed_sources.py, which   *)
(* adds the missing ones of a list; beside them an ingest batch that       *)
(* captures the same reviews.                                              *)
(*                                                                         *)
(* A SELECT opens no transaction (pysqlite begins one at the first write)  *)
(* and `sources` has no unique constraint on its name, so looking a source *)
(* up and creating it are two steps.  A duplicate review is rolled back    *)
(* with a bare session.rollback(): the whole transaction goes, earlier     *)
(* reviews and new sources with it, while source_cache keeps the new       *)
(* Source objects with the ids they had.  SQLite hands those ids out       *)
(* again.                                                                  *)
(***************************************************************************)
EXTENDS Naturals, Sequences, FiniteSets

CONSTANTS
    Importers,   \* processes running import_reviews
    Seeder,      \* the process running seed_sources
    Nobody,      \* holds a write lock that is free
    Reviews,     \* reviews, by content hash
    Product,     \* per review: its site and product, the key of source_cache
    Invalid,     \* a row without site, product or body
    Files,       \* the CSV files: sequences of reviews and Invalid
    Namings,     \* how --source-name names the source of a product
    SeedNames,   \* names of seed_sources, in order
    Scraper,     \* name of the source that the scraper uses
    MaxScripts   \* bound: scripts started

Keys == {Product[v] : v \in Reviews}

ASSUME ImportAssumption ==
    /\ IsFiniteSet(Reviews)
    /\ Seeder \notin Importers /\ Nobody \notin Importers \cup {Seeder}
    /\ Invalid \notin Reviews
    /\ Files \subseteq Seq(Reviews \cup {Invalid})
    /\ SeedNames \in Seq(STRING)
    /\ \A i, j \in 1 .. Len(SeedNames) : SeedNames[i] = SeedNames[j] => i = j
    /\ Namings \subseteq [Keys -> STRING]
    /\ Scraper \in STRING
    /\ MaxScripts \in Nat

VARIABLES
    tables,      \* committed: the sources' names by id, and per review its source_id or 0
    working,     \* the tables as the open write transaction sees them
    write_lock,  \* whose write transaction is open
    importer,    \* per importer: the locals of import_csv
    seeder,      \* the locals of seed_sources.main
    scripts,     \* how many scripts were started
    crowd,       \* history: two of the scripts were under way at the same time
    wounded      \* history: a rollback dropped a source that an importer had cached

importVars == <<tables, working, write_lock, importer, seeder, scripts, crowd, wounded>>

NoImport ==
    [pc |-> "idle", file |-> <<>>, pos |-> 1, naming |-> [k \in Keys |-> Scraper],
     cache |-> [k \in Keys |-> 0], inserted |-> 0, skipped |-> 0, committed |-> 0, lost |-> 0]

Tables == [sources : Seq(STRING), signals : [Reviews -> Nat]]

\* `committed` and `lost` are history: rows the commit added, the last row skipped.
Imports ==
    [pc : {"idle", "row", "create", "insert", "done"}, file : Seq(Reviews \cup {Invalid}),
     pos : Nat \ {0}, naming : [Keys -> STRING], cache : [Keys -> Nat], inserted : Nat,
     skipped : Nat, committed : Nat, lost : Nat]

Busy(i) == importer[i].pc \in {"row", "create", "insert"}
Alone == seeder.pc = "idle" /\ \A i \in Importers : ~Busy(i)

\* What a session reads: its own transaction, or what is committed.
View(p) == IF write_lock = p THEN working ELSE tables

ImportInit ==
    /\ tables = [sources |-> <<Scraper>>, signals |-> [v \in Reviews |-> 0]]
    /\ working = tables
    /\ write_lock = Nobody
    /\ importer = [i \in Importers |-> NoImport]
    /\ seeder = [pc |-> "idle", pos |-> 1, missing |-> <<>>]
    /\ scripts = 0
    /\ crowd = FALSE
    /\ wounded = FALSE

-----------------------------------------------------------------------------
Started ==
    /\ scripts < MaxScripts
    /\ scripts' = scripts + 1
    /\ crowd' = (crowd \/ ~Alone)

ImportStart(i, file, naming) ==
    /\ ~Busy(i)
    /\ Started
    /\ importer' = [importer EXCEPT ![i] =
                      [NoImport EXCEPT !.pc = "row", !.file = file, !.naming = naming]]
    /\ UNCHANGED <<tables, working, write_lock, seeder, wounded>>

Row(i) == importer[i].file[importer[i].pos]

\* Mutant: source_cache knows one product of a site.
KeyOfSite(i) == CHOOSE k \in Keys : TRUE

Key(i) == Product[Row(i)]
HasRow(i) == importer[i].pc = "row" /\ importer[i].pos <= Len(importer[i].file)
NameOf(i) == importer[i].naming[Key(i)]
Matches(i) == {id \in DOMAIN View(i).sources : View(i).sources[id] = NameOf(i)}

\* Mutant: a duplicate is not counted.
SkipRowUncounted(i) ==
    [importer EXCEPT ![i].pc = "row", ![i].pos = @ + 1, ![i].lost = importer[i].pos]

SkipRow(i) ==
    [importer EXCEPT ![i].pc = "row", ![i].pos = @ + 1, ![i].skipped = @ + 1,
                     ![i].lost = importer[i].pos]

SkipInvalid(i) ==
    /\ HasRow(i)
    /\ Row(i) = Invalid
    /\ importer' = SkipRow(i)
    /\ UNCHANGED <<tables, working, write_lock, seeder, scripts, crowd, wounded>>

\* Mutant: only source_cache is asked.
FindSourceCached(i) ==
    /\ HasRow(i)
    /\ Row(i) # Invalid
    /\ importer' = [importer EXCEPT ![i].pc = IF importer[i].cache[Key(i)] # 0 THEN "insert"
                                                                             ELSE "create"]
    /\ UNCHANGED <<tables, working, write_lock, seeder, scripts, crowd, wounded>>

\* _ensure_source, its SELECT, unless source_cache has the key.
FindSource(i) ==
    /\ HasRow(i)
    /\ Row(i) # Invalid
    /\ \/ /\ importer[i].cache[Key(i)] # 0
          /\ importer' = [importer EXCEPT ![i].pc = "insert"]
       \/ /\ importer[i].cache[Key(i)] = 0
          /\ Matches(i) = {}
          /\ importer' = [importer EXCEPT ![i].pc = "create"]
       \/ /\ importer[i].cache[Key(i)] = 0
          /\ \E id \in Matches(i) :
                /\ Matches(i) = {id}
                /\ importer' = [importer EXCEPT ![i].pc = "insert", ![i].cache[Key(i)] = id]
    /\ UNCHANGED <<tables, working, write_lock, seeder, scripts, crowd, wounded>>

MayWrite(p) == write_lock \in {p, Nobody}

\* _ensure_source, its INSERT: the next id, in the transaction of the import.
CreateSource(i) ==
    /\ importer[i].pc = "create"
    /\ MayWrite(i)
    /\ write_lock' = i
    /\ working' = [View(i) EXCEPT !.sources = Append(@, NameOf(i))]
    /\ importer' = [importer EXCEPT ![i].pc = "insert",
                                    ![i].cache[Key(i)] = Len(View(i).sources) + 1]
    /\ UNCHANGED <<tables, seeder, scripts, crowd, wounded>>

\* The unique content hash and the foreign key.
Insertable(i) ==
    /\ View(i).signals[Row(i)] = 0
    /\ importer[i].cache[Key(i)] <= Len(View(i).sources)

InsertReview(i) ==
    /\ importer[i].pc = "insert"
    /\ MayWrite(i)
    /\ Insertable(i)
    /\ write_lock' = i
    /\ working' = [View(i) EXCEPT !.signals[Row(i)] = importer[i].cache[Key(i)]]
    /\ importer' = [importer EXCEPT ![i].pc = "row", ![i].pos = @ + 1, ![i].inserted = @ + 1]
    /\ UNCHANGED <<tables, seeder, scripts, crowd, wounded>>

\* An IntegrityError of either kind ends the transaction and counts as a duplicate.
RollbackReview(i) ==
    /\ importer[i].pc = "insert"
    /\ MayWrite(i)
    /\ ~Insertable(i)
    /\ write_lock' = Nobody
    /\ working' = tables
    /\ wounded' = (wounded \/ View(i).sources # tables.sources)
    /\ importer' = SkipRow(i)
    /\ UNCHANGED <<tables, seeder, scripts, crowd>>

Added(new) == {v \in Reviews : new.signals[v] # tables.signals[v]}

\* Mutant: the loop is left at the first row skipped.
ImportCommitAtSkip(i) ==
    /\ importer[i].pc = "row"
    /\ ~HasRow(i) \/ importer[i].skipped > 0
    /\ tables' = View(i)
    /\ write_lock' = IF write_lock = i THEN Nobody ELSE write_lock
    /\ importer' = [importer EXCEPT ![i].pc = "done", ![i].committed = Cardinality(Added(View(i)))]
    /\ UNCHANGED <<working, seeder, scripts, crowd, wounded>>

ImportCommit(i) ==
    /\ importer[i].pc = "row"
    /\ ~HasRow(i)
    /\ tables' = View(i)
    /\ write_lock' = IF write_lock = i THEN Nobody ELSE write_lock
    /\ importer' = [importer EXCEPT ![i].pc = "done", ![i].committed = Cardinality(Added(View(i)))]
    /\ UNCHANGED <<working, seeder, scripts, crowd, wounded>>

\* The process dies, the lock is not to be had, or the SELECT finds two sources.
ImportStops(i) ==
    /\ Busy(i)
    /\ importer' = [importer EXCEPT ![i] = NoImport]
    /\ IF write_lock = i THEN write_lock' = Nobody /\ working' = tables
                         ELSE UNCHANGED <<write_lock, working>>
    /\ UNCHANGED <<tables, seeder, scripts, crowd, wounded>>

-----------------------------------------------------------------------------
\* seed_sources looks each name up, and inserts the missing ones with its commit.
SeedStart ==
    /\ seeder.pc = "idle"
    /\ Started
    /\ seeder' = [pc |-> "check", pos |-> 1, missing |-> <<>>]
    /\ UNCHANGED <<tables, working, write_lock, importer, wounded>>

SeedCheck ==
    /\ seeder.pc = "check"
    /\ seeder.pos <= Len(SeedNames)
    /\ LET name == SeedNames[seeder.pos]
           known == \E id \in DOMAIN tables.sources : tables.sources[id] = name
       IN  seeder' = [seeder EXCEPT !.pos = @ + 1,
                                    !.missing = IF known THEN @ ELSE Append(@, name)]
    /\ UNCHANGED <<tables, working, write_lock, importer, scripts, crowd, wounded>>

SeedCommit ==
    /\ seeder.pc = "check"
    /\ seeder.pos > Len(SeedNames)
    /\ write_lock = Nobody
    /\ tables' = [tables EXCEPT !.sources = @ \o seeder.missing]
    /\ working' = tables'
    /\ seeder' = [pc |-> "idle", pos |-> 1, missing |-> <<>>]
    /\ UNCHANGED <<write_lock, importer, scripts, crowd, wounded>>

SeedStops ==
    /\ seeder.pc = "check"
    /\ seeder' = [pc |-> "idle", pos |-> 1, missing |-> <<>>]
    /\ UNCHANGED <<tables, working, write_lock, importer, scripts, crowd, wounded>>

\* An ingest batch captures the review under the scraper's source.
Scraped(v) ==
    /\ write_lock = Nobody
    /\ tables.signals[v] = 0
    /\ tables' = [tables EXCEPT !.signals[v] = 1]
    /\ working' = tables'
    /\ UNCHANGED <<write_lock, importer, seeder, scripts, crowd, wounded>>

ImportStep(i) ==
    \/ SkipInvalid(i) \/ FindSource(i) \/ CreateSource(i) \/ InsertReview(i)
    \/ RollbackReview(i) \/ ImportCommit(i) \/ ImportStops(i)

ImportNext ==
    \/ \E i \in Importers :
          ImportStep(i) \/ \E file \in Files, naming \in Namings : ImportStart(i, file, naming)
    \/ SeedStart \/ SeedCheck \/ SeedCommit \/ SeedStops
    \/ \E v \in Reviews : Scraped(v)

ImportSpec == ImportInit /\ [][ImportNext]_importVars

-----------------------------------------------------------------------------
ImportTypeOK ==
    /\ tables \in Tables /\ working \in Tables
    /\ write_lock \in Importers \cup {Nobody}
    /\ write_lock = Nobody => working = tables
    /\ importer \in [Importers -> Imports]
    /\ \A i \in Importers : importer[i].pc \in {"create", "insert"} =>
                               importer[i].pos <= Len(importer[i].file) /\ Row(i) # Invalid
    /\ seeder \in [pc : {"idle", "check"}, pos : Nat \ {0}, missing : Seq(STRING)]
    /\ scripts \in Nat /\ crowd \in BOOLEAN /\ wounded \in BOOLEAN

\* "Imported n reviews; skipped m": the table never got more than n rows, and exactly
\* n when nothing was skipped.  With m > 0 it may have got fewer: the rollback of a
\* duplicate takes back rows that `inserted` has counted (import_csv, _insert_review).
ReportHonest ==
    \A i \in Importers : importer[i].pc = "done" =>
        /\ importer[i].committed <= importer[i].inserted
        /\ importer[i].skipped = 0 => importer[i].committed = importer[i].inserted

\* Whatever was rolled back or raced, each row after the last skipped one is in
\* raw_signals once the import has printed its report.
TailImported ==
    \A i \in Importers : importer[i].pc = "done" =>
        \A p \in importer[i].lost + 1 .. Len(importer[i].file) :
            tables.signals[importer[i].file[p]] # 0

\* A review is filed under the source its row names, through the ids that
\* source_cache holds, until a rollback drops a source the cache still knows: its
\* id may then be that of another source (_ensure_source, _insert_review).
RightSource ==
    ~wounded =>
        \A i \in Importers : write_lock = i =>
            \A v \in Added(working) :
                /\ working.signals[v] \in DOMAIN working.sources
                /\ working.sources[working.signals[v]] = importer[i].naming[Product[v]]

\* Looking up and then creating keeps names unique without a constraint as long as
\* no two of the scripts overlap, over rollbacks, crashes and repeated runs.
NamesUnique ==
    ~crowd => \A a, b \in DOMAIN tables.sources : tables.sources[a] = tables.sources[b] => a = b
=============================================================================
