---------------------------- MODULE DatasetStore ----------------------------
(****************************************************************************)
(* The dataset of the coordinator: DatasetStore (dataset_store.rs) and the  *)
(* handlers submit_example and bulk_import (http_api.rs).                   *)
(*                                                                          *)
(* Rows are in SQLite; the hashes of their instructions are in memory, to   *)
(* refuse duplicates.  A call checks and enters its hashes under the lock   *)
(* of the hashes, and inserts its rows after it has released it.  A restart *)
(* rebuilds the hashes from the rows.                                       *)
(*                                                                          *)
(* An example is told apart by its id, its hash, which stands for the       *)
(* instruction up to case, outer blanks and what follows 200 characters,    *)
(* and whether it passes the quality filter.  The counter of duplicates,    *)
(* which only the statistics show, is left out.                             *)
(****************************************************************************)
EXTENDS Naturals, Sequences, FiniteSets

CONSTANTS
  Calls,     \* the calls that clients make
  Ids,       \* the ids of examples
  Hashes,    \* the hashes of instructions
  Batch      \* per call, its examples: one of submit_example, or the lines of an import

Example == [id : Ids, hash : Hashes, good : BOOLEAN]

\* The ids are UUIDs, made by the node that generates an example or by the import.
ASSUME BatchAssumption ==
  /\ \A c \in Calls : Batch[c] \in Seq(Example)
  /\ \A c, d \in Calls : \A i \in DOMAIN Batch[c], j \in DOMAIN Batch[d] :
       Batch[c][i].id = Batch[d][j].id => c = d /\ i = j

VARIABLES
  rows,         \* the table examples: the id and hash of each
  hashes,       \* seen_hashes
  call,         \* where the handler of each call is
  inserting,    \* per call, the places of its batch that it has yet to insert
  kept          \* history: the places of its batch that a call has accepted

datasetVars == <<rows, hashes, call, inserting, kept>>

----------------------------------------------------------------------------
(* Data *)

Row == [id : Ids, hash : Hashes]
RowOf(example) == [id |-> example.id, hash |-> example.hash]

\* passes_quality: long enough, with code or substantial, not a refusal.
Passes(example) == example.good

\* Mutant of Fresh: an example is not compared with those before it.
FreshEach(batch) ==
  {i \in DOMAIN batch : Passes(batch[i]) /\ batch[i].hash \notin hashes}

\* add_bulk goes through its examples in order: those that pass the filter and
\* whose hash is in neither the set nor an example before them.
Fresh(batch) ==
  {i \in DOMAIN batch :
     /\ Passes(batch[i]) /\ batch[i].hash \notin hashes
     /\ \A j \in 1 .. i - 1 : Passes(batch[j]) => batch[j].hash # batch[i].hash}

\* stats().total_examples > 0
HasData == rows # {}

----------------------------------------------------------------------------
(* open(): the database may have rows; the hashes are made from them *)

HashesOf(stored) == {example.hash : example \in stored}

Opened(stored) ==
  /\ rows = stored
  /\ hashes = HashesOf(stored)
  /\ call = [c \in Calls |-> "new"]
  /\ inserting = [c \in Calls |-> {}]
  /\ kept = [c \in Calls |-> {}]

----------------------------------------------------------------------------
(* add_example and add_bulk *)

\* Under the lock of the hashes.
Dedup(c) ==
  /\ call[c] = "new"
  /\ LET fresh == Fresh(Batch[c]) IN
     /\ hashes' = hashes \cup {Batch[c][i].hash : i \in fresh}
     /\ inserting' = [inserting EXCEPT ![c] = fresh]
     /\ kept' = [kept EXCEPT ![c] = fresh]
  /\ call' = [call EXCEPT ![c] = "inserting"]
  /\ UNCHANGED rows

\* A batch is inserted under one lock of the database.
Midway(c) == inserting[c] \notin {{}, kept[c]}

\* INSERT OR IGNORE, in the order of the batch: a row with the id stays as it is.
InsertRow(c) ==
  /\ call[c] = "inserting"
  /\ \A d \in Calls \ {c} : ~Midway(d)
  /\ \E i \in inserting[c] :
     /\ \A j \in inserting[c] : i <= j
     /\ rows' = IF \E row \in rows : row.id = Batch[c][i].id THEN rows
                ELSE rows \cup {RowOf(Batch[c][i])}
     /\ inserting' = [inserting EXCEPT ![c] = @ \ {i}]
  /\ UNCHANGED <<hashes, call, kept>>

\* Mutant of Answer: rows are inserted in the background.
AnswerEarly(c) ==
  /\ call[c] = "inserting"
  /\ call' = [call EXCEPT ![c] = "answered"]
  /\ UNCHANGED <<rows, hashes, inserting, kept>>

\* The answer says how many were accepted.
Answer(c) ==
  /\ call[c] = "inserting" /\ inserting[c] = {}
  /\ call' = [call EXCEPT ![c] = "answered"]
  /\ UNCHANGED <<rows, hashes, inserting, kept>>

Serve(c) == Dedup(c) \/ InsertRow(c) \/ Answer(c)

----------------------------------------------------------------------------
(* The coordinator crashes between any two steps, also between two rows of an  *)
(* import; open() reads the rows.  A call that was cut off may be made again.  *)

CrashDataset ==
  /\ hashes' = HashesOf(rows)
  /\ call' = [c \in Calls |-> IF call[c] = "inserting" THEN "new" ELSE call[c]]
  /\ inserting' = [c \in Calls |-> {}]
  /\ kept' = [c \in Calls |-> IF call[c] = "inserting" THEN {} ELSE kept[c]]
  /\ UNCHANGED rows

DatasetNext == (\E c \in Calls : Serve(c)) \/ CrashDataset

\* What earlier calls have left: no instruction twice, and no id of a call to come.
Earlier(stored) ==
  /\ \A r, s \in stored : r.hash = s.hash => r = s
  /\ \A row \in stored : \A c \in Calls : \A i \in DOMAIN Batch[c] :
       row.id # Batch[c][i].id

DatasetInit == \E stored \in SUBSET Row : Earlier(stored) /\ Opened(stored)

DatasetSpec == DatasetInit /\ [][DatasetNext]_datasetVars

----------------------------------------------------------------------------
(* Correctness *)

DatasetTypeOK ==
  /\ rows \subseteq Row
  /\ hashes \subseteq Hashes
  /\ call \in [Calls -> {"new", "inserting", "answered"}]
  /\ \A c \in Calls : inserting[c] \subseteq DOMAIN Batch[c]
  /\ \A c \in Calls : kept[c] \subseteq DOMAIN Batch[c]
  /\ inserting \in [Calls -> SUBSET Nat] /\ kept \in [Calls -> SUBSET Nat]

\* No two rows have the same instruction, however calls come between the check
\* and the insertion of others, and wherever a crash cuts an import off.
NoTwins == \A r, s \in rows : r.hash = s.hash => r = s

\* What a call was told is accepted is in the table, and stays over a restart.
AcceptedIsStored ==
  \A c \in Calls : call[c] = "answered" =>
    \A i \in kept[c] : RowOf(Batch[c][i]) \in rows
============================================================================
