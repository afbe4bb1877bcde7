------------------------------- MODULE Backfills -------------------------------
(***************************************************************************)
(* The scripts that fill a column of rows stored before there was one:     *)
(* content hashes, the state of "Opinion" bugs, the embeddings of issues   *)
(* and of summaries, closing references.  Each reads a chunk of rows, asks *)
(* a service or computes, and writes by id, while a collector stores the   *)
(* same issues.  A behaviour is about one script; "value" is its column,   *)
(* and holds what it was computed from.                                    *)
(***************************************************************************)
EXTENDS Integers, FiniteSets, FiniteSetsExt

CONSTANTS
    LastId,            \* rows have the ids 1 .. LastId
    Missing,           \* rows without a value at the beginning
    Chunk,             \* _BATCH_SIZE, batch_size
    Limits,            \* values of --limit, 0 for none
    NoValue,
    MaxText, MaxRuns,  \* bounds: changes of an issue, runs,
    MaxHealing         \*   and submissions that are correcting a hash at one time

Id == 1 .. LastId

ASSUME BackfillAssumption ==
    /\ LastId \in Nat /\ Missing \subseteq Id /\ Chunk \in Nat \ {0}
    /\ Limits \subseteq Nat /\ MaxText \in Nat /\ MaxRuns \in Nat /\ MaxHealing \in Nat
    /\ NoValue \notin Nat /\ NoValue \notin Nat \X {"open", "closed"}

VARIABLES
    script,      \* which one
    table,       \* the issues (summaries: the evaluations, with their issue)
    run,         \* the run of the script
    healing,     \* content hashes that submissions have computed and not yet stored
    raced,       \* history: rows stored while something read of them was to be written
    runs

backfillVars == <<script, table, run, healing, raced, runs>>

Scripts == {"hash", "opinion", "search", "summary", "closing"}
Embeds == script \in {"search", "summary"}
Hashes == script \in {"hash", "opinion"}

NoRun == [at |-> "idle", last |-> 0, chunk |-> << >>, left |-> {}, processed |-> 0, limit |-> 0,
          all |-> FALSE, dry |-> FALSE, skipped |-> {}, touched |-> {}]

\* compute_content_hash: of the text (comments and details included) and state.
HashOf(text, state) == <<text, state>>

\* The rows as the collector of that time stored them: bugs of status Opinion
\* as open, closed issues without references.
BackfillInit ==
    /\ script \in Scripts
    /\ \E state \in [Id -> {"open", "closed"}] :
          table = [i \in Id |->
              [there |-> TRUE, text |-> 0, meta |-> 0, state |-> state[i],
               opinion |-> script = "opinion" /\ i \in Missing,
               value |-> CASE Hashes /\ (i \notin Missing \/ script = "opinion") -> HashOf(0, state[i])
                           [] ~Hashes /\ i \notin Missing -> 0
                           [] OTHER -> NoValue]]
    /\ run = NoRun /\ healing = {} /\ raced = {} /\ runs = 0

-----------------------------------------------------------------------------
(* The collectors, submissions, and the removal of evaluations *)

\* upsert_issue replaces everything: the hash is that of what is stored, and
\* closing references are there if some were found.
Stored(i, text, state) ==
    [table[i] EXCEPT !.text = text, !.meta = text, !.state = state, !.opinion = @ /\ state = "closed",
        !.value = IF Hashes THEN HashOf(text, state)
                  ELSE IF script = "closing" THEN NoValue ELSE @]

\* Somebody has read row i and is about to write what he made of it.
InFlight(i) ==
    \/ run.at = "write" /\ i \in DOMAIN run.chunk
    \/ run.at = "merge" /\ i = Min(run.left)
    \/ \E h \in healing : h[1] = i

Upsert(i) ==
    /\ table[i].text < MaxText
    /\ \E state \in {"open", "closed"} : \E found \in BOOLEAN :
          LET new == Stored(i, table[i].text + 1, state) IN
          table' = [table EXCEPT ![i] = IF script = "closing" /\ found /\ state = "closed"
                                        THEN [new EXCEPT !.value = new.text] ELSE new]
    /\ run' = [run EXCEPT !.touched = IF run.at = "idle" THEN {} ELSE @ \cup {i}]
    /\ raced' = IF InFlight(i) THEN raced \cup {i} ELSE raced \ {i}
    /\ UNCHANGED <<script, healing, runs>>

\* submit_result stores the embedding of the text it had read before it
\* awaited it.
Submitted(i) ==
    /\ script = "search"
    /\ \E text \in 0 .. table[i].text : table' = [table EXCEPT ![i].value = text]
    /\ UNCHANGED <<script, run, healing, raced, runs>>

\* It also corrects a content hash that is not that of the row it has read ...
HealRead(i) ==
    LET hash == HashOf(table[i].text, table[i].state) IN
    /\ Hashes /\ table[i].value # hash
    /\ Cardinality(healing) < MaxHealing
    /\ healing' = healing \cup {<<i, hash>>}
    /\ UNCHANGED <<script, table, run, raced, runs>>

\* ... and stores it, once the embeddings are there and whatever the row has become ...
HealWrite(i) ==
    /\ \E h \in healing :
          /\ h[1] = i
          /\ table' = [table EXCEPT ![i].value = h[2]]
          /\ healing' = healing \ {h}
    /\ UNCHANGED <<script, run, raced, runs>>

\* ... unless it is refused or fails.
HealLost(i) ==
    /\ \E h \in healing : h[1] = i /\ healing' = healing \ {h}
    /\ UNCHANGED <<script, table, run, raced, runs>>

\* An evaluation is removed, or its embedding cleared, by gc.py.
Collected(i) ==
    /\ script = "summary" /\ table[i].there
    /\ table' = [table EXCEPT ![i] = [@ EXCEPT !.there = FALSE, !.value = NoValue]]
    /\ UNCHANGED <<script, run, healing, raced, runs>>

-----------------------------------------------------------------------------
(* The scripts *)

\* The conditions of the select.
Selected(i, all) ==
    /\ table[i].there
    /\ CASE script = "opinion" -> table[i].opinion /\ table[i].state = "open"
         [] script = "closing" -> table[i].state = "closed" /\ (all \/ table[i].value = NoValue)
         [] script = "hash" -> all \/ table[i].value = NoValue
         [] script = "search" -> table[i].value = NoValue
         [] script = "summary" -> TRUE

BeginRun(all, dry, limit) ==
    /\ run.at \in {"idle", "ended", "failed"} /\ runs < MaxRuns /\ runs' = runs + 1
    /\ all => script \in {"hash", "closing"}
    /\ limit > 0 => Embeds
    /\ run' = [NoRun EXCEPT !.at = "read", !.all = all, !.dry = dry, !.limit = limit]
    /\ UNCHANGED <<script, table, healing, raced>>

\* Rows are selected anew for each chunk, from the id where the last one ended:
\* what has been written no longer meets the conditions.
FromOffset(i) == Cardinality({j \in Id : j < i /\ Selected(j, run.all)}) >= run.processed  \* mutant
Ahead(i) == i > run.last

ChunkSize == IF run.limit = 0 THEN Chunk ELSE Min({Chunk, run.limit - run.processed})

\* The closing references take all rows at once.
Rows ==
    LET due == {i \in Id : Selected(i, run.all) /\ Ahead(i)}
    IN  IF script = "closing" THEN due
        ELSE {i \in due : Cardinality({j \in due : j <= i}) <= ChunkSize}

ReadChunk ==
    /\ run.at = "read"
    /\ run' = IF Rows = {} THEN [run EXCEPT !.at = "ended"]
              ELSE [run EXCEPT !.at = IF script = "closing" THEN "rows" ELSE IF run.dry THEN "read" ELSE "write",
                               !.chunk = [i \in Rows |-> table[i]], !.left = Rows,
                               !.last = Max(Rows), !.processed = @ + Cardinality(Rows)]
    /\ UNCHANGED <<script, table, healing, raced, runs>>

\* What is written of a row that has been read as "was".
HashedAsRead(was) == HashOf(was.text, was.state)      \* mutant: with the old state
NewHash(was) == HashOf(was.text, IF script = "opinion" THEN "closed" ELSE was.state)

Written(i, was) ==
    IF ~table[i].there THEN table[i]
    ELSE CASE script = "hash" -> [table[i] EXCEPT !.value = NewHash(was)]
           [] script = "opinion" -> [table[i] EXCEPT !.value = NewHash(was), !.state = "closed"]
           [] Embeds -> [table[i] EXCEPT !.value = was.text]
           [] script = "closing" -> [table[i] EXCEPT !.value = was.text, !.meta = was.meta]

\* One transaction for the chunk, after the embeddings of all of it.
WriteChunk ==
    /\ run.at = "write"
    /\ table' = [i \in Id |-> IF i \in DOMAIN run.chunk THEN Written(i, run.chunk[i]) ELSE table[i]]
    /\ run' = [run EXCEPT !.at = "read"]
    /\ raced' = raced \cup {i \in DOMAIN run.chunk : script = "opinion" /\ \E h \in healing : h[1] = i}
    /\ UNCHANGED <<script, healing, runs>>

\* The service refuses the texts of a chunk: each is sent by itself.
ChunkFails ==
    /\ run.at = "write" /\ Embeds
    /\ run' = [run EXCEPT !.at = "rows"]
    /\ UNCHANGED <<script, table, healing, raced, runs>>

AfterRow(i) ==
    LET left == run.left \ {i} IN
    [run EXCEPT !.left = left,
                !.at = IF left # {} THEN "rows" ELSE IF script = "closing" THEN "ended" ELSE "read"]

\* The metadata to merge with, once the references have been fetched.
MergedWithRead(i) == run.chunk[i]                     \* mutant: as it was in the list
Base(i) == table[i]

Merges == script = "closing" /\ ~run.dry

GetRow(i) ==
    /\ run.at = "rows" /\ Merges /\ run.left # {} /\ i = Min(run.left)
    /\ run' = [run EXCEPT !.at = "merge", !.chunk[i] = Base(i)]
    /\ UNCHANGED <<script, table, healing, raced, runs>>

WriteRow(i) ==
    /\ run.at = IF Merges THEN "merge" ELSE "rows"
    /\ run.left # {} /\ i = Min(run.left)
    /\ table' = IF run.dry THEN table ELSE [table EXCEPT ![i] = Written(i, run.chunk[i])]
    /\ run' = AfterRow(i)
    /\ UNCHANGED <<script, healing, raced, runs>>

\* A row that cannot be had is left out, a summary ends the run.
SkipRow(i) ==
    /\ run.at = "rows" /\ run.left # {} /\ i = Min(run.left)
    /\ run' = IF script = "summary" THEN [run EXCEPT !.at = "failed"]
              ELSE [AfterRow(i) EXCEPT !.skipped = @ \cup {i}]
    /\ UNCHANGED <<script, table, healing, raced, runs>>

\* The database fails, a deadlock with the collector included; or the
\* repository cannot be opened.
FailRun ==
    /\ run.at \in {"read", "write", "rows", "merge"}
    /\ run' = [run EXCEPT !.at = "failed"]
    /\ UNCHANGED <<script, table, healing, raced, runs>>

BackfillNext ==
    \/ \E i \in Id :
          \/ Upsert(i) \/ Submitted(i) \/ HealRead(i) \/ HealWrite(i) \/ HealLost(i) \/ Collected(i)
          \/ GetRow(i) \/ WriteRow(i) \/ SkipRow(i)
    \/ \E all, dry \in BOOLEAN : \E limit \in Limits : BeginRun(all, dry, limit)
    \/ ReadChunk \/ WriteChunk \/ ChunkFails \/ FailRun

BackfillSpec == BackfillInit /\ [][BackfillNext]_backfillVars

-----------------------------------------------------------------------------
(* Properties *)

BackfillTypeOK ==
    /\ script \in Scripts /\ raced \subseteq Id /\ runs \in 0 .. MaxRuns
    /\ healing \subseteq Id \X (Nat \X {"open", "closed"})
    /\ run.left \subseteq DOMAIN run.chunk /\ DOMAIN run.chunk \subseteq Id
    /\ run.limit > 0 => run.processed <= run.limit
    /\ \A i \in Id : table[i].text \in 0 .. MaxText

\* A content hash is that of the row as it is stored, so that an issue is
\* evaluated again if and only if it has changed.  Two write what they have read
\* earlier, the script a chunk and submit_result the hash it corrects: an issue that
\* was stored in between (raced) can have another hash until it is stored again.
HashesHonest ==
    Hashes => \A i \in Id \ raced :
                 table[i].value \in {NoValue, HashOf(table[i].text, table[i].state)}

Filled(i) ==
    CASE script = "opinion" -> ~Selected(i, FALSE)
      [] script = "closing" -> table[i].state = "open" \/ table[i].value # NoValue
      [] OTHER -> table[i].value # NoValue

\* A run that ends without an error has left out nothing, although the rows
\* that are to be filled get fewer with each chunk it writes.
NothingLeftOut ==
    run.at = "ended" /\ ~run.dry /\ run.limit = 0 =>
        \A i \in Id \ (run.skipped \cup run.touched) : table[i].there => Filled(i)

\* Storing closing references takes no other metadata back to what it was when
\* the script listed its rows, however many it goes through and however long that
\* takes; what a collector stores between session.get and the commit of one row
\* is excepted (raced), and is overwritten.
MetadataKept == \A i \in Id \ raced : table[i].meta = table[i].text

BackfillsSound == HashesHonest /\ NothingLeftOut /\ MetadataKept
=============================================================================
