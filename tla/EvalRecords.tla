----------------------------- MODULE EvalRecords -----------------------------
(***************************************************************************)
(* What becomes of stored evaluations: the links found with them, the sum  *)
(* that trips the daily spend cap, and the retention policies of gc.py.    *)
(* Submissions, clearing, a collection run and a garbage collection work   *)
(* on the same rows at the same time.  One evaluation costs one unit, and  *)
(* names one other issue.                                                  *)
(***************************************************************************)
EXTENDS Integers, FiniteSets

CONSTANTS
    Issue, Nowhere,
    Known,         \* the issues collected at the beginning
    Server,        \* requests under way at a time
    Cap,           \* eval_daily_spend_cap_usd
    Retention,     \* eval_retention_days
    TranscriptRetention,
    BatchSize,
    LastDay, MaxRows, MaxClears  \* bounds

ASSUME RecordsAssumption ==
    /\ IsFiniteSet(Issue) /\ Known \subseteq Issue /\ Nowhere \notin Issue
    /\ Cap \in Nat /\ Retention \in Nat /\ TranscriptRetention \in Nat
    /\ BatchSize \in Nat \ {0} /\ LastDay \in Nat /\ MaxRows \in Nat /\ MaxClears \in Nat

VARIABLES
    today,
    known,         \* issues with a row
    rows,          \* llm_evaluations, with whether they have a transcript
    links,         \* issue_links
    submit,        \* submit[s]: a request that has committed its result or not
    tripped,       \* history: the cap was tripped today
    clears,        \* clearings so far
    cleared,       \* history: rows of today were cleared
    evaluated,     \* history: issues evaluated since they were last cleared
    gc,            \* gc.py: the policy at work, and the ids it has selected
    link,          \* reconcile_unresolved_links: the links it has read
    stored         \* results stored so far, the ids of the rows

recordVars == <<today, known, rows, links, submit, tripped, clears, cleared, evaluated, gc, link, stored>>

NoGc == [at |-> "idle", ids |-> {}, cutoff |-> 0]
NoLink == [at |-> "idle", read |-> {}]

RecordsInit ==
    /\ today = 0 /\ known = Known
    /\ rows = {} /\ links = {}
    /\ submit = [s \in Server |-> "idle"] /\ tripped = FALSE
    /\ clears = 0 /\ cleared = FALSE /\ evaluated = {}
    /\ gc = NoGc /\ link = NoLink /\ stored = 0

-----------------------------------------------------------------------------
(* Time, and collected issues *)

NextDay ==
    /\ today < LastDay /\ today' = today + 1
    /\ tripped' = FALSE /\ cleared' = FALSE
    /\ UNCHANGED <<known, rows, links, submit, clears, evaluated, gc, link, stored>>

CollectIssue(i) ==
    /\ i \notin known /\ known' = known \cup {i}
    /\ UNCHANGED <<today, rows, links, submit, tripped, clears, cleared, evaluated, gc, link, stored>>

-----------------------------------------------------------------------------
(* Submissions and clearing *)

\* _resolve_ref: the issue of that name if it has been collected.
Resolved(ref) == IF ref \in known THEN ref ELSE Nowhere

\* A reference to the issue itself makes no link.
LinksOf(id, i, ref) == IF ref = i THEN {} ELSE {[row |-> id, ref |-> ref, to |-> Resolved(ref)]}

Spent == Cardinality({r \in rows : r.day = today})

NotDemoted(i) == rows                                  \* mutant
Demoted(i) == {[r EXCEPT !.latest = @ /\ r.issue # i] : r \in rows}

\* submit_result up to its commit.
StoreResult(s, i, ref) ==
    /\ submit[s] = "idle" /\ i \in known /\ stored < MaxRows
    /\ stored' = stored + 1
    /\ rows' = Demoted(i)
                 \cup {[id |-> stored', issue |-> i, day |-> today, latest |-> TRUE,
                        embedded |-> TRUE, transcript |-> TRUE]}
    /\ links' = links \cup LinksOf(stored', i, ref)
    /\ submit' = [submit EXCEPT ![s] = "stored"]
    /\ evaluated' = evaluated \cup {i}
    /\ UNCHANGED <<today, known, tripped, clears, cleared, gc, link>>

\* _maybe_trip_daily_spend_cap
CheckCap(s) ==
    /\ submit[s] = "stored"
    /\ submit' = [submit EXCEPT ![s] = "idle"]
    /\ tripped' = (tripped \/ (Cap > 0 /\ Spent >= Cap))
    /\ UNCHANGED <<today, known, rows, links, clears, cleared, evaluated, gc, link, stored>>

Without(ids) ==
    /\ rows' = {r \in rows : r.id \notin ids}
    /\ links' = {l \in links : l.row \notin ids}

\* delete_evaluations, which cascades to links and transcripts.
ClearIssue(i) ==
    LET ids == {r.id : r \in {q \in rows : q.issue = i}} IN
    /\ clears < MaxClears /\ clears' = clears + 1
    /\ ids # {} /\ Without(ids)
    /\ cleared' = (cleared \/ \E r \in rows : r.id \in ids /\ r.day = today)
    /\ evaluated' = evaluated \ {i}
    /\ UNCHANGED <<today, known, submit, tripped, gc, link, stored>>

-----------------------------------------------------------------------------
(* gc.py *)

AnyAge(r) == TRUE                                      \* mutant: of every row
Superseded(r) == ~r.latest

BeginGc ==
    /\ gc.at = "idle"
    /\ gc' = [NoGc EXCEPT !.at = "transcripts"]
    /\ UNCHANGED <<today, known, rows, links, submit, tripped, clears, cleared, evaluated, link, stored>>

\* delete_superseded_transcripts: one statement.
DropTranscripts ==
    /\ gc.at = "transcripts"
    /\ rows' = {[r EXCEPT !.transcript = @ /\ ~(Superseded(r) /\ r.day < today - TranscriptRetention)] :
                r \in rows}
    /\ gc' = [gc EXCEPT !.at = "embeddings"]
    /\ UNCHANGED <<today, known, links, submit, tripped, clears, cleared, evaluated, link, stored>>

Batches(ids) == {B \in SUBSET ids : Cardinality(B) <= BatchSize /\ (B = {} <=> ids = {})}

\* The ids of a batch are read in one statement and used in the next; a batch
\* with none ends the policy.
SelectEmbeddings ==
    /\ gc.at = "embeddings"
    /\ \E B \in Batches({r.id : r \in {q \in rows : Superseded(q) /\ q.embedded}}) :
          gc' = IF B = {} THEN [gc EXCEPT !.at = "delete", !.cutoff = today - Retention]
                ELSE [gc EXCEPT !.at = "clear", !.ids = B]
    /\ UNCHANGED <<today, known, rows, links, submit, tripped, clears, cleared, evaluated, link, stored>>

ClearEmbeddings ==
    /\ gc.at = "clear"
    /\ rows' = {[r EXCEPT !.embedded = @ /\ r.id \notin gc.ids] : r \in rows}
    /\ gc' = [gc EXCEPT !.at = "embeddings", !.ids = {}]
    /\ UNCHANGED <<today, known, links, submit, tripped, clears, cleared, evaluated, link, stored>>

SelectRows ==
    /\ gc.at = "delete"
    /\ \E B \in Batches({r.id : r \in {q \in rows : Superseded(q) /\ q.day < gc.cutoff}}) :
          gc' = IF B = {} THEN NoGc ELSE [gc EXCEPT !.at = "remove", !.ids = B]
    /\ UNCHANGED <<today, known, rows, links, submit, tripped, clears, cleared, evaluated, link, stored>>

DeleteRows ==
    /\ gc.at = "remove"
    /\ Without(gc.ids)
    /\ gc' = [gc EXCEPT !.at = "delete", !.ids = {}]
    /\ UNCHANGED <<today, known, submit, tripped, clears, cleared, evaluated, link, stored>>

-----------------------------------------------------------------------------
(* reconcile_unresolved_links, at the end of a collection run *)

OfLatest(l) == \E r \in rows : r.id = l.row /\ r.latest   \* mutant: current ones only
ReadOf(l) == l.to = Nowhere /\ OfLatest(l)
Unresolved(l) == l.to = Nowhere

ReadLinks ==
    /\ link.at = "idle"
    /\ link' = [at |-> "read", read |-> {l \in links : Unresolved(l)}]
    /\ UNCHANGED <<today, known, rows, links, submit, tripped, clears, cleared, evaluated, gc, stored>>

\* A link that was deleted in the meantime makes the update of all fail.
WriteLinks ==
    /\ link.at = "read"
    /\ links' = IF \E l \in link.read : l \notin links /\ l.ref \in known
                THEN links
                ELSE {IF l \in link.read THEN [l EXCEPT !.to = Resolved(l.ref)] ELSE l : l \in links}
    /\ link' = NoLink
    /\ UNCHANGED <<today, known, rows, submit, tripped, clears, cleared, evaluated, gc, stored>>

-----------------------------------------------------------------------------
GcStep == DropTranscripts \/ SelectEmbeddings \/ ClearEmbeddings \/ SelectRows \/ DeleteRows

RecordsNext ==
    \/ NextDay \/ \E i \in Issue : CollectIssue(i) \/ ClearIssue(i)
    \/ \E s \in Server : CheckCap(s) \/ \E i, ref \in Issue : StoreResult(s, i, ref)
    \/ BeginGc \/ DropTranscripts \/ SelectEmbeddings \/ ClearEmbeddings
    \/ SelectRows \/ DeleteRows
    \/ ReadLinks \/ WriteLinks

RecordsSpec == RecordsInit /\ [][RecordsNext]_recordVars

\* Requests are answered, and every collection run ends with the links.
RecordsFairness ==
    /\ \A s \in Server : WF_recordVars(CheckCap(s))
    /\ WF_recordVars(ReadLinks) /\ WF_recordVars(WriteLinks) /\ WF_recordVars(GcStep)

-----------------------------------------------------------------------------
(* Properties *)

\* At most one latest row of an issue; a link belongs to a row, names another
\* issue than that of the row, and points at nothing else than what it names.
RecordsTypeOK ==
    /\ \A q, r \in rows : q.id = r.id => q = r
    /\ \A q, r \in rows : q.latest /\ r.latest /\ q.issue = r.issue => q = r
    /\ \A l \in links : /\ l.to \in {Nowhere, l.ref}
                        /\ \E r \in rows : r.id = l.row /\ r.issue # l.ref

\* An issue that was evaluated and not cleared keeps its current evaluation,
\* with the embedding that search uses and its transcript, whatever the
\* garbage collection removes and whatever was submitted between its
\* selecting rows and removing them.
CurrentSurvives ==
    \A i \in evaluated : \E r \in rows : r.issue = i /\ r.latest /\ r.embedded /\ r.transcript

\* The cap is never passed unnoticed: when no submission is under way, results
\* of today at the cap have tripped it, however the submissions interleaved.
CapTrips ==
    /\ \A s \in Server : submit[s] = "idle"
    /\ ~cleared /\ Cap > 0 /\ Cardinality({r \in rows : r.day = today}) >= Cap
    => tripped

\* A link to an issue that is collected later finds it in the end.
LinksResolve == <>[](\A l \in links : l.ref \in known => l.to = l.ref)
=============================================================================
