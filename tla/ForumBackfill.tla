---------------------------- MODULE ForumBackfill ----------------------------
(***************************************************************************)
(* ForumCollector on one forum: every scheduled run refreshes the list of  *)
(* categories, advances the historical backfill by a batch of pages, and   *)
(* scans the first pages of every category again.  The listing of a        *)
(* category is newest first but for pinned topics, and moves between the   *)
(* requests.  A page has one topic.                                        *)
(*                                                                         *)
(* Topics are stored page by page; the progress of a batch is stored at    *)
(* its end, so that a batch that fails has none.                           *)
(***************************************************************************)
EXTENDS Integers, Sequences, SequencesExt

CONSTANTS
    Categories,    \* category ids, walked in ascending order
    Listing,       \* the listings at the beginning
    Pinned,        \* the topics that stay at the head of theirs
    Before,        \* topics before this one are older than the cutoff
    Streak,        \* _CUTOFF_PAGE_STREAK
    MaxRequests,   \* max_requests of a batch
    Newest,        \* the newest topic at the beginning
    MaxPosts, MaxFailures, MaxLosses, MaxAgings  \* bounds

\* The first k topics of a listing are its pinned ones.
PinnedHead(s, k) == k <= Len(s) /\ \A i \in DOMAIN s : i <= k <=> s[i] \in Pinned

NewestFirst(s) == \A i, j \in DOMAIN s : i < j /\ s[i] \notin Pinned => s[j] < s[i]

\* What _CUTOFF_PAGE_STREAK allows for: fewer pinned topics than the streak.
ASSUME ForumAssumption ==
    /\ Categories \subseteq Nat /\ Before \in Nat
    /\ Streak \in Nat \ {0} /\ MaxRequests \in Nat \ {0} /\ Newest \in Nat
    /\ Listing \in [Categories -> Seq(1..Newest)] /\ Pinned \subseteq 1..Newest
    /\ \A c \in Categories :
          /\ \E k \in 0..Streak - 1 : PinnedHead(Listing[c], k)
          /\ NewestFirst(Listing[c])
    /\ MaxPosts \in Nat /\ MaxFailures \in Nat /\ MaxLosses \in Nat /\ MaxAgings \in Nat

VARIABLES
    listing,   \* listing[c]: the topics of category c as Discourse shows them
    live,      \* the categories there are
    topics,    \* forum_topics
    progress,  \* category_progress, as stored
    batch,     \* the run under way, and its copy of the progress
    posts, failures, losses, agings

forumVars == <<listing, live, topics, progress, batch, posts, failures, losses, agings>>

\* No entry is the same as a walk that has not begun.  seen and torn are
\* history: the topics in scope when the walk began, and whether the category
\* lost a topic since.
Unwalked ==
    [page |-> 0, done |-> FALSE, streak |-> 0, aged |-> FALSE, seen |-> {}, torn |-> FALSE]
NoBatch == [at |-> "idle", cat |-> -1, left |-> 0, page |-> 0, copy |-> <<>>]

InScope(t) == t >= Before

ForumInit ==
    /\ listing = Listing /\ live = Categories
    /\ topics = {}
    /\ progress = [c \in Categories |-> Unwalked]
    /\ batch = NoBatch
    /\ posts = 0 /\ failures = 0 /\ losses = 0 /\ agings = 0

-----------------------------------------------------------------------------
(* The forum, and time *)

\* New topics move the pages by less than the streak.
Post(c) ==
    /\ c \in live /\ posts < MaxPosts
    /\ posts' = posts + 1
    /\ \E k \in 0..Len(listing[c]) :
          /\ PinnedHead(listing[c], k)
          /\ listing' = [listing EXCEPT ![c] = InsertAt(@, k + 1, Newest + posts')]
    /\ UNCHANGED <<live, topics, progress, batch, failures, losses, agings>>

Torn(p, c) == IF c \in DOMAIN p /\ ~p[c].done THEN [p EXCEPT ![c].torn = TRUE] ELSE p

\* A topic is deleted or moved: the topics behind it move up.
Lose(c) ==
    /\ losses < MaxLosses
    /\ losses' = losses + 1
    /\ \E i \in 1..Len(listing[c]) : listing' = [listing EXCEPT ![c] = RemoveAt(@, i)]
    /\ progress' = Torn(progress, c)
    /\ batch' = [batch EXCEPT !.copy = Torn(@, c)]
    /\ UNCHANGED <<live, topics, posts, failures, agings>>

Vanish(c) ==
    /\ losses < MaxLosses /\ c \in live
    /\ losses' = losses + 1
    /\ live' = live \ {c}
    /\ UNCHANGED <<listing, topics, progress, batch, posts, failures, agings>>

\* _CATEGORY_REVALIDATION_INTERVAL has passed since done_at.
Age(c) ==
    /\ progress[c].done /\ ~progress[c].aged /\ agings < MaxAgings
    /\ agings' = agings + 1
    /\ progress' = [progress EXCEPT ![c].aged = TRUE]
    /\ UNCHANGED <<listing, live, topics, batch, posts, failures, losses>>

-----------------------------------------------------------------------------
(* The backfill *)

NextCategory(C, c) ==
    IF \E d \in C : d > c THEN CHOOSE d \in C : d > c /\ \A e \in C : e > c => d <= e ELSE -1

\* A category whose walk is over may be due again.
Entered(p, c) ==
    IF p[c].done /\ p[c].aged THEN [p EXCEPT ![c] = Unwalked] ELSE p

\* Where the batch stands: at a category, or at its end.
AtCategory(p, c, left) ==
    IF c = -1 \/ left = 0
    THEN [batch EXCEPT !.at = "save", !.copy = p]
    ELSE [at |-> "page", cat |-> c, left |-> left, page |-> 0, copy |-> Entered(p, c)]

\* refresh_categories prunes the entries of categories that are gone, then
\* the batch begins with what is stored.
BeginBatch ==
    /\ batch.at = "idle"
    /\ LET kept == [c \in Categories |-> IF c \in live THEN progress[c] ELSE Unwalked]
       IN  /\ progress' = kept
           /\ batch' = [AtCategory(kept, NextCategory(live, -1), MaxRequests) EXCEPT !.page = 0]
    /\ UNCHANGED <<listing, live, topics, posts, failures, losses, agings>>

\* What a page does to the progress of its category.
FirstOld(t, s) == ~InScope(t)                          \* mutant: one page is enough
LastPage(t, s) == s >= Streak

Ended(q) == [q EXCEPT !.done = TRUE, !.streak = 0]
AfterPage(q, c) ==
    IF q.page >= Len(listing[c]) THEN Ended(q)
    ELSE LET t == listing[c][q.page + 1]
             s == IF InScope(t) THEN 0 ELSE q.streak + 1
             more == Len(listing[c]) > q.page + 1
         IN  IF ~more \/ LastPage(t, s) THEN Ended(q)
             ELSE [q EXCEPT !.page = @ + 1, !.streak = s]

PageTopics(c, n) == {listing[c][i] : i \in {n} \cap DOMAIN listing[c]}

Begun(q, c) ==
    IF q.page = 0
    THEN [q EXCEPT !.seen = {t \in ToSet(listing[c]) : InScope(t)}, !.torn = FALSE]
    ELSE q

FetchPage ==
    LET c == batch.cat
        q == Begun(batch.copy[c], c)
    IN  /\ batch.at = "page" /\ batch.left > 0 /\ ~q.done
        /\ batch' = [batch EXCEPT !.copy[c] = AfterPage(q, c), !.left = @ - 1]
        /\ topics' = topics \cup PageTopics(c, q.page + 1)
        /\ UNCHANGED <<listing, live, progress, posts, failures, losses, agings>>

\* Paging goes on in one category until it is done or the budget is spent.
LeaveCategory ==
    /\ batch.at = "page"
    /\ batch.copy[batch.cat].done \/ batch.left = 0
    /\ batch' = AtCategory(batch.copy, NextCategory(live, batch.cat), batch.left)
    /\ UNCHANGED <<listing, live, topics, progress, posts, failures, losses, agings>>

\* Mutant: only finished categories are stored.
SaveFinished == [c \in Categories |-> IF batch.copy[c].done THEN batch.copy[c] ELSE progress[c]]
Saved == batch.copy

SaveBatch ==
    /\ batch.at = "save"
    /\ progress' = Saved
    /\ batch' = [NoBatch EXCEPT !.at = "refresh", !.cat = NextCategory(live, -1)]
    /\ UNCHANGED <<listing, live, topics, posts, failures, losses, agings>>

\* A request fails for good: the exception leaves the batch, its progress is
\* not stored, and the run goes on with the refresh.
FailBatch ==
    /\ batch.at = "page" /\ failures < MaxFailures
    /\ failures' = failures + 1
    /\ batch' = [NoBatch EXCEPT !.at = "refresh", !.cat = NextCategory(live, -1)]
    /\ UNCHANGED <<listing, live, topics, progress, posts, losses, agings>>

-----------------------------------------------------------------------------
(* refresh_recent *)

\* Page by page up to a topic of an earlier month, which a pinned one may be.
Refresh ==
    LET c == batch.cat
        n == batch.page + 1
    IN  /\ batch.at = "refresh" /\ c # -1
        /\ topics' = topics \cup PageTopics(c, n)
        /\ batch' = IF n < Len(listing[c]) /\ InScope(listing[c][n])
                    THEN [batch EXCEPT !.page = n]
                    ELSE [batch EXCEPT !.page = 0, !.cat = NextCategory(live, c)]
        /\ UNCHANGED <<listing, live, progress, posts, failures, losses, agings>>

EndRefresh ==
    /\ batch.at = "refresh"
    /\ \/ batch.cat = -1 /\ UNCHANGED failures
       \/ failures < MaxFailures /\ failures' = failures + 1
    /\ batch' = NoBatch
    /\ UNCHANGED <<listing, live, topics, progress, posts, losses, agings>>

-----------------------------------------------------------------------------
ForumStep ==
    BeginBatch \/ FetchPage \/ LeaveCategory \/ SaveBatch \/ Refresh \/ EndRefresh

ForumNext ==
    \/ BeginBatch \/ FetchPage \/ LeaveCategory \/ SaveBatch \/ FailBatch
    \/ Refresh \/ EndRefresh
    \/ \E c \in Categories : Post(c) \/ Lose(c) \/ Vanish(c) \/ Age(c)

ForumSpec == ForumInit /\ [][ForumNext]_forumVars

\* cron starts runs for ever, and requests are answered or fail.
ForumFairness == WF_forumVars(ForumStep)

-----------------------------------------------------------------------------
(* Properties *)

ForumTypeOK ==
    /\ topics \subseteq 1..Newest + MaxPosts /\ live \subseteq Categories
    /\ batch.at \in {"idle", "page", "save", "refresh"} /\ batch.left \in 0..MaxRequests
    /\ \A c \in Categories : progress[c].streak \in 0..Streak - 1

\* A category that counts as done has every topic in scope that it showed
\* when the walk began, through failures, batches that end within it, new
\* topics that move the pages, and pinned topics at its head, unless topics
\* were deleted or moved away while it was walked.
DoneMeansStored ==
    \A c \in live : progress[c].done /\ ~progress[c].torn => progress[c].seen \subseteq topics

\* Runs of a bounded number of requests come to the end of the history: what
\* is not aged is done in the end.
BackfillEnds == <>[](\A c \in live : progress[c].done \/ progress[c].aged)
=============================================================================
