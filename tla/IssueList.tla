------------------------------ MODULE IssueList ------------------------------
(***************************************************************************)
(* The issue list: IssueRepository.search, the semantic search whose       *)
(* results are put behind its own, and a reader who turns the pages while  *)
(* issues are evaluated and closed.  The filters stand for one: open       *)
(* issues.  A score is what the list is ordered by; the database orders    *)
(* equal scores as it likes, in every query anew.                          *)
(***************************************************************************)
EXTENDS Integers, FiniteSets, Sequences, SequencesExt

CONSTANTS
    Item,
    Scores,        \* scores[i] at the beginning
    Matches,       \* issues whose title, project or number has the words
    Near,          \* issues whose embedding is near that of the search
    PerPage,       \* items_per_page, 0 for all
    MaxItems,      \* MAX_ITEMS_PER_PAGE
    TopN,          \* semantic_search_top_n
    MaxChanges     \* bound

ASSUME ListAssumption ==
    /\ IsFiniteSet(Item) /\ Scores \in [Item -> Nat]
    /\ Matches \subseteq Item /\ Near \subseteq Item
    /\ PerPage \in Nat /\ MaxItems \in Nat \ {0} /\ TopN \in Nat /\ MaxChanges \in Nat

VARIABLES
    scores,        \* the score of the latest evaluation
    open,          \* issues the filters let through
    reader,        \* the page the reader has and the one he asked for, and what he has seen
    changed,       \* history: the list changed since its first page was read
    changes

listVars == <<scores, open, reader, changed, changes>>

NoPage == [page |-> 0, asked |-> 0, pages |-> 0, items |-> <<>>, total |-> 0, seen |-> {},
           found |-> {}]

ListInit ==
    /\ scores = Scores /\ open = Item
    /\ reader = NoPage /\ changed = FALSE /\ changes = 0

Least(a, b) == IF a <= b THEN a ELSE b
Most(a, b) == IF a >= b THEN a ELSE b

-----------------------------------------------------------------------------
(* search *)

Literal == Matches \cap open

\* Best score first.
Orders ==
    {s \in SetToSeqs(Literal) : \A m, n \in DOMAIN s : m < n => scores[s[m]] >= scores[s[n]]}

Unbounded == PerPage = 0

PagesFor(n) == IF Unbounded THEN 1 ELSE Most(1, (n + PerPage - 1) \div PerPage)
LiteralPage(p) == Least(p, PagesFor(Cardinality(Literal)))

\* Mutant: the offset of the page that was asked for.
AskedOffset(p) == IF Unbounded THEN 0 ELSE p * PerPage
Offset(p) == IF Unbounded THEN 0 ELSE (p - 1) * PerPage

LiteralItems(order, p) ==
    LET size == IF Unbounded THEN MaxItems ELSE PerPage
    IN  SubSeq(order, Offset(p) + 1, Least(Offset(p) + size, Len(order)))

-----------------------------------------------------------------------------
(* _build_issue_context *)

\* The nearest of those that are not on the page; none when the embedding
\* service fails.
SemanticItems(items) ==
    LET near == (Near \cap open) \ ToSet(items)
    IN  {<<>>} \cup UNION {SetToSeqs(S) : S \in {T \in SUBSET near :
                              Cardinality(T) = Least(TopN, Cardinality(near))}}

CutToPage(items) ==
    IF PerPage > 0 /\ Len(items) > PerPage THEN SubSeq(items, 1, PerPage) ELSE items

\* Behind the results of the first page only, but counted on each.
Merged(p, items, semantic) == IF p = 1 THEN CutToPage(items \o semantic) ELSE items

\* The answer has the page it shows, which is not the one asked for beyond the last.
Request(asked, seen) ==
    \E order \in Orders :
       LET p == LiteralPage(asked)
           items == LiteralItems(order, p)
       IN  \E semantic \in SemanticItems(items) :
              LET total == Len(order) + Len(semantic)
                  page == Merged(p, items, semantic)
              IN  reader' = [page |-> p, asked |-> asked, items |-> page, total |-> total,
                             pages |-> IF semantic = <<>> \/ Unbounded THEN PagesFor(Len(order))
                                       ELSE Most(PagesFor(Len(order)), PagesFor(total)),
                             seen |-> seen \cup ToSet(page), found |-> ToSet(semantic)]

-----------------------------------------------------------------------------
(* The reader, and the issues *)

OpenList ==
    /\ Request(1, {})
    /\ changed' = FALSE
    /\ UNCHANGED <<scores, open, changes>>

TurnPage ==
    /\ reader.page > 0 /\ reader.page < reader.pages
    /\ Request(reader.page + 1, reader.seen)
    /\ UNCHANGED <<scores, open, changed, changes>>

Changes ==
    /\ changes < MaxChanges /\ changes' = changes + 1
    /\ changed' = TRUE
    /\ UNCHANGED reader

Evaluated(i) ==
    /\ Changes
    /\ \E n \in {Scores[j] : j \in Item} : scores' = [scores EXCEPT ![i] = n]
    /\ UNCHANGED open

CloseIssue(i) ==
    /\ Changes /\ i \in open /\ open' = open \ {i}
    /\ UNCHANGED scores

ListNext == OpenList \/ TurnPage \/ \E i \in Item : Evaluated(i) \/ CloseIssue(i)

ListSpec == ListInit /\ [][ListNext]_listVars

-----------------------------------------------------------------------------
(* Properties *)

ListTypeOK ==
    /\ open \subseteq Item /\ reader.seen \subseteq Item
    /\ ToSet(reader.items) \subseteq reader.seen

NoTies == \A i, j \in Literal : scores[i] = scores[j] => i = j

\* A reader who has turned all the pages, to the last or to one that does not come
\* any more, has seen every match, as long as the
\* list did not change meanwhile and no two issues tie; every page shows an
\* issue once and no more issues than a page holds; and what fits one page is
\* on it, what only the embedding has found behind the matches of the words.
PagesShowAll ==
    /\ PerPage > 0 => Len(reader.items) <= PerPage
    /\ IsInjective(reader.items)
    /\ ~changed /\ ~Unbounded =>
          /\ NoTies /\ reader.page > 0 /\ (reader.page = reader.pages \/ reader.page < reader.asked)
                => Literal \subseteq reader.seen
          /\ reader.page = 1 /\ reader.total <= PerPage =>
                /\ ToSet(reader.items) = Literal \cup reader.found
                /\ Len(reader.items) = reader.total
                /\ \A m, n \in DOMAIN reader.items :
                      reader.items[m] \in Literal /\ reader.items[n] \notin Literal => m < n
=============================================================================
