----------------------------- MODULE Pagination ------------------------------
(***************************************************************************)
(* A client that reads a list page by page, following next_key: the        *)
(* commits behind a branch (utils/commits.go), or the entries of a tree    *)
(* and the changes of a diff (utils/content.go, utils/diff.go, which       *)
(* paginate alike).  The first request has an offset, or none, and no key; *)
(* one with both is refused.  Trees and diffs belong to a commit and do    *)
(* not change; a branch can get new commits, in front of the others,       *)
(* between two pages.                                                      *)
(*                                                                         *)
(* Positions count from zero; the sums of a request's numbers wrap at the  *)
(* word's width.  git, which lists the commits, has ints of half of it.    *)
(***************************************************************************)
EXTENDS Integers, Sequences, FiniteSets

CONSTANTS Totals,        \* lengths of lists
          Offsets,       \* offsets of first requests
          Limits,        \* limits of requests, 0 for none
          DefaultLimit,
          PageWord,      \* 2^64
          GitWord,       \* 2^32: --skip and --max-count are an int of git's
          Subtrees,      \* positions of a tree's entries that are trees themselves
          MaxPushed      \* bound on the commits that come in between

ASSUME PagesAssumption ==
    /\ Totals \subseteq Nat /\ Offsets \subseteq Nat /\ Limits \subseteq Nat
    /\ Subtrees \subseteq Nat /\ DefaultLimit \in Nat \ {0} /\ PageWord \in Nat \ {0} /\ MaxPushed \in Nat
    /\ \A n \in Offsets \cup Limits \cup {DefaultLimit} : n < PageWord
    /\ GitWord \in Nat \ {0} /\ GitWord <= PageWord
    /\ \A n \in Totals : n + MaxPushed < GitWord \div 2    \* git can count them

VARIABLES
    list,     \* "commits", "entries" or "changes"
    total,    \* how many there are
    offset, limit, \* the client's request
    nextKey,  \* the last answer's next_key, or NoKey
    seen,     \* what the client was shown, in order
    more,     \* whether it will ask again
    pushed    \* commits that came in since its first request

pageVars == <<list, total, offset, limit, nextKey, seen, more, pushed>>

NoKey == -1
Plus(a, b) == (a + b) % PageWord
Least(a, b) == IF a < b THEN a ELSE b
From(a, b) == [i \in 1..(IF a < b THEN b - a ELSE 0) |-> a + i - 1]

PageLimit == IF limit = 0 THEN DefaultLimit ELSE limit

(* What stands at position i: commits are known by their age.               *)
At(i) == IF list = "commits" THEN total - i ELSE i

PagesInit ==
    /\ list \in {"commits", "entries", "changes"}
    /\ total \in Totals /\ offset \in Offsets /\ limit \in Limits
    /\ nextKey = NoKey
    /\ seen = <<>>
    /\ more = TRUE
    /\ pushed = 0

(* CommitHistory: git log --skip --max-count, of the request's numbers as   *)
(* signed ones.  git takes them for ints: with a negative one it skips      *)
(* nothing, or shows all.                                                   *)
AsInt(n) == LET w == n % GitWord IN IF w < GitWord \div 2 THEN w ELSE w - GitWord
CommitHistory(skip) ==
    LET first == IF AsInt(skip) < 0 THEN 0 ELSE AsInt(skip)
        count == AsInt(PageLimit)
    IN From(first, IF count < 0 THEN total ELSE Least(total, first + count))

(* A git that looks at the range refuses what is no int.                    *)
NoInt(n) == GitWord \div 2 <= n /\ n < PageWord - GitWord \div 2

(* PaginateCommitHistoryResponse.                                           *)
BugShownExclusive(start) ==
    LET shown == Plus(start, PageLimit)
    IN [page |-> CommitHistory(start), next |-> IF total > shown THEN Plus(shown, 1) ELSE NoKey]

CommitsPage(start) ==
    LET shown == Plus(start, PageLimit)
    IN [page |-> CommitHistory(start), next |-> IF total > shown THEN shown ELSE NoKey]

(* PaginateTreeContentResponse and PaginateDiffResponse with a key ...      *)
KeyedPage(key) ==
    [page |-> From(key, Least(total, key + PageLimit)),
     next |-> IF key + PageLimit < total THEN key + PageLimit ELSE NoKey]

(* ... and with an offset: the next key is set at end + 1.                  *)
OffsetPage ==
    LET end == Plus(offset, PageLimit)
        next == Plus(end, 1)
    IN [page |-> From(offset, Least(total, end)),
        next |-> IF offset <= next /\ end <= next /\ next < total THEN next ELSE NoKey]

Skip == IF nextKey = NoKey THEN offset ELSE nextKey
Answer ==
    IF list = "commits" THEN CommitsPage(Skip)
    ELSE IF nextKey = NoKey THEN OffsetPage ELSE KeyedPage(nextKey)

(* ContentHandler puts the trees of a page in front of its files: the k-th  *)
(* of either is the one with k - 1 of them before it.                       *)
IsTree(i) == i \in Subtrees
Sorted(page, kind) ==
    LET these == {i \in DOMAIN page : page[i] \in kind}
    IN [k \in 1..Cardinality(these) |->
          page[CHOOSE i \in these : Cardinality({j \in these : j < i}) = k - 1]]
Arranged(page) ==
    IF list = "entries" THEN Sorted(page, Subtrees) \o Sorted(page, Nat \ Subtrees)
    ELSE [i \in DOMAIN page |-> At(page[i])]

Show(a) ==
    /\ more
    /\ seen' = seen \o Arranged(a.page)
    /\ nextKey' = a.next
    /\ more' = (a.next # NoKey)
    /\ UNCHANGED <<list, total, offset, limit, pushed>>

NextPage == Show(Answer)

(* git log fails, and with it the request.                                  *)
GitRefuses ==
    /\ list = "commits" /\ more
    /\ NoInt(Skip) \/ NoInt(PageLimit)
    /\ nextKey' = NoKey /\ more' = FALSE
    /\ UNCHANGED <<list, total, offset, limit, seen, pushed>>

PushCommit ==
    /\ list = "commits" /\ more /\ seen # <<>> /\ pushed < MaxPushed
    /\ total' = total + 1
    /\ pushed' = pushed + 1
    /\ UNCHANGED <<list, offset, limit, nextKey, seen, more>>

PagesNext == NextPage \/ GitRefuses \/ PushCommit

PagesSpec == PagesInit /\ [][PagesNext]_pageVars

----------------------------------------------------------------------------
(* The request's numbers fit: git's ints for commits, the word otherwise.   *)
Fits == offset + PageLimit < IF list = "commits" THEN GitWord \div 2 ELSE PageWord
Wanted == {IF list = "commits" THEN total - pushed - i ELSE i : i \in offset..(total - pushed - 1)}
Shown == {seen[i] : i \in DOMAIN seen}

(* A client that has followed every next key has seen all there was behind  *)
(* its offset, commits also when others came in between, except one entry   *)
(* of a tree or diff: the first page's next key points past the entry that  *)
(* follows it (content.go:175, diff.go:202).                                *)
AllPagesSeen ==
    ~more /\ Fits =>
        Wanted \ Shown \subseteq IF list = "commits" THEN {} ELSE {offset + PageLimit}

(* Nothing is shown twice, or out of order, unless the list grew meanwhile: *)
(* in a tree, which is arranged page by page, that is the order of the      *)
(* trees and of the files.                                                  *)
Precedes(x, y) ==
    CASE list = "commits" -> x > y
      [] list = "changes" -> x < y
      [] list = "entries" -> x # y /\ (IsTree(x) = IsTree(y) => x < y)

SeenOnceInOrder ==
    Fits /\ pushed = 0 => \A i, j \in DOMAIN seen : i < j => Precedes(seen[i], seen[j])

(* A client that follows the next keys of CommitsHandler, ContentHandler or *)
(* GetDiff with numbers that fit gets the list it asked for: nothing left   *)
(* out but the one entry behind a first page of a tree or diff, and, unless *)
(* the list grew in between, nothing twice or out of order.                 *)
PagesAreTheList == AllPagesSeen /\ SeenOnceInOrder
=============================================================================
