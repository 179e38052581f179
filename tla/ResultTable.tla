----------------------------- MODULE ResultTable -----------------------------
(***************************************************************************)
(* A table of results on an administrator's page: the rows of an SQL query *)
(* (db/script.js) or of visits (stats/script.js, which has the same        *)
(* fancyTable), sorted by a click on a column's header and searched in     *)
(* while one types.                                                        *)
(*                                                                         *)
(* Sorting and searching meet in the rows of the table's body: tableSort   *)
(* takes all of them out and puts them back, hidden ones too, and          *)
(* tableUpdate hides those that do not match and shows the others.         *)
(*                                                                         *)
(* Rows that are equal in the column keep their order.  sortFunction asks  *)
(* rowSortOrder for it, under the row's data("rowid"), which is gone after *)
(* the first sort (empty() drops the data of what it takes out): it then   *)
(* answers false, 0, for any two such rows, and it is Array.sort that is   *)
(* stable.  The model has the order of the body, which is what both give.  *)
(*                                                                         *)
(* Abstracted.  The value of a cell is a number, in the order sortFunction *)
(* gives to numbers, dates or strings; a search term is the values it is   *)
(* found in.  Pages of a table are switched off.                           *)
(***************************************************************************)
EXTENDS Integers, Sequences, SequencesExt

CONSTANTS
  Cells,       \* rows of the result: Seq(Seq(value))
  Terms,       \* search terms that are typed, each a set of values
  MaxClicks    \* bound: clicks on headers

\* All rows of a result have the columns of its first one.
ASSUME TableAssumption ==
  /\ Cells \in Seq(Seq(Int))
  /\ \A r \in DOMAIN Cells : DOMAIN Cells[r] = DOMAIN Cells[1]

Everything == {}    \* the empty search
NoColumn == 0

VARIABLES
  body,         \* rows in the order of the table's body
  hidden,       \* rows that are not displayed
  sortColumn,
  sortOrder,    \* 1 or -1
  search,
  queries,      \* how many queries are still sent
  clicks        \* history: Seq([column, order])

tableVars == <<body, hidden, sortColumn, sortOrder, search, queries, clicks>>

Rows == DOMAIN Cells
Columns == DOMAIN Cells[1]
Position(s, r) == CHOOSE k \in DOMAIN s : s[k] = r
-----------------------------------------------------------------------------
\* Mutant: equal rows turn round when the order does.
ComesTurned(a, b, column, order) ==
  \/ order * Cells[a][column] < order * Cells[b][column]
  \/ Cells[a][column] = Cells[b][column] /\ order * Position(body, a) < order * Position(body, b)

\* Does row a come before row b in a sort.
Comes(a, b, column, order) ==
  \/ order * Cells[a][column] < order * Cells[b][column]
  \/ Cells[a][column] = Cells[b][column] /\ Position(body, a) < Position(body, b)

\* All rows, in the order of the sort.
TableSort(column, order) ==
  body' \in {s \in SetToSeqs(Rows) :
              \A j, k \in DOMAIN s : j < k => Comes(s[j], s[k], column, order)}

Matches(r, term) == \/ term = Everything
                    \/ \E c \in Columns : Cells[r][c] \in term

TableUpdate(term) == hidden' = {r \in Rows : ~Matches(r, term)}

\* A header is clicked: the other way round if the table is sorted by the column already.
Click(column) ==
  LET order == IF sortColumn = column THEN -sortOrder ELSE 1 IN
  /\ body # << >> /\ Len(clicks) < MaxClicks
  /\ sortColumn' = column /\ sortOrder' = order
  /\ TableSort(column, order)
  /\ TableUpdate(search)
  /\ clicks' = Append(clicks, [column |-> column, order |-> order])
  /\ UNCHANGED <<search, queries>>

\* change, paste or keyup in the search field.
Type(term) ==
  /\ body # << >> /\ term # search
  /\ search' = term
  /\ TableUpdate(term)
  /\ UNCHANGED <<body, sortColumn, sortOrder, queries, clicks>>

\* A query is answered: the tables are made anew.
Answer ==
  /\ queries > 0
  /\ queries' = queries - 1
  /\ body' = [r \in Rows |-> r] /\ hidden' = {}
  /\ sortColumn' = NoColumn /\ sortOrder' = 1 /\ search' = Everything
  /\ clicks' = << >>
-----------------------------------------------------------------------------
TableInit(n) ==
  /\ queries = n
  /\ body = << >> /\ hidden = {}
  /\ sortColumn = NoColumn /\ sortOrder = 1 /\ search = Everything
  /\ clicks = << >>

TableNext ==
  \/ \E c \in Columns : Click(c)
  \/ \E t \in Terms \cup {Everything} : Type(t)
  \/ Answer
-----------------------------------------------------------------------------
(* Properties *)

\* "If sort values are of equal priority, sort by last order" (db/script.js:139): the rows are
\* ordered by the column clicked last, among equals by the one before it, and so on, each in
\* the direction its click gave, and rows that no click tells apart as the server sent them;
\* whatever was searched for in between.
SortedByClicks ==
  \A j, k \in DOMAIN body : j < k =>
    LET a == body[j]
        b == body[k]
        telling == {n \in DOMAIN clicks : Cells[a][clicks[n].column] # Cells[b][clicks[n].column]} IN
    IF telling = {} THEN a < b
    ELSE LET c == clicks[CHOOSE n \in telling : \A m \in telling : m <= n] IN
         c.order * Cells[a][c.column] < c.order * Cells[b][c.column]

=============================================================================
