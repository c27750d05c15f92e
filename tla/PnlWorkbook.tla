----------------------------- MODULE PnlWorkbook -----------------------------
(***************************************************************************)
(* How Finance workbooks become the candidate rows of a P&L generation     *)
(* (scripts/import_store_pnl.py): the detail sheet is read line by line,   *)
(* lines of the same store and category are merged, what the consolidated  *)
(* sheet has beyond the detail becomes an "unallocated" row, and the       *)
(* result is compared with the manifest in which Finance declares every    *)
(* scope (company and month), its source file and its control totals.      *)
(*                                                                         *)
(* A cell is a number of half cents; a cell without a number is outside    *)
(* the domain of its line.  A digest is the content itself.                *)
(***************************************************************************)
EXTENDS Integers, Sequences, FiniteSets, SequencesExt, FiniteSetsExt, Folds

CONSTANTS
    Companies,
    Periods,        \* first days of months, as numbers
    Revenue,        \* revenue categories
    Costs,          \* cost and amortisation categories
    Sites,
    Inputs          \* what the directory and the manifest can hold

VARIABLES
    files,          \* the workbooks of the input directory, by path
    manifest,       \* the scopes Finance declares
    outcome         \* "running", "refused" or "staged"

vars == <<files, manifest, outcome>>

Codes == Revenue \union Costs
Other == "other"        \* a code that is no category
Blank == "blank"        \* no text, or a number in the code column
Unallocated == "unallocated"

Init ==
    /\ \E i \in Inputs : files = i.files /\ manifest = i.manifest
    /\ outcome = "running"

-----------------------------------------------------------------------------
(* The workbook.                                                           *)

\* money: half cents to cents, half up.
Money(v) == IF v >= 0 THEN (v + 1) \div 2 ELSE -((1 - v) \div 2)

\* detail_category: the code column, or the prefix of the composite one.
Category(line) ==
    IF line.code \in Codes THEN line.code
    ELSE IF line.composite \in Codes THEN line.composite ELSE line.code

\* The lines parse_workbook reads: with a category, a store and a location.
Read(book) ==
    SelectSeq(book.detail, LAMBDA l : Category(l) \in Codes /\ l.site # Blank)

\* The months in which some line has a value.
MonthsWithValues(book) ==
    {m \in Periods : \E i \in DOMAIN Read(book) :
        m \in DOMAIN Read(book)[i].cells /\ Read(book)[i].cells[m] # 0}

\* The lines of a month that become rows.
Detail(book, m) == {i \in DOMAIN Read(book) : m \in DOMAIN Read(book)[i].cells}

\* summary_category_code: a code, or the label where the code is no text.
SummaryCategory(line) ==
    IF line.code \in Codes THEN line.code
    ELSE IF line.code = Blank THEN line.label ELSE Other

\* parse_consolidated_rows for one month, in the order of the sheet.
Consolidated(book, m) ==
    LET L == SelectSeq(book.summary, LAMBDA l : SummaryCategory(l) \in Codes
                                                 /\ m \in DOMAIN l.cells)
    IN  [i \in DOMAIN L |-> [category |-> SummaryCategory(L[i]),
                             amount |-> Money(L[i].cells[m])]]

\* merged_rows: one row for every store and category of the month.
Merged(book, m) ==
    LET L == Read(book)
        keys == {<<L[i].site, Category(L[i])>> : i \in Detail(book, m)}
    IN  [k \in keys |->
           MapThenSumSet(LAMBDA i : Money(L[i].cells[m]),
                         {i \in Detail(book, m) : <<L[i].site, Category(L[i])>> = k})]

Detailed(rows, c) ==
    MapThenSumSet(LAMBDA k : rows[k], {k \in DOMAIN rows : k[2] = c})

Amounts(totals) == FoldSeq(LAMBDA t, sum : t.amount + sum, 0, totals)

\* The consolidated revenue is more than a cent below the detail.
BelowDetail(totals, rows) ==
    /\ totals # << >>
    /\ Amounts(SelectSeq(totals, LAMBDA t : t.category \in Revenue)) + 1
          < MapThenSumSet(LAMBDA c : Detailed(rows, c), Revenue)

\* unallocated_rows: what the consolidated sheet has beyond the detail, when
\* it is more than a cent.
Extra(totals, rows) ==
    SelectSeq([i \in DOMAIN totals |->
                 [category |-> totals[i].category,
                  amount |-> totals[i].amount - Detailed(rows, totals[i].category)]],
              LAMBDA t : t.amount > 1 \/ t.amount < -1)

-----------------------------------------------------------------------------
(* The candidate of a scope and the manifest.                              *)

Extras(book, m) == Extra(Consolidated(book, m), Merged(book, m))

Keys(book, m) ==
    DOMAIN Merged(book, m)
      \union {<<Unallocated, Extras(book, m)[i].category>> : i \in DOMAIN Extras(book, m)}

Count(book, m) == Cardinality(DOMAIN Merged(book, m)) + Len(Extras(book, m))

TotalAmount(book, m) ==
    Amounts(Extras(book, m))
      + MapThenSumSet(LAMBDA k : Merged(book, m)[k], DOMAIN Merged(book, m))

\* validate_scope_candidate: rows, no business key twice, and the control
\* totals and the coverage Finance declared.
Valid(decl, book, m) ==
    /\ Count(book, m) > 0
    /\ Cardinality(Keys(book, m)) = Count(book, m)
    /\ decl.count = Count(book, m)
    /\ decl.total = TotalAmount(book, m)
    /\ decl.coverage = Keys(book, m)

\* _parse_authority_scope and parse_authority_manifest: well-formed scopes, no
\* scope twice.
WellFormed ==
    /\ manifest # << >>
    /\ \A i \in DOMAIN manifest :
         /\ manifest[i].company \in Companies
         /\ manifest[i].cutoff >= manifest[i].period
         /\ manifest[i].complete
         /\ manifest[i].count > 0
    /\ \A i, j \in DOMAIN manifest :
         (manifest[i].company = manifest[j].company
           /\ manifest[i].period = manifest[j].period) => i = j

Declared == {[path |-> manifest[i].path, content |-> manifest[i].content] :
                i \in DOMAIN manifest}

\* The scopes a file holds are exactly the ones declared for it.
MonthsDeclared(path) ==
    {<<manifest[i].company, manifest[i].period>> :
        i \in {j \in DOMAIN manifest : manifest[j].path = path}}
      = {<<files[path].company, m>> : m \in MonthsWithValues(files[path])}

\* The observed sources are exactly the declared ones, by path and digest.
SourcesDeclared ==
    {[path |-> p, content |-> files[p]] : p \in DOMAIN files} = Declared

\* materialize_authority_rows.
Materializes ==
    /\ SourcesDeclared
    /\ \A p \in DOMAIN files : MonthsDeclared(p)
    /\ \A i \in DOMAIN manifest :
         LET book == files[manifest[i].path] IN
         /\ ~BelowDetail(Consolidated(book, manifest[i].period), Merged(book, manifest[i].period))
         /\ Valid(manifest[i], book, manifest[i].period)

\* discover: an empty directory is refused.
Discovered == DOMAIN files # {}

\* run_stage up to the database: stage_generation takes a batch for every
\* company only.
Stage ==
    /\ outcome = "running"
    /\ outcome' = IF /\ WellFormed
                     /\ Discovered
                     /\ Materializes
                     /\ {manifest[i].company : i \in DOMAIN manifest} = Companies
                  THEN "staged" ELSE "refused"
    /\ UNCHANGED <<files, manifest>>

Done == outcome # "running" /\ UNCHANGED vars

Next == Stage \/ Done

Spec == Init /\ [][Next]_vars

-----------------------------------------------------------------------------
\* What the sheets say, cell by cell, without the code's intermediate rows.

Lines(book) == {i \in DOMAIN book.detail :
                  /\ book.detail[i].site # Blank
                  /\ book.detail[i].code \in Codes \/ book.detail[i].composite \in Codes}

CodeOf(l) == CHOOSE c \in Codes : l.code = c \/ (l.code \notin Codes /\ l.composite = c)

CellsOf(book, m, c, s) ==
    {i \in Lines(book) : m \in DOMAIN book.detail[i].cells
        /\ CodeOf(book.detail[i]) = c /\ book.detail[i].site = s}

(* Type invariant: every path names a workbook and the outcome is one of   *)
(* three, decided for every input.                                         *)
TypeOK ==
    /\ \A p \in DOMAIN files : files[p].company \in Companies
    /\ \A p \in DOMAIN files, m \in Periods :
         DOMAIN Merged(files[p], m) \subseteq Sites \X Codes
    /\ outcome \in {"running", "refused", "staged"}

(* A staged candidate loses no cell of the detail sheet: the row of a store *)
(* and category is the sum of its cells, each rounded half up to a cent,   *)
(* and a month with a value in it is part of the batch (parse_workbook,    *)
(* merged_rows, materialize_authority_rows).                               *)
NoCellLost ==
    outcome = "staged" =>
        \A p \in DOMAIN files, m \in Periods :
          LET book == files[p] IN
          \A c \in Codes, s \in Sites :
            LET cells == CellsOf(book, m, c, s) IN
            (\E i \in cells : book.detail[i].cells[m] # 0) =>
              /\ \E d \in DOMAIN manifest : manifest[d].path = p /\ manifest[d].period = m
              /\ <<s, c>> \in DOMAIN Merged(book, m)
              /\ 2 * Merged(book, m)[<<s, c>>]
                   = MapThenSumSet(LAMBDA i : book.detail[i].cells[m]
                                      + (IF book.detail[i].cells[m] % 2 = 0 THEN 0
                                         ELSE IF book.detail[i].cells[m] > 0 THEN 1 ELSE -1),
                                   cells)

(* What is staged for a month agrees with the consolidated sheet: where a  *)
(* category has one consolidated line, its rows with the unallocated one   *)
(* add up to that line within a cent, and the revenue is never below the   *)
(* detail (unallocated_rows).                                              *)
AgreesWithConsolidated ==
    outcome = "staged" =>
        \A d \in DOMAIN manifest :
          LET book == files[manifest[d].path]
              m == manifest[d].period
              lines(c) == {i \in DOMAIN book.summary :
                             /\ SummaryCategory(book.summary[i]) = c
                             /\ m \in DOMAIN book.summary[i].cells}
              staged(c) == Detailed(Merged(book, m), c)
                             + Amounts(SelectSeq(Extras(book, m), LAMBDA t : t.category = c))
          IN \A c \in Codes : Cardinality(lines(c)) = 1 =>
               LET gap == staged(c) - Money(book.summary[CHOOSE i \in lines(c) : TRUE].cells[m])
               IN  gap \in -1..1

(* The store rows of a staged month never add up to more revenue than the  *)
(* company's own consolidated sheet shows, within a cent.                  *)
RevenueWithinConsolidated ==
    outcome = "staged" =>
        \A d \in DOMAIN manifest :
          LET book == files[manifest[d].path]
              m == manifest[d].period
              stores == MapThenSumSet(LAMBDA k : Merged(book, m)[k],
                                      {k \in DOMAIN Merged(book, m) : k[2] \in Revenue})
          IN  Consolidated(book, m) # << >> =>
                stores <= Amounts(SelectSeq(Consolidated(book, m),
                                            LAMBDA t : t.category \in Revenue)) + 1

(* A batch is staged only as Finance declared it: every file of the        *)
(* directory is declared with its content, no scope has two sources, and   *)
(* the number of rows and their total are the declared control totals.     *)
StagedAsDeclared ==
    outcome = "staged" =>
        /\ \A p \in DOMAIN files : \E d \in DOMAIN manifest :
             manifest[d].path = p /\ manifest[d].content = files[p]
        /\ \A d, e \in DOMAIN manifest :
             (manifest[d].company = manifest[e].company
               /\ manifest[d].period = manifest[e].period) => manifest[d].path = manifest[e].path
        /\ \A d \in DOMAIN manifest :
             LET book == files[manifest[d].path]
                 m == manifest[d].period
             IN  /\ book.company = manifest[d].company
                 /\ manifest[d].total = TotalAmount(book, m)
                 /\ manifest[d].coverage = Keys(book, m)
=============================================================================
