----------------------------- MODULE ProductPages -----------------------------
(***************************************************************************)
(* What the client keeps of LIST_PRODUCTS and how it shows it: rows in an  *)
(* array of fixed size, the categories seen in another one, a filter, and  *)
(* pages of the filtered rows (handle_list_products of client_tables.c).   *)
(* A row stands for a product, of which the category is kept; categories   *)
(* are different even when case is ignored, and "all" is none of them.     *)
(***************************************************************************)
EXTENDS Integers, Sequences, SequencesExt, FiniteSetsExt

CONSTANTS
  MaxShown,        \* length of products and filtered: 2048
  MaxCategories,   \* length of categories: 64
  PageSize         \* page_size: 10

ASSUME PagesAssumption ==
  MaxShown \in Nat /\ MaxCategories \in Nat /\ PageSize \in Nat \ {0}

NoListing == [rows |-> << >>, categories |-> {}]

\* A DATA row: nothing is kept when the array is full, and a category that does
\* not fit is not offered.
Store(listing, category) ==
  IF Len(listing.rows) >= MaxShown THEN listing
  ELSE [rows |-> Append(listing.rows, category),
        categories |-> IF Cardinality(listing.categories) < MaxCategories
                       THEN listing.categories \cup {category}
                       ELSE listing.categories]

\* The filter prompt is repeated until one of these is entered.
Filters(listing) == {"all"} \cup listing.categories

Filtered(listing, filter) ==
  FlattenSeq([i \in DOMAIN listing.rows |->
                IF filter \in {"all", listing.rows[i]} THEN <<listing.rows[i]>> ELSE << >>])

\* Mutant: the last page is only counted when it is full.
TotalPagesCut(count) == count \div PageSize

TotalPages(count) == (count + PageSize - 1) \div PageSize

\* The rows start_idx .. end_idx - 1 of page cur_page, counted from 0.
PageRows(rows, cur_page) ==
  SubSeq(rows, cur_page * PageSize + 1, Min({Len(rows), (cur_page + 1) * PageSize}))

\* 'n' and 'p' stop at the last and at the first page; other keys stay.
Turned(rows, cur_page) ==
  {cur_page}
    \cup (IF cur_page < TotalPages(Len(rows)) - 1 THEN {cur_page + 1} ELSE {})
    \cup (IF cur_page > 0 THEN {cur_page - 1} ELSE {})
===============================================================================
