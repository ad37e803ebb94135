---------------------------- MODULE SearchModal ----------------------------
(***************************************************************************)
(* The search of the documentation site (src/www/src/components/            *)
(* SearchModal.tsx): opened by a click or by the keyboard, it asks for the  *)
(* index of pages until it has it, and falls back to three entries.         *)
(*                                                                         *)
(* A request whose modal was closed is cancelled and its answer ignored, so *)
(* only the current one is kept here.  React renders what a settled request *)
(* set only after its last handler ran.                                     *)
(***************************************************************************)
EXTENDS Integers, Sequences, FiniteSets, SequencesExt

CONSTANTS
    Docs, Home, About, Compare,   \* entries, whose href is a number that orders as it does
    fallbackPages,                \* a sequence of entries
    Queries, NoQuery,
    Match(_, _),    \* entry, query -> [exact, starts, title, section, description, href,
                    \*                  titleParts, descriptionParts]
    Listed          \* how many results are listed

VARIABLES open, query, cursor, pages, loading, asking

searchVars == <<open, query, cursor, pages, loading, asking>>

(* The index that /search-index.json serves: every page of the docs and     *)
(* three more, by href.                                                     *)
entries == SetToSortSeq(Docs \cup {Home, About, Compare}, LAMBDA a, b : a.href < b.href)

If(cond, weight) == IF cond THEN weight ELSE 0

score(entry, q) ==
    LET m == Match(entry, q)
    IN  IF q = NoQuery THEN 1
        ELSE If(m.exact, 100) + If(m.starts, 60) + If(m.title, 40) + If(m.section, 20)
             + If(m.description, 12) + If(m.href, 6)
             + 10 * m.titleParts + 4 * m.descriptionParts

(* The entries that match, by score and then as they come. *)
filtered ==
    LET hits   == { i \in DOMAIN pages : score(pages[i], query) > 0 }
        ranked == SetToSortSeq(hits, LAMBDA i, j :
                    \/ score(pages[i], query) > score(pages[j], query)
                    \/ score(pages[i], query) = score(pages[j], query) /\ i < j)
        n == IF Len(ranked) < Listed THEN Len(ranked) ELSE Listed
    IN  [k \in 1 .. n |-> pages[ranked[k]]]

SearchInit ==
    /\ open = FALSE /\ query = NoQuery /\ cursor = 0
    /\ pages = fallbackPages /\ loading = FALSE /\ asking = FALSE

-----------------------------------------------------------------------------
(* The effects of opening: an empty query, and a request for the index as    *)
(* long as only the fallback is there.                                       *)
OpenSearch ==
    /\ ~open /\ open' = TRUE
    /\ query' = NoQuery /\ cursor' = 0
    /\ IF pages = fallbackPages THEN asking' = TRUE /\ loading' = TRUE
       ELSE UNCHANGED <<asking, loading>>
    /\ UNCHANGED pages

(* Closing cancels the request; loading stays as it is. *)
onClose ==
    /\ open /\ open' = FALSE /\ asking' = FALSE
    /\ UNCHANGED <<query, cursor, pages, loading>>

IndexArrives_RendersFirst ==
    /\ asking /\ asking' = FALSE
    /\ \E p \in {entries, fallbackPages} :
         pages' = p /\ loading' = (p = entries)
    /\ UNCHANGED <<open, query, cursor>>

(* The request settles: with the index, or with an error or an empty list,   *)
(* which keep the fallback.                                                  *)
IndexArrives ==
    /\ asking /\ asking' = FALSE
    /\ pages' \in {entries, fallbackPages}
    /\ loading' = FALSE
    /\ UNCHANGED <<open, query, cursor>>

Type(q) ==
    /\ open /\ query # q /\ query' = q /\ cursor' = 0
    /\ UNCHANGED <<open, pages, loading, asking>>

(* The arrow keys move over the results whether or not they are shown yet,   *)
(* and the mouse picks one that is.                                          *)
MoveCursor ==
    /\ open
    /\ LET n == Len(filtered)
       IN  \/ cursor' = IF cursor + 1 < n THEN cursor + 1 ELSE IF n = 0 THEN 0 ELSE n - 1
           \/ cursor' = IF cursor = 0 THEN 0 ELSE cursor - 1
           \/ ~loading /\ \E i \in 1 .. n : cursor' = i - 1
    /\ UNCHANGED <<open, query, pages, loading, asking>>

(* Enter or a click loads another page, and with it a new modal. *)
Go ==
    /\ open /\ cursor < Len(filtered)
    /\ open' = FALSE /\ query' = NoQuery /\ cursor' = 0
    /\ pages' = fallbackPages /\ loading' = FALSE /\ asking' = FALSE

SearchStep ==
    \/ OpenSearch \/ onClose \/ IndexArrives \/ MoveCursor \/ Go
    \/ \E q \in Queries : Type(q)

-----------------------------------------------------------------------------
(* An open search does not keep saying "Loading search index...", however    *)
(* often it was closed half-way and opened again and whatever the request    *)
(* for the index comes to.                                                   *)
SearchReady == open /\ loading ~> ~loading \/ ~open

(* The safety in SearchReady: an open search that says "Loading" has asked   *)
(* for the index, since a flag that an earlier closing left behind implies   *)
(* that the index has not come.                                              *)
IndexAwaited ==
    /\ loading => pages = fallbackPages
    /\ open /\ loading => asking
=============================================================================
