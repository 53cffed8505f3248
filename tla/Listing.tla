------------------------------ MODULE Listing ------------------------------
(***************************************************************************)
(* page.go with ListStreamsPage and ListConsumersPage: a caller lists names *)
(* page by page while others create and delete what is listed. Each page    *)
(* asks for all the names again, sorts them, cuts its slice and then asks   *)
(* for one info after the other. A name is its place in the order.          *)
(***************************************************************************)
EXTENDS Integers, Sequences, FiniteSets, FiniteSetsExt, SequencesExt

CONSTANTS
    Names,      \* names there may be, in order
    Limits,     \* page sizes; 0 stands for a negative limit, the rest of the list
    MaxChanges  \* bound: names created or deleted during a listing

ASSUME ListingAssumption == Names \subseteq Nat /\ Limits \subseteq Nat /\ MaxChanges \in Nat

VARIABLES
    names,            \* on the server
    listing,          \* of the caller: where it is, its page and what it has
    created, deleted  \* history: changes since it began

listingVars == <<names, listing, created, deleted>>

ListingTypeOK ==
    /\ names \subseteq Names /\ created \subseteq Names /\ deleted \subseteq Names
    /\ listing.pc \in {"page", "info", "done", "error"} /\ listing.offset \in Nat

ListingInit ==
    /\ names \in SUBSET Names /\ created = {} /\ deleted = {}
    /\ listing \in [pc : {"page"}, limit : Limits, offset : {0}, total : {0}, page : {<<>>}, out : {<<>>}]

Changes == Cardinality(created) + Cardinality(deleted)

\* Others create a name that was not there, or delete one.
OthersChange(n) ==
    /\ listing.pc \in {"page", "info"} /\ Changes < MaxChanges
    /\ \/ n \notin names \cup deleted /\ names' = names \cup {n} /\ created' = created \cup {n} /\ UNCHANGED deleted
       \/ n \in names \ created /\ names' = names \ {n} /\ deleted' = deleted \cup {n} /\ UNCHANGED created
    /\ UNCHANGED listing

streamNames == SetToSortSeq(names, <)

\* Mutant: the page ends one name early.
pageSliceShort(items, offset, limit) ==
    IF limit = 0 THEN SubSeq(items, offset + 1, Len(items))
    ELSE SubSeq(items, offset + 1, Min({offset + limit, Len(items) - 1}))

pageSlice(items, offset, limit) ==
    IF limit = 0 THEN SubSeq(items, offset + 1, Len(items))
    ELSE SubSeq(items, offset + 1, Min({offset + limit, Len(items)}))

\* The caller stops at the total of the last page.
ListPage ==
    /\ listing.pc = "page"
    /\ listing' = IF listing.offset > 0 /\ (listing.limit = 0 \/ listing.offset >= listing.total)
                  THEN [listing EXCEPT !.pc = "done"]
                  ELSE [listing EXCEPT !.pc = "info", !.total = Cardinality(names),
                                       !.page = pageSlice(streamNames, listing.offset, listing.limit)]
    /\ UNCHANGED <<names, created, deleted>>

\* One info; a name that is gone by now is left out, any other error ends the listing.
FetchInfo ==
    /\ listing.pc = "info"
    /\ \/ /\ listing.page = <<>>
          /\ listing' = [listing EXCEPT !.pc = "page", !.offset = @ + Max({1, listing.limit})]
       \/ /\ listing.page # <<>>
          /\ listing' = [listing EXCEPT !.page = Tail(@),
                                        !.out = IF Head(listing.page) \in names THEN Append(@, Head(listing.page)) ELSE @]
       \/ listing.page # <<>> /\ listing' = [listing EXCEPT !.pc = "error"]
    /\ UNCHANGED <<names, created, deleted>>

ListingNext == ListPage \/ FetchInfo \/ \E n \in Names : OthersChange(n)
ListingSpec == ListingInit /\ [][ListingNext]_listingVars

-----------------------------------------------------------------------------
(* Property *)

Listed == {listing.out[i] : i \in DOMAIN listing.out}

\* A listing page by page leaves out no more of the names that were there all along than
\* were deleted meanwhile, and repeats no more than were created: pageInfos takes each
\* page from a new list, and a name that goes moves the ones behind it forward. A listing
\* in one page leaves out and repeats nothing.
ListingIsComplete ==
    listing.pc = "done" =>
        LET missed == (names \ created) \ Listed
            repeated == Len(listing.out) - Cardinality(Listed)
        IN IF listing.limit = 0 THEN missed = {} /\ repeated = 0
           ELSE Cardinality(missed) <= Cardinality(deleted) /\ repeated <= Cardinality(created)
=============================================================================
