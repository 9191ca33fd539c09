-------------------------------- MODULE Http --------------------------------
(***************************************************************************)
(* What goes over HTTP: copies from and to a server (HttpCopy) and         *)
(* listings (HttpListing).  The two share no state; the properties of the  *)
(* listing are named here for the run and the proofs about both.           *)
(***************************************************************************)
EXTENDS HttpCopy

CONSTANTS Links, Directories, LeftOut, Sizes, Date, Hash, FirstSlots,
          TagLimit, RowLimit, Rows, MaxRows, Old          \* HttpListing

VARIABLES parser, response, over, listing, rows, cut      \* HttpListing

page == <<parser, response, over, listing, rows, cut>>

Page == INSTANCE HttpListing WITH Refused <- LeftOut

\* What the constants of the listing have to be.
ASSUME PartsAssumption == Page!ConstantsAssumption

----------------------------------------------------------------------------
(* Properties of the listing *)

\* A listing says of every link of the page what its own rows say, however the
\* page arrives in pieces, and is whole unless the page was cut short.
ListsThePage == Page!ListsThePage

\* Every link that was met is found again in the index, however often it has
\* grown, and a search of the index ends.
IndexFindsEach == Page!IndexFindsEach
=============================================================================
