----------------------------- MODULE HttpListing -----------------------------
(***************************************************************************)
(* Listing an HTTP directory: http_list_progress of src/provider/http.c,   *)
(* the parser that reads the page while libcurl receives it, and the index *)
(* that makes every link one entry.                                        *)
(*                                                                         *)
(* A page is a sequence of characters.  The names of the tags, a date with *)
(* its time, a size with its unit and a link count as one character each.  *)
(* What the server says of a link, it says in a row, as nginx and Apache   *)
(* write them; rows are what the server sends, characters what is parsed.  *)
(***************************************************************************)
EXTENDS Integers, SequencesExt

CONSTANTS Links,        \* URLs in the root, not that of the page
          Directories,  \* those of them that end in "/"
          Refused,      \* hrefs add_link leaves out: other roots, queries, ".."
          Sizes, Date,
          Hash,         \* listing_hash
          FirstSlots,   \* 64
          TagLimit, RowLimit,
          Rows,         \* [text, link, size, dated, long] of a row
          MaxRows,      \* bound on the rows of a page
          RedirectLimit,
          Old,          \* the listing there was
          None

\* What the constants have to be.
Characters == UNION {Range(r.text) : r \in Rows}

ConstantsAssumption ==
    /\ \A r \in Rows : r.text \in Seq(Characters)
    /\ Directories \subseteq Links /\ Links \cap Refused = {} /\ Hash \in [Links -> Nat]
    /\ FirstSlots \in Nat \ {0, 1}
    /\ None \notin {"complete", "error", "returned"}

VARIABLES
    parser,     \* the HttpListingParser
    response,   \* what libcurl receives: its hop, status, and the text to come
    over,       \* how the transfer ended
    listing,    \* what the caller gets
    rows,       \* ghost: the rows of the last response
    cut         \* ghost: the page ended before its end

vars == <<parser, response, over, listing, rows, cut>>

Parent == [link |-> None, size |-> None, dated |-> FALSE]
Start == [tag |-> <<>>, quote |-> FALSE, row |-> <<>>, bytes |-> 0, entry |-> None,
          metadata |-> FALSE, table |-> FALSE, comment |-> FALSE, dashes |-> 0,
          items |-> <<>>, slots |-> <<>>, oversized |-> FALSE]

----------------------------------------------------------------------------
(* The index of the links *)

\* listing_slot: the slot of a link, or the free one it goes to.
Slot(slots, items, link) ==
    LET at(n) == ((Hash[link] + n) % Len(slots)) + 1
        ends == {n \in 0 .. Len(slots) - 1 : slots[at(n)] = 0 \/ items[slots[at(n)]].link = link}
    IN at(CHOOSE n \in ends : \A m \in ends : n <= m)

\* Mutant: the slots are copied to where they were.
Copied(slots, items, size) == [i \in 1 .. size |-> IF i <= Len(slots) THEN slots[i] ELSE 0]

Rehashed(slots, items, size) ==
    FoldLeft(LAMBDA new, index : IF index = 0 THEN new
                                 ELSE [new EXCEPT ![Slot(new, items, items[index].link)] = index],
             [i \in 1 .. size |-> 0], slots)

\* listing_grow_index, where all items but the first, "..", are in the index.
Grown(p) ==
    IF p.slots # <<>> /\ Len(p.items) - 1 < Len(p.slots) \div 2 THEN p.slots
    ELSE Rehashed(p.slots, p.items, IF p.slots = <<>> THEN FirstSlots ELSE 2 * Len(p.slots))

\* add_link
AddLink(p, href) ==
    IF href \in Refused THEN p
    ELSE LET slots == Grown(p)
             slot == Slot(slots, p.items, href)
             items == IF slots[slot] # 0 THEN p.items
                      ELSE Append(p.items, [link |-> href, size |-> None, dated |-> FALSE])
             index == IF slots[slot] # 0 THEN slots[slot] ELSE Len(items)
         IN [p EXCEPT !.items = items, !.slots = [slots EXCEPT ![slot] = index], !.entry = index]

----------------------------------------------------------------------------
(* Rows *)

Blank == {" ", "tab"}
From(text, accepts(_)) ==
    LET at == {i \in DOMAIN text : accepts(text[i])}
    IN IF at = {} THEN <<>> ELSE SubSeq(text, CHOOSE i \in at : \A j \in at : i <= j, Len(text))
Trimmed(text) == From(text, LAMBDA c : c \notin Blank)

\* Mutant: an empty cell is skipped.
AnyField(text, table) == Trimmed(text)

\* listing_size_field: in a table the field does not leave its cell.
Field(text, table) == From(text, LAMBDA c : IF table THEN c # " " ELSE c \notin Blank)

\* Where the size is: after the date; in a table in the cell after it.
SizeText(row, table) ==
    LET text == Trimmed(row)
        dated == text # <<>> /\ text[1] = Date
        rest == IF dated THEN Tail(text) ELSE From(row, LAMBDA c : c # " ")
        cell == From(rest, LAMBDA c : c = "tab")
    IN IF ~table THEN IF dated THEN rest ELSE row
       ELSE IF dated /\ cell # <<>> THEN Tail(cell)
       ELSE IF ~dated /\ rest # <<>> /\ rest[1] = "tab" THEN Tail(rest)
       ELSE IF dated THEN rest ELSE row

\* Mutant: what a row began is not forgotten.
KeepsEntry(p) == [p EXCEPT !.row = <<>>, !.bytes = 0]

NewRow(p) == [p EXCEPT !.row = <<>>, !.bytes = 0, !.entry = None, !.metadata = FALSE]

\* listing_finish_row: the first size and date given of an entry count.
FinishRow(p) ==
    LET text == Trimmed(p.row)
        field == Field(SizeText(p.row, p.table), p.table)
        item == p.items[p.entry]
        sized == item.size = None /\ item.link \notin Directories /\ field # <<>> /\ field[1] \in Sizes
        told == [item EXCEPT !.dated = item.dated \/ (text # <<>> /\ text[1] = Date),
                             !.size = IF sized THEN field[1] ELSE item.size]
    IN NewRow(IF p.entry = None \/ ~p.metadata THEN p ELSE [p EXCEPT !.items[p.entry] = told])

----------------------------------------------------------------------------
(* Characters: receive_listing_data *)

Noted(p, c) == IF p.metadata THEN [p EXCEPT !.row = Append(@, c)] ELSE p

\* listing_tag
Tag(p) ==
    LET name == p.tag[2]
        hrefs == {i \in 3 .. Len(p.tag) : p.tag[i] \in Links \cup Refused}
        done == FinishRow(p)
    IN CASE name \in {"tr", "/tr"} -> [done EXCEPT !.table = (name = "tr")]
         [] name = "br" -> done
         [] name = "/a" -> [p EXCEPT !.metadata = (p.entry # None)]
         [] name = "a" ->
              LET q == [done EXCEPT !.bytes = Len(p.tag)]
              IN IF hrefs = {} THEN q
                 ELSE AddLink(q, p.tag[CHOOSE i \in hrefs : \A j \in hrefs : i <= j])
         [] OTHER -> IF Len(p.row) < RowLimit THEN Noted(p, IF name = "/td" THEN "tab" ELSE " ") ELSE p

Comment(p, c) ==
    CASE c = ">" /\ p.dashes = 2 -> [p EXCEPT !.comment = FALSE, !.dashes = 0]
      [] c = "-" -> [p EXCEPT !.dashes = IF @ < 2 THEN @ + 1 ELSE 2]
      [] OTHER -> [p EXCEPT !.dashes = 0]

Text(p, c) ==
    IF c = "newline" /\ p.metadata /\ ~p.table THEN FinishRow(p)
    ELSE Noted(p, IF c = "newline" \/ (c = "tab" /\ p.table) THEN " " ELSE c)

\* A character of a tag; an unfinished one without an open quote is dropped
\* where another begins.
InTag(q, c) ==
    LET p == IF c = "<" /\ ~q.quote THEN [q EXCEPT !.tag = <<>>] ELSE q
        tag == Append(p.tag, c)
        quote == IF c = "quote" THEN ~p.quote ELSE p.quote
    IN IF Len(p.tag) = TagLimit THEN [p EXCEPT !.oversized = TRUE]
       ELSE IF tag = <<"<", "!", "-", "-">> THEN [Noted(p, " ") EXCEPT !.comment = TRUE, !.tag = <<>>]
       ELSE IF c = ">" /\ ~quote THEN [Tag([p EXCEPT !.tag = tag, !.quote = quote]) EXCEPT !.tag = <<>>]
       ELSE [p EXCEPT !.tag = tag, !.quote = quote]

Char(q, c) ==
    LET p == IF q.entry = None THEN q ELSE [q EXCEPT !.bytes = @ + 1]
    IN IF q.oversized THEN q
       ELSE IF p.entry # None /\ p.bytes > RowLimit THEN [p EXCEPT !.oversized = TRUE]
       ELSE IF p.comment THEN Comment(p, c)
       ELSE IF p.tag = <<>> /\ c # "<" THEN Text(p, c)
       ELSE InTag(p, c)

----------------------------------------------------------------------------
(* The transfer *)

Receiving == over = None

\* The status line; a redirection inside the root is followed, any other is
\* refused before it is asked for, or is not followed by an old libcurl.  The
\* hops count no more where a page begins.
Answer ==
    /\ Receiving /\ response.status = None
    /\ \/ \E status \in {"ok", "error"} : response' = [response EXCEPT !.status = status, !.hops = 0] /\ over' = over
       \/ IF response.hops < RedirectLimit
          THEN response' = [response EXCEPT !.hops = @ + 1] /\ over' = over
          ELSE response' = response /\ over' = "error"
       \/ response' = [response EXCEPT !.status = "redirect"] /\ over' = over
       \/ response' = response /\ over' = "scope"
    /\ UNCHANGED <<parser, listing, rows, cut>>

\* Another row comes from the server; a page that is not parsed has one.
Row ==
    /\ Receiving /\ response.status # None /\ response.text = <<>>
    /\ Len(rows) < IF response.status = "ok" THEN MaxRows ELSE 1
    /\ \E r \in Rows : rows' = Append(rows, r) /\ response' = [response EXCEPT !.text = r.text]
    /\ UNCHANGED <<parser, over, listing, cut>>

\* receive_listing_data of one character, or of all there is.
Data ==
    /\ Receiving /\ response.text # <<>>
    /\ \E n \in {1, Len(response.text)} :
         LET started == IF parser.items = <<>> THEN [parser EXCEPT !.items = <<Parent>>] ELSE parser
         IN /\ response' = [response EXCEPT !.text = SubSeq(@, n + 1, Len(@))]
            /\ parser' = IF response.status = "ok"
                         THEN FoldLeft(Char, started, SubSeq(response.text, 1, n)) ELSE parser
    /\ over' = IF parser'.oversized THEN "error" ELSE over
    /\ UNCHANGED <<listing, rows, cut>>

\* The user cancels, a timeout passes or the connection is lost.  The end of
\* a page is where HTTP says it is or, without length and chunks, wherever the
\* connection is closed.
EndOfTransfer ==
    /\ Receiving
    /\ \/ over' \in {"cancelled", "error"} /\ cut' = cut
       \/ over' = "complete" /\ response.status # None /\ cut' = (response.text # <<>>)
    /\ UNCHANGED <<parser, response, listing, rows>>

\* Mutant: the entries go to the caller as they come.
AsTheyCome(p) == p.items

Kept(p) == Old

\* The end of http_list_progress: the listing is replaced, or stays.
Return ==
    /\ ~Receiving /\ over # "returned"
    /\ listing' = IF over = "complete" /\ response.status = "ok"
                  THEN FinishRow(IF parser.items = <<>> THEN [parser EXCEPT !.items = <<Parent>>] ELSE parser).items
                  ELSE Kept(parser)
    /\ over' = "returned"
    /\ UNCHANGED <<parser, response, rows, cut>>

Init ==
    /\ parser = Start
    /\ response = [hops |-> 0, status |-> None, text |-> <<>>]
    /\ over = None /\ listing = Old /\ rows = <<>> /\ cut = FALSE

Next == Answer \/ Row \/ Data \/ EndOfTransfer \/ Return

Spec == Init /\ [][Next]_vars

----------------------------------------------------------------------------
(* Properties *)

\* What a page says of a link: the first size and any date.
Said(link) ==
    LET of == SelectSeq(rows, LAMBDA r : r.link = link)
        sized == SelectSeq(of, LAMBDA r : r.size # None)
    IN [link  |-> link,
        size  |-> IF sized = <<>> \/ link \in Directories THEN None ELSE sized[1].size,
        dated |-> \E i \in DOMAIN of : of[i].dated]

\* The links of a page in the order in which they first come.
FirstOf ==
    LET links == [i \in DOMAIN rows |-> rows[i].link]
        first == SelectSeq([i \in DOMAIN rows |-> i],
                           LAMBDA i : links[i] # None /\ \A j \in 1 .. i - 1 : links[j] # links[i])
    IN [i \in DOMAIN first |-> links[first[i]]]

\* A listing that succeeds has an entry for every link of the page, in their
\* order and each once, with the size and the date its own rows give it, never
\* those of another row, cell or comment; of a page that was cut short it has
\* the beginning, and no size or date that is not said.  Any other end, and a
\* page with a row over the limit, leave the listing there was.
ListsThePage ==
    over = "returned" /\ listing # Old =>
      LET said == [i \in DOMAIN FirstOf |-> Said(FirstOf[i])]
          entries == Tail(listing)
      IN /\ response.status = "ok"
         /\ \A i \in DOMAIN rows : rows[i].long => cut /\ i = Len(rows)
         /\ IF ~cut THEN entries = said
            ELSE /\ Len(entries) <= Len(said)
                 /\ \A i \in DOMAIN entries :
                      /\ entries[i].link = said[i].link
                      /\ entries[i].size \in {None, said[i].size}
                      /\ entries[i].dated => said[i].dated

\* Every entry but ".." is found in the index, however often it has grown, and
\* a slot is free, so that a search ends.
IndexFindsEach ==
    parser.slots # <<>> =>
      /\ \A i \in 2 .. Len(parser.items) :
           parser.slots[Slot(parser.slots, parser.items, parser.items[i].link)] = i
      /\ 0 \in Range(parser.slots)
=============================================================================
