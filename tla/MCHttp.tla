------------------------------- MODULE MCHttp -------------------------------
(***************************************************************************)
(* Model-checking instance of Http: a copy from or to a server, and a      *)
(* listing of up to three rows in the forms servers write them.  A         *)
(* behaviour is one of either; the other waits.                            *)
(***************************************************************************)
EXTENDS Http

VARIABLE part  \* which of them goes on

run_vars == <<part, vars, page>>

Tag(t) == <<"<", t, ">">>
A(link) == <<"<", "a", link, ">", "x">> \o Tag("/a")
Pre(link, text) == A(link) \o <<" ">> \o text \o <<"newline">>
Cells(link, cells) == Tag("tr") \o Tag("td") \o A(link) \o Tag("/td") \o cells \o Tag("/tr")
Cell(text) == Tag("td") \o text \o Tag("/td")
R(text, link, size, dated) == [text |-> text, link |-> link, size |-> size, dated |-> dated, long |-> FALSE]
LongText == [i \in 1 .. 30 |-> "x"]

\* Lines of nginx, with a size or none; a link to another root; rows of a
\* table, whose first number is the size, whose size cell may be empty, and
\* that may have no date; a directory; a comment with a link; a tag with a
\* quoted ">" in one that is not closed; a line beyond the limit.
MCRows ==
    {R(Pre("/u", <<"date", " ", "7k">>), "/u", "7k", TRUE),
     R(Pre("/w", <<"8k">>), "/w", "8k", FALSE),
     R(Pre("other", <<"date", " ", "8k">>), None, None, FALSE),
     R(Cells("/v", Cell(<<"date">>) \o Cell(<<"7k">>) \o Cell(<<"8k">>)), "/v", "7k", TRUE),
     R(Cells("/u", Cell(<<"date">>) \o Cell(<<>>) \o Cell(<<"8k">>)), "/u", None, TRUE),
     R(Cells("/w", Cell(<<" ">>) \o Cell(<<"8k">>)), "/w", None, FALSE),
     R(Pre("/d", <<"date", " ", "8k">>), "/d", None, TRUE),
     R(<<"<", "!", "-", "-">> \o A("/v") \o <<"7k", "-", "-", ">">>, None, None, FALSE),
     R(<<"<", "b", "<", "a", "quote", ">", "quote", "/v", ">">> \o Tag("/a") \o <<"newline">>, "/v", None, FALSE),
     [R(Pre("/u", LongText), "/u", None, FALSE) EXCEPT !.long = TRUE]}

\* Three links in two slots at first, two of which have the same hash.
MCHash == [link \in Links |->
             CASE link \in {"/u", "/v"} -> 1 [] link = "/w" -> 3 [] link = "/d" -> 2]

NoListing == <<>>

\* A libcurl that guards no request has the small buffer, with which most
\* downloads pause.  While the page is read the copy has still to begin.
RunInit ==
    /\ part \in {"copy", "page"}
    /\ Init /\ Page!Init
    /\ IF job.guarded THEN job.buffer = 2
       ELSE job.buffer = 1 /\ ~job.overwrite /\ job.from # Disk
    /\ part = "page" => job = [from |-> Disk, to |-> "repository", overwrite |-> TRUE,
                               guarded |-> TRUE, buffer |-> 2]

RunNext ==
    \/ part = "copy" /\ Next /\ UNCHANGED <<part, page>>
    \/ part = "page" /\ Page!Next /\ UNCHANGED <<part, vars>>

\* That of HttpCopy.
Copies == part = "copy" /\ UNCHANGED <<part, page>>
RunFairness ==
    /\ WF_run_vars(Copies /\ Program)
    /\ SF_run_vars(Copies /\ Download)
    /\ SF_run_vars(Copies /\ ~put.held /\ Upload)

RunSpec == RunInit /\ [][RunNext]_run_vars /\ RunFairness

=============================================================================
