------------------------------ MODULE HttpCopy ------------------------------
(***************************************************************************)
(* One copy whose source, destination or both are an HTTP repository: the  *)
(* read and upload handles of src/provider/http.c under the loop of        *)
(* nav_transfer_copy_with_buffer (src/transfer/transfer.c), or of a        *)
(* download, which the user may cancel.                                    *)
(*                                                                         *)
(* The program is one thread.  libcurl calls it back, and is itself driven *)
(* by the network, only inside curl_multi_perform: pc "receiving" and      *)
(* "sending".  curl_easy_pause(CONT) may call back as well, which is one   *)
(* call of curl_multi_perform more.  libcurl and the servers are external: *)
(* what they may do is what http.c has to expect of them.  A body ends     *)
(* where HTTP can tell it ends, so a connection lost in a body that has    *)
(* neither a length nor chunks is a shorter body.                          *)
(***************************************************************************)
EXTENDS Integers, Sequences, FiniteSetsExt

CONSTANTS Root,           \* URLs url_is_within_root accepts
          Outside,        \* URLs it does not
          Disk,           \* the source that is a local file
          Sources,        \* what the user copies
          Length,         \* longest resource, in blocks
          Buffers,        \* sizes of the transfer buffer, in blocks
          Chunk,          \* most blocks libcurl handles in one callback
          RedirectLimit,  \* HTTP_REDIRECT_LIMIT
          Other,          \* what another program uploaded
          None            \* no answer, no object, size not known

ASSUME SourcesAssumption ==
    Root \cap Outside = {} /\ Disk \notin Root /\ Sources \subseteq Root \cup {Disk}
ASSUME SizesAssumption ==
    Length \in Nat /\ Buffers \subseteq Nat \ {0} /\ Chunk \in Nat \ {0} /\ RedirectLimit \in Nat
ASSUME NoneAssumption ==
    /\ None \notin Nat /\ None \notin {"ok", "error"}
    /\ None \notin Root \X Nat /\ None # <<Other>>

VARIABLES
    job,      \* what is copied, and whether libcurl has a prerequest callback
    pc,       \* the next call
    frame,    \* locals of nav_transfer_copy_with_buffer
    read,     \* the HttpRead
    get,      \* the transfer libcurl makes for it
    write,    \* the HttpWrite
    put,      \* the transfer libcurl makes for it
    object,   \* the server's object at the destination
    asked,    \* ghost: URLs a request with the credential was sent to
    fed,      \* ghost: the blocks read has handed out
    stored    \* ghost: the last upload the server confirmed

source == <<read, get, asked>>
target == <<write, put, object, stored>>
vars == <<job, pc, frame, source, target, fed>>

Body(u, n) == [i \in 1 .. n |-> <<u, i>>]

\* nav_transfer_copy_with_buffer into a repository, or a download from one.
Jobs == [from      : Sources,
         to        : {"repository"},
         overwrite : BOOLEAN,
         guarded   : BOOLEAN,   \* libcurl 7.80: CURLOPT_PREREQFUNCTION
         buffer    : Buffers]
        \cup [from : Sources \ {Disk}, to : {"disk"}, overwrite : {FALSE},
              guarded : BOOLEAN, buffer : Buffers]

Buffer == job.buffer

Idle == [url |-> None, hops |-> 0, answer |-> None, location |-> None,
         length |-> 0, at |-> 0, held |-> FALSE, over |-> None]

Init ==
    /\ job \in Jobs
    /\ pc = "stat"
    /\ frame = [size |-> None, piece |-> <<>>, ok |-> FALSE, ended |-> FALSE, announced |-> FALSE]
    /\ read = [pending |-> <<>>, used |-> <<>>, outside |-> FALSE, paused |-> FALSE,
               complete |-> FALSE, failed |-> FALSE]
    /\ get = [Idle EXCEPT !.url = job.from]
    /\ write = [open |-> FALSE, input |-> <<>>, paused |-> FALSE,
                finishing |-> FALSE, complete |-> FALSE, failed |-> FALSE]
    /\ put = [taken |-> <<>>, eof |-> FALSE, held |-> FALSE,
              answer |-> None, over |-> None]
    /\ object = None   \* until OtherUploads
    /\ asked = {} /\ fed = <<>> /\ stored = None

Fail == pc' = "finish" /\ frame' = [frame EXCEPT !.ok = FALSE]

----------------------------------------------------------------------------
(* Requests and their answers *)

InRoot(u) == u \in Root

\* request_scope_guard aborts the transfer before the request is sent.
Sendable(u) == job.guarded => InRoot(u)

Ok(status) == status \in 200 .. 299

\* http_stat: libcurl itself follows the redirections of a HEAD, if it can
\* guard each of them.
StatHop ==
    /\ pc = "stat" /\ job.from # Disk
    /\ asked' = asked \cup {get.url}
    /\ \E u \in Root \cup Outside :
         IF job.guarded /\ get.hops < RedirectLimit /\ Sendable(u)
         THEN get' = [get EXCEPT !.url = u, !.hops = @ + 1] /\ UNCHANGED <<pc, frame>>
         ELSE Fail /\ UNCHANGED get
    /\ UNCHANGED <<job, read, target, fed>>

\* The length announced need not be that of the body read afterwards.
Stat ==
    /\ pc = "stat"
    /\ asked' = IF job.from = Disk THEN asked ELSE asked \cup {get.url}
    /\ get' = [Idle EXCEPT !.url = job.from]
    /\ \/ \E n \in 0 .. Length \cup (IF job.from = Disk THEN {} ELSE {None}) :
            frame' = [frame EXCEPT !.size = n] /\ pc' = "open"
       \/ Fail
    /\ UNCHANGED <<job, read, target, fed>>

\* http_open_read, then http_open_write: locals only, no request is sent yet.
\* Without overwrite the upload carries If-None-Match.
Open ==
    /\ pc = "open"
    /\ \/ /\ write' = [write EXCEPT !.open = (job.to = "repository")]
          /\ pc' = "read" /\ UNCHANGED frame
       \/ Fail /\ UNCHANGED write   \* no memory, vault locked
    /\ UNCHANGED <<job, source, put, object, fed, stored>>

----------------------------------------------------------------------------
(* http_read_cancellable, with libcurl under it *)

\* The next read of a local file: any blocks, its end, or an error.
ReadDisk ==
    /\ pc = "read" /\ job.from = Disk
    /\ \/ \E n \in 1 .. Min({Buffer, Length - Len(fed)}) :
            /\ frame' = [frame EXCEPT !.piece = SubSeq(Body(Disk, Length), Len(fed) + 1, Len(fed) + n)]
            /\ fed' = fed \o frame'.piece
            /\ pc' = "write"
       \/ pc' = "finish" /\ frame' = [frame EXCEPT !.ok = TRUE, !.ended = TRUE] /\ UNCHANGED fed
       \/ Fail /\ UNCHANGED fed
    /\ UNCHANGED <<job, source, target>>

\* Mutant: a paused transfer is not resumed.
NotContinued(transfer) == transfer

\* curl_easy_pause(easy, CURLPAUSE_CONT)
Continued(transfer) == [transfer EXCEPT !.held = FALSE]

\* What is pending goes first; a transfer paused for it goes on once it is
\* gone, unless it filled the buffer.
ReadStart ==
    /\ pc = "read" /\ job.from # Disk
    /\ LET n == Min({Buffer, Len(read.pending)})
           full == n = Buffer
           resumed == read.paused /\ n = Len(read.pending) /\ ~full
       IN /\ read' = [read EXCEPT !.used = SubSeq(read.pending, 1, n),
                                  !.pending = SubSeq(@, n + 1, Len(@)),
                                  !.paused = @ /\ ~resumed]
          /\ get' = IF resumed THEN Continued(get) ELSE get
          /\ pc' = IF full \/ read.complete THEN "returning" ELSE "loop"
    /\ UNCHANGED <<job, frame, asked, target, fed>>

ReadFails == read' = [read EXCEPT !.failed = TRUE] /\ Fail

\* One turn of the loop: a download may be cancelled before each.
ReadLoop ==
    /\ pc = "loop"
    /\ \/ pc' = "receiving" /\ UNCHANGED <<read, frame>>
       \/ job.to = "disk" /\ ReadFails
    /\ UNCHANGED <<job, get, asked, target, fed>>

Receiving == pc = "receiving" /\ get.over = None

\* The request is sent and its status line and headers arrive: read_header.
Answer ==
    /\ Receiving /\ get.answer = None
    /\ IF Sendable(get.url)
       THEN /\ asked' = asked \cup {get.url}
            /\ \/ \E n \in 0 .. Length : get' = [get EXCEPT !.answer = 200, !.length = n]
               \/ \E u \in Root \cup Outside : get' = [get EXCEPT !.answer = 302, !.location = u]
               \/ get' = [get EXCEPT !.answer = 401]
       ELSE get' = [get EXCEPT !.over = "error"] /\ UNCHANGED asked
    /\ UNCHANGED <<job, pc, frame, read, target, fed>>

\* Mutant: a chunk that comes while another is kept is taken as well.
NotKeeping == FALSE

Keeping == read.pending # <<>>

\* stream_data: what does not fit the buffer is kept, as far as it is not
\* copied at once; while some is kept libcurl keeps the next chunk.
StreamData ==
    /\ Receiving /\ Ok(get.answer) /\ ~get.held
    /\ \E n \in 1 .. Min({Chunk, get.length - get.at}) :
         LET data == SubSeq(Body(get.url, get.length), get.at + 1, get.at + n)
             room == Min({n, Buffer - Len(read.used)})
         IN IF ~InRoot(get.url)
            THEN /\ read' = [read EXCEPT !.outside = TRUE]
                 /\ get' = [get EXCEPT !.over = "error"]
            ELSE IF Keeping
            THEN /\ read' = [read EXCEPT !.paused = TRUE]
                 /\ get' = [get EXCEPT !.held = TRUE]
            ELSE /\ read' = [read EXCEPT !.used = @ \o SubSeq(data, 1, room),
                                         !.pending = SubSeq(data, room + 1, n)]
                 /\ get' = [get EXCEPT !.at = @ + n]
    /\ UNCHANGED <<job, pc, frame, asked, target, fed>>

\* libcurl is done with the transfer, or the connection fails or times out;
\* neither is noticed while it is paused.
Received ==
    /\ Receiving /\ ~get.held
    /\ get' \in {[get EXCEPT !.over = "error"]} \cup
                IF get.answer # None /\ get.at = get.length THEN {[get EXCEPT !.over = "ok"]} ELSE {}
    /\ UNCHANGED <<job, pc, frame, read, asked, target, fed>>

\* Mutant: a redirection is followed wherever it leads.
FollowsAnywhere(u) == get.hops < RedirectLimit

Follows(u) == get.hops < RedirectLimit /\ InRoot(u)

\* curl_multi_perform returns: read_completion, read_redirect, which makes
\* another request on the same handle, and the tests of the loop.
Performed ==
    /\ pc = "receiving"
    /\ IF get.over = "ok" /\ get.location # None
       THEN IF Follows(get.location)
            THEN /\ get' = [Idle EXCEPT !.url = get.location, !.hops = get.hops + 1]
                 /\ pc' = "loop" /\ UNCHANGED <<read, frame>>
            ELSE ReadFails /\ UNCHANGED get
       ELSE LET complete == get.over # None
            IN /\ read' = [read EXCEPT !.complete = complete]
               /\ pc' = IF Len(read.used) = Buffer \/ read.paused \/ complete
                        THEN "returning" ELSE "loop"
               /\ UNCHANGED <<get, frame>>
    /\ UNCHANGED <<job, asked, target, fed>>

\* Mutant: a transfer that failed passes for the end of the resource.
NeverIncomplete == read.complete /\ get.over = "ok" /\ ~Ok(get.answer)

\* A transfer may be complete although it brought nothing.
Incomplete ==
    \/ read.outside
    \/ read.complete /\ (get.over = "error" \/ ~Ok(get.answer) \/ ~InRoot(get.url))

\* The tests after the loop; nothing read is the end.  nav_download_copy
\* compares what it read with the size announced.
ReadReturns ==
    /\ pc = "returning"
    /\ IF Incomplete
       THEN ReadFails /\ UNCHANGED fed
       ELSE /\ read' = [read EXCEPT !.used = <<>>]
            /\ fed' = fed \o read.used
            /\ IF read.used # <<>>
               THEN frame' = [frame EXCEPT !.piece = read.used] /\ pc' = "write"
               ELSE /\ frame' = [frame EXCEPT !.ended = TRUE,
                                   !.ok = job.to = "disk" => frame.size \in {None, Len(fed)}]
                    /\ pc' = "finish"
    /\ UNCHANGED <<job, get, asked, target>>

----------------------------------------------------------------------------
(* http_write and http_close_write, with libcurl under them *)

\* The next piece goes to the upload, or into the local file.
Write ==
    /\ pc = "write"
    /\ IF job.to = "disk"
       THEN pc' = "read" /\ UNCHANGED <<write, put>>
       ELSE /\ write' = [write EXCEPT !.input = frame.piece, !.paused = FALSE]
            /\ put' = IF write.paused THEN Continued(put) ELSE put
            /\ pc' = "drive"
    /\ UNCHANGED <<job, frame, source, object, fed, stored>>

\* Mutant: asked after close, the handle knows nothing.
NeverStarted == FALSE

\* http_write_started
Started == write.open /\ put.taken # <<>>

\* The end of nav_transfer_copy_with_buffer: whether bytes were sent is asked
\* before close, which finishes an upload that did not fail, whatever stopped
\* the copy.
Finish ==
    /\ pc = "finish"
    /\ frame' = [frame EXCEPT !.announced = Started]
    /\ IF write.open /\ ~write.failed
       THEN /\ write' = [write EXCEPT !.finishing = TRUE, !.paused = FALSE, !.input = <<>>]
            /\ put' = IF write.paused THEN Continued(put) ELSE put
            /\ pc' = "drive"
       ELSE pc' = "cleanup" /\ UNCHANGED <<write, put>>
    /\ UNCHANGED <<job, source, object, fed, stored>>

\* upload_drive: the test of the loop.
Drive ==
    /\ pc = "drive"
    /\ pc' = IF ~write.complete /\ (write.finishing \/ write.input # <<>>)
             THEN "sending" ELSE "driven"
    /\ UNCHANGED <<job, frame, source, target, fed>>

Sending == pc = "sending" /\ put.over = None

\* libcurl takes no more than the size announced.
Left == IF frame.size = None THEN Chunk ELSE frame.size - Len(put.taken)

\* upload_read: with nothing to send the upload pauses, or ends when the
\* handle is being closed.
UploadRead ==
    /\ Sending /\ put.answer = None /\ ~put.held /\ ~put.eof /\ Left > 0
    /\ IF write.input # <<>>
       THEN \E n \in 1 .. Min({Chunk, Left, Len(write.input)}) :
              /\ put' = [put EXCEPT !.taken = @ \o SubSeq(write.input, 1, n)]
              /\ write' = [write EXCEPT !.input = SubSeq(@, n + 1, Len(@))]
       ELSE IF write.finishing
       THEN put' = [put EXCEPT !.eof = TRUE] /\ UNCHANGED write
       ELSE /\ write' = [write EXCEPT !.paused = TRUE]
            /\ put' = [put EXCEPT !.held = TRUE]
    /\ UNCHANGED <<job, pc, frame, source, object, fed, stored>>

\* Mutant: the request has no precondition.
NoPrecondition == FALSE

\* The request says If-None-Match: *
IfNoneMatch == ~job.overwrite

Refused == IfNoneMatch /\ object # None

\* The body is complete: all that was announced, or the last chunk.
Whole == IF frame.size = None THEN put.eof ELSE Len(put.taken) = frame.size

\* The server answers: at once if it refuses, else when it has everything.
\* upload_header
UploadAnswer ==
    /\ Sending /\ put.answer = None
    /\ \/ put' = [put EXCEPT !.answer = 405] /\ UNCHANGED <<object, stored>>
       \/ Refused /\ put' = [put EXCEPT !.answer = 412] /\ UNCHANGED <<object, stored>>
       \/ /\ Whole /\ ~Refused
          /\ put' = [put EXCEPT !.answer = 201]
          /\ object' = put.taken /\ stored' = put.taken
    /\ UNCHANGED <<job, pc, frame, source, write, fed>>

\* The answer ends the transfer.  A connection that fails before leaves what
\* the server makes of the part it got.
UploadOver ==
    /\ Sending
    /\ \/ put.answer # None /\ put' = [put EXCEPT !.over = "ok"] /\ UNCHANGED object
       \/ /\ put' = [put EXCEPT !.over = "error"]
          /\ object' \in {object} \cup
                IF put.answer # None \/ Refused THEN {}
                ELSE {SubSeq(put.taken, 1, k) : k \in 0 .. Len(put.taken)}
    /\ UNCHANGED <<job, pc, frame, source, write, fed, stored>>

\* curl_multi_perform returns: upload_completion and the tests of the loop.
UploadPerformed ==
    /\ pc = "sending"
    /\ write' = [write EXCEPT !.complete = put.over # None]
    /\ pc' = IF put.over # None \/ (~write.finishing /\ write.input = <<>>)
             THEN "driven" ELSE "drive"
    /\ UNCHANGED <<job, frame, source, put, object, fed, stored>>

\* Mutant: what the server did not take is dropped.
NoLeftover == FALSE

\* The transfer ended before it took all of the piece.
Leftover == write.complete /\ write.input # <<>>

\* What http_write and http_close_write make of it.
Driven ==
    /\ pc = "driven"
    /\ LET broken == write.complete /\ put.over = "error"
       IN IF write.finishing
          THEN /\ frame' = [frame EXCEPT !.ok = @ /\ ~broken /\ Ok(put.answer)]
               /\ pc' = "cleanup" /\ UNCHANGED write
          ELSE IF broken \/ Leftover
          THEN Fail /\ write' = [write EXCEPT !.failed = TRUE]
          ELSE pc' = "read" /\ write' = [write EXCEPT !.input = <<>>] /\ UNCHANGED frame
    /\ UNCHANGED <<job, source, put, object, fed, stored>>

\* A failed copy removes the destination it opened: http_remove, which the
\* repository may not offer (NAV_CAP_DELETE) and the server refuse.
Cleanup ==
    /\ pc = "cleanup"
    /\ pc' = "done"
    /\ IF write.open /\ ~frame.ok THEN object' \in {None, object} ELSE UNCHANGED object
    /\ UNCHANGED <<job, frame, source, write, put, fed, stored>>

\* Another client of the server.  It may act at any time; that is told apart
\* only where the object is looked at next.
OtherUploads ==
    /\ pc \in {"sending", "cleanup"} /\ job.to = "repository"
    /\ object # <<Other>> /\ object' = <<Other>>
    /\ UNCHANGED <<job, pc, frame, source, write, put, fed, stored>>

----------------------------------------------------------------------------
Program ==
    \/ StatHop \/ Stat \/ Open
    \/ ReadDisk \/ ReadStart \/ ReadLoop \/ Performed \/ ReadReturns
    \/ Write \/ Finish \/ Drive \/ UploadPerformed \/ Driven \/ Cleanup

Download == Answer \/ StreamData \/ Received

Upload == UploadRead \/ UploadAnswer \/ UploadOver

Next == Program \/ Download \/ Upload \/ OtherUploads

\* The program runs, and polls.  A transfer libcurl has not paused goes on,
\* or is given up: CURLOPT_CONNECTTIMEOUT and CURLOPT_LOW_SPEED_TIME.
Fairness == WF_vars(Program) /\ SF_vars(Download) /\ SF_vars(~put.held /\ Upload)

Spec == Init /\ [][Next]_vars /\ Fairness

----------------------------------------------------------------------------
(* Properties *)

Blocks == (Root \cup {Disk}) \X Nat
Stages == {"stat", "open", "read", "loop", "receiving", "returning", "write",
           "finish", "drive", "sending", "driven", "cleanup", "done"}

\* Every variable has its type.
Urls == Root \cup {Disk}
Places == Root \cup Outside \cup {None}
Amounts == 0 .. Length
Ends == {None, "ok", "error"}
Answers == {None, 200, 302, 401}
UploadAnswers == {None, 201, 405, 412}
Frames == [size : Amounts \cup {None}, piece : Seq(Blocks),
           ok : BOOLEAN, ended : BOOLEAN, announced : BOOLEAN]
Reads == [pending : Seq(Blocks), used : Seq(Blocks), outside : BOOLEAN,
          paused : BOOLEAN, complete : BOOLEAN, failed : BOOLEAN]
Gets == [url : Urls, hops : Nat, answer : Answers, location : Places,
         length : Amounts, at : Amounts, held : BOOLEAN, over : Ends]
Writes == [open : BOOLEAN, input : Seq(Blocks), paused : BOOLEAN,
           finishing : BOOLEAN, complete : BOOLEAN, failed : BOOLEAN]
Puts == [taken : Seq(Blocks), eof : BOOLEAN, held : BOOLEAN,
         answer : UploadAnswers, over : Ends]

TypeOK ==
    /\ job \in Jobs /\ pc \in Stages /\ frame \in Frames
    /\ read \in Reads /\ get \in Gets
    /\ write \in Writes /\ put \in Puts
    /\ object \in Seq(Blocks) \cup {None, <<Other>>}
    /\ asked \subseteq Root \cup Outside
    /\ fed \in Seq(Blocks)
    /\ stored \in Seq(Blocks) \cup {None}

\* What a Use once credential or a credential of a repository is for: no
\* request goes to a URL outside the root, however the servers redirect it.
HopsStayInRoot == asked \subseteq Root

\* What read hands out, one buffer after another, is one resource of the root
\* in order and without a gap, and it reports the end after all of it only.
Served == IF job.from # Disk /\ pc # "stat" /\ Ok(get.answer) THEN <<get.url, get.length>> ELSE None
Stream == INSTANCE ByteStream WITH
    Resource <- [r \in Root \X (0 .. Length) |-> Body(r[1], r[2])],
    Unserved <- None,
    served   <- Served,
    given    <- IF Served = None THEN <<>> ELSE fed,
    phase    <- IF read.failed THEN "failed"
                ELSE IF Served # None /\ frame.ended THEN "ended" ELSE "reading"
ReadIsStream == Stream!Spec

\* A copy that reports success has read its source to the end, as many
\* blocks as were announced, and the server confirmed exactly those.
SuccessIsWhole ==
    pc = "done" /\ frame.ok =>
        /\ frame.ended /\ frame.size \in {None, Len(fed)}
        /\ job.to = "repository" => stored = fed

\* When a copy failed and left a part of the source in place of the
\* destination, the user is told that it may have.
FragmentIsAnnounced ==
    pc = "done" /\ ~frame.ok /\ object \notin {None, <<Other>>, <<>>} => frame.announced

\* An upload that was not allowed to overwrite never replaces what another
\* client uploaded, whenever it did.
PutKeepsOthers ==
    [][job.overwrite \/ object # <<Other>> \/ object' \in {object, None}]_vars

\* Nor does its clean-up remove that: transfer.c says there is no remote
\* DELETE operation.
CleanupSparesOthers ==
    [][job.overwrite \/ object # <<Other>> \/ object' = object]_vars

\* Every copy that has begun ends, paused or redirected however often.
CopyEnds == pc # "stat" ~> pc = "done"
=============================================================================
