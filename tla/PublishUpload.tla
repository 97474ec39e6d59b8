---------------------------- MODULE PublishUpload ----------------------------
(***************************************************************************)
(* One publish request from the page to its answer: the multipart body,    *)
(* the events of the parser, the file that is written to a temporary       *)
(* directory meanwhile, the checks of the handler, and what the page shows *)
(* in the end.  A file is counted in chunks.                               *)
(*                                                                         *)
(* The parser (busboy) is external: it reads one part after the other,     *)
(* cuts a file at the limit, and closes once the body is read.             *)
(***************************************************************************)
EXTENDS Integers, Sequences

CONSTANTS
  FileLimit,    \* maxBytes, in chunks
  MaxAttempts   \* bound: requests in a run

ASSUME UploadBounds == FileLimit \in Nat \ {0} /\ MaxAttempts \in Nat

VARIABLES
  page,       \* what the page shows
  attempts,   \* requests so far
  body,       \* what the parser has not read yet
  form,       \* what readPublishMedia has collected
  disk,       \* the file in the temporary directory, and its pipeline
  promise,    \* how the promise of readPublishMedia was settled
  handler,    \* the point the handler has reached
  answer,     \* the answer it has sent
  dir,        \* whether the temporary directory exists
  connected,  \* whether the client is still there
  published   \* history: what was published, as sent

request == <<body, form, disk, promise, handler, answer, dir, connected>>
uploadVars == <<page, attempts, request, published>>

-----------------------------------------------------------------------------
Size == 0 .. FileLimit + 1

Field(name, valid) == [name |-> name, valid |-> valid]
File(name, size) == [name |-> name, size |-> size]

IsFile(part) == part.name \in {"media", "file"}

\* uploadMedia sends both fields before the file.  The page refuses an invalid form
\* (validatePost) and a file that is too large for its type (mediaHintError).
PageBodies ==
  {<<Field("caption", TRUE), Field("price", TRUE), File("media", n)>> : n \in 0 .. FileLimit}

\* A file before the fields that are checked after it.
FileFirst ==
  {<<File("media", n), Field("price", p), Field("caption", c)>> :
      n \in Size, p \in BOOLEAN, c \in BOOLEAN}

OddBodies ==
  {<<>>, <<Field("caption", TRUE), Field("price", TRUE)>>,
   <<File("file", 1)>>, <<File("media", 1), File("media", 1)>>,
   <<File("media", 1), Field("caption", TRUE), Field("other", TRUE), Field("price", TRUE)>>}

\* What else a client of the API may send.
OtherBodies == FileFirst \cup OddBodies

NoForm == [caption |-> "none", price |-> "none", fields |-> 0, bytes |-> 0,
           mediaSeen |-> FALSE, limitExceeded |-> FALSE, streaming |-> 0]

NoFile == [state |-> "none", chunks |-> 0, open |-> FALSE]

NoRequest ==
  /\ body = <<>> /\ form = NoForm /\ disk = NoFile /\ promise = "pending"
  /\ handler = "none" /\ answer = "none" /\ dir = FALSE /\ connected = TRUE

UploadInit ==
  /\ page = "editing" /\ attempts = 0 /\ published = {}
  /\ NoRequest

-----------------------------------------------------------------------------
\* A request starts: mkdtemp, then readPublishMedia.
Send(bytes) ==
  /\ handler \in {"none", "ended"}
  /\ attempts < MaxAttempts
  /\ attempts' = attempts + 1
  /\ body' = bytes /\ form' = NoForm /\ disk' = NoFile /\ promise' = "pending"
  /\ handler' = "reading" /\ answer' = "none" /\ dir' = TRUE /\ connected' = TRUE
  /\ UNCHANGED published

\* publishSelected of the page; after an error the form is still there.
Publish ==
  /\ page \in {"editing", "failed"}
  /\ page' = "uploading"
  /\ \E bytes \in PageBodies : Send(bytes)

Request ==
  /\ page \in {"editing", "post", "duplicate"}
  /\ \E bytes \in OtherBodies : Send(bytes)
  /\ UNCHANGED page

-----------------------------------------------------------------------------
(* readPublishMedia *)

Reading == handler = "reading" /\ promise = "pending" /\ connected

Settle(outcome) == promise' = outcome

Kept(valid) == IF valid THEN "valid" ELSE "invalid"

\* The limit of fields of the parser.
FieldsFull == form.fields = 2

\* Two fields are read; a third one is beyond the limit of the parser.
ReadField ==
  /\ Reading /\ form.streaming = 0
  /\ body # <<>> /\ ~IsFile(Head(body))
  /\ LET part == Head(body) IN
     IF FieldsFull
       THEN Settle("invalid") /\ UNCHANGED form
       ELSE /\ form' = [form EXCEPT
                 !.fields = @ + 1,
                 !.caption = IF part.name = "caption" THEN Kept(part.valid) ELSE @,
                 !.price = IF part.name = "price" THEN Kept(part.valid) ELSE @]
            /\ UNCHANGED promise
  /\ body' = Tail(body)
  /\ UNCHANGED <<page, attempts, disk, handler, answer, dir, connected, published>>

\* The file event, and what the parser lets through of the file; a second file, or one
\* of another name, settles the promise.
ReadFile ==
  /\ Reading /\ form.streaming = 0
  /\ body # <<>> /\ IsFile(Head(body))
  /\ LET part == Head(body)
         through == IF part.size > FileLimit THEN FileLimit ELSE part.size IN
     IF part.name # "media" \/ form.mediaSeen
       THEN Settle("invalid") /\ UNCHANGED <<form, disk>>
       ELSE /\ form' = [form EXCEPT !.mediaSeen = TRUE, !.streaming = through,
                          !.limitExceeded = part.size > FileLimit]
            /\ disk' = [state |-> "writing", chunks |-> 0, open |-> TRUE]
            /\ UNCHANGED promise
  /\ body' = Tail(body)
  /\ UNCHANGED <<page, attempts, handler, answer, dir, connected, published>>

\* The body is not what its content type says.
ParserFails ==
  /\ Reading
  /\ Settle("invalid")
  /\ UNCHANGED <<page, attempts, body, form, disk, handler, answer, dir, connected, published>>

\* The parser gives a chunk to the pipeline; the disk may be behind.
StreamChunk ==
  /\ Reading /\ form.streaming > 0
  /\ form' = [form EXCEPT !.streaming = @ - 1, !.bytes = @ + 1]
  /\ UNCHANGED <<page, attempts, body, disk, promise, handler, answer, dir, connected, published>>

WriteChunk ==
  /\ disk.state = "writing"
  /\ disk.chunks < form.bytes
  /\ disk' = [disk EXCEPT !.chunks = @ + 1]
  /\ UNCHANGED <<page, attempts, body, form, promise, handler, answer, dir, connected, published>>

\* The pipeline is done when the stream has ended and all of it is written.
WriteEnds ==
  /\ disk.state = "writing" /\ promise \in {"pending", "closing"}
  /\ form.streaming = 0 /\ disk.chunks = form.bytes
  /\ disk' = [disk EXCEPT !.state = "done", !.open = FALSE]
  /\ UNCHANGED <<page, attempts, body, form, promise, handler, answer, dir, connected, published>>

\* A write that fails once the parser has closed, or has been destroyed, which closes it
\* too: the listener of close is there for the rejection of the pipeline.
WriteFails ==
  /\ disk.state = "writing" /\ promise # "pending"
  /\ disk' = [disk EXCEPT !.state = "failed", !.open = FALSE]
  /\ UNCHANGED <<page, attempts, body, form, promise, handler, answer, dir, connected, published>>

\* The close event of a body that is read.
ParserCloses ==
  /\ Reading /\ form.streaming = 0 /\ body = <<>>
  /\ promise' = "closing"
  /\ UNCHANGED <<page, attempts, body, form, disk, handler, answer, dir, connected, published>>

\* Variant: the listener of close does not wait for the file.
WrittenAnyhow == TRUE

\* Variant: a write that fails wakes nobody.
WrittenWell == disk.state \in {"none", "done"}

\* await fileWrite
Written == disk.state \in {"none", "done", "failed"}

OutcomeOfClose ==
  CASE disk.state = "failed" -> "invalid"
    [] disk.state # "failed" /\ form.limitExceeded -> "tooLarge"
    [] disk.state # "failed" /\ ~form.limitExceeded ->
         IF form.mediaSeen THEN "resolved" ELSE "invalid"

Resolve ==
  /\ promise = "closing"
  /\ Written
  /\ Settle(OutcomeOfClose)
  /\ UNCHANGED <<page, attempts, body, form, disk, handler, answer, dir, connected, published>>

-----------------------------------------------------------------------------
(* POST /api/posts/publish *)

\* An answer is sent, and the finally block follows it.
Answer(status) == answer' = status /\ handler' = "discarding"

\* The read failed, or one of the checks of the form does.
RefuseUpload ==
  /\ handler = "reading"
  /\ \/ promise = "invalid" /\ Answer("400")
     \/ promise = "tooLarge" /\ Answer("422")
  /\ UNCHANGED <<page, attempts, body, form, disk, promise, dir, connected, published>>

Accepted == handler = "reading" /\ promise = "resolved"

FormIsValid == form.caption = "valid" /\ form.price = "valid" /\ form.bytes > 0

CheckForm ==
  /\ Accepted
  /\ IF FormIsValid THEN handler' = "verifying" /\ UNCHANGED answer ELSE Answer("400")
  /\ UNCHANGED <<page, attempts, body, form, disk, promise, dir, connected, published>>

\* verifyMediaFile: what the bytes are is a matter of libraries.
VerifyMedia ==
  /\ handler = "verifying"
  /\ \/ handler' = "publishing" /\ UNCHANGED answer
     \/ Answer("422")
     \/ Answer("500")
  /\ UNCHANGED <<page, attempts, body, form, disk, promise, dir, connected, published>>

\* The use case, of which module Publication has the rest.
PublishPost ==
  /\ handler = "publishing"
  /\ \/ /\ published' = published \cup
              {[caption |-> form.caption, price |-> form.price, chunks |-> disk.chunks,
                bytes |-> form.bytes, cut |-> form.limitExceeded]}
        /\ Answer("201")
     \/ published # {} /\ Answer("409") /\ UNCHANGED published
     \/ Answer("500") /\ UNCHANGED published
  /\ UNCHANGED <<page, attempts, body, form, disk, promise, dir, connected>>

\* discardTempDir swallows its own failure.
DiscardTempDir ==
  /\ handler = "discarding"
  /\ handler' = "ended"
  /\ dir' \in {FALSE, dir}
  /\ disk' = [disk EXCEPT !.open = FALSE]
  /\ UNCHANGED <<page, attempts, body, form, promise, answer, connected, published>>

-----------------------------------------------------------------------------
(* The client *)

\* The page goes to the post of a 201 or of a 409, or shows an error.
PageAnswered ==
  /\ page = "uploading" /\ connected /\ answer # "none"
  /\ page' = CASE answer = "201" -> "post"
               [] answer = "409" -> "duplicate"
               [] OTHER -> "failed"
  /\ UNCHANGED <<attempts, request, published>>

\* The connection breaks, before or after the answer: nothing tells the parser, which
\* waits for the rest of a body that was not read.
ConnectionBreaks ==
  /\ connected /\ handler \notin {"none", "ended"}
  /\ connected' = FALSE
  /\ page' = IF page = "uploading" THEN "failed" ELSE page
  /\ UNCHANGED <<attempts, body, form, disk, promise, handler, answer, dir, published>>

\* The process ends with the request unanswered or its answer under way: nothing is
\* written any more, and the directory is nobody's.
ProcessEnds ==
  /\ handler' = "ended"
  /\ connected' = FALSE
  /\ disk' = [disk EXCEPT !.state = IF @ = "writing" THEN "failed" ELSE @, !.open = FALSE]
  /\ page' = IF page = "uploading" THEN "failed" ELSE page
  /\ UNCHANGED <<attempts, body, form, promise, answer, dir, published>>

\* A write that fails in the middle of the body: nobody listens to the rejection of the
\* pipeline until the parser closes, and a rejection nobody handles ends the process.
WriteFailsUnheard ==
  /\ disk.state = "writing" /\ promise = "pending"
  /\ ProcessEnds

\* The server stops.
ServerRestarts ==
  /\ handler \notin {"none", "ended"}
  /\ ProcessEnds

-----------------------------------------------------------------------------
ServerStep ==
  \/ ReadField \/ ReadFile \/ StreamChunk \/ WriteChunk \/ WriteEnds
  \/ ParserCloses \/ Resolve \/ RefuseUpload \/ CheckForm \/ VerifyMedia
  \/ PublishPost \/ DiscardTempDir

UploadNext ==
  \/ Publish \/ Request \/ PageAnswered
  \/ ServerStep
  \/ ParserFails \/ WriteFails \/ WriteFailsUnheard
  \/ ConnectionBreaks \/ ServerRestarts

UploadSpec == UploadInit /\ [][UploadNext]_uploadVars

\* The event loop runs every callback and the browser takes every answer.
UploadFairness == WF_uploadVars(ServerStep) /\ WF_uploadVars(PageAnswered)

-----------------------------------------------------------------------------
\* What is published is the whole file, within the limit, with a caption and a price
\* that were checked: no order of the events of the parser, the stream and the disk
\* hands a file to the use case that is cut or still being written.
PublishedIsWhole ==
  \A p \in published :
    /\ p.chunks = p.bytes /\ p.bytes > 0 /\ ~p.cut
    /\ p.caption = "valid" /\ p.price = "valid"

\* A request ends with an answer unless its connection goes, which it does when the
\* client leaves or the process ends; and the page leaves its progress bar in any case.
\* A failure of the disk is one of the two: an answer, or the end of the process.
UploadEnds ==
  /\ (handler = "reading") ~> ((handler = "ended" /\ answer # "none") \/ ~connected)
  /\ (page = "uploading") ~> (page # "uploading")

=============================================================================
