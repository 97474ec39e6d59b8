----------------------------- MODULE MediaRange -----------------------------
(***************************************************************************)
(* One request for the media of a post, from the row to the last byte: who *)
(* may have it, which bytes a Range header names, and what is answered     *)
(* when the post is deleted or the storage fails on the way.               *)
(***************************************************************************)
EXTENDS Integers, FiniteSets

CONSTANTS
  MaxSize,      \* bound: bytes of a media
  MaxSafe,      \* Number.MAX_SAFE_INTEGER
  MaxPosition   \* bound: positions and counts that a header names

ASSUME SizesAreSafe == MaxSize \in Nat /\ MaxSafe \in Nat /\ MaxSize <= MaxSafe
ASSUME MaxPositionIsNat == MaxPosition \in Nat

VARIABLES
  request,   \* the method, the header, the size in the row, what the viewer may see
  fetch,     \* where the handler is
  listed,    \* whether the post's row is there
  stored,    \* whether its object is there
  response,  \* status, first and last byte of a part, Content-Length
  sent       \* bytes written to the socket

mediaVars == <<request, fetch, listed, stored, response, sent>>

-----------------------------------------------------------------------------
(* Range headers *)

\* A header names a first byte, a first and a last one, or how many bytes at the end;
\* a malformed one names none, and without a header the whole media is meant.
Headers ==
  {[kind |-> "none"], [kind |-> "malformed"]}
    \cup [kind : {"from"}, first : 0 .. MaxPosition]
    \cup [kind : {"between"}, first : 0 .. MaxPosition, last : 0 .. MaxPosition]
    \cup [kind : {"suffix"}, count : 0 .. MaxPosition]

Invalid == [start |-> 0, end |-> -1]

RangeStart(header, size) ==
  IF header.kind # "suffix" THEN header.first
  ELSE IF header.count < size THEN size - header.count ELSE 0

RangeEnd(header, size) == IF header.kind = "between" THEN header.last ELSE size - 1

\* Variant: the last byte is not cut to the size of the media.
CutNever(last, size) == last

\* Math.min(end, size - 1).
Cut(last, size) == IF last < size THEN last ELSE size - 1

\* Number.isSafeInteger: a longer row of digits is read as a number beyond, or Infinity.
IsSafe(n) == n <= MaxSafe

\* parseRange, of a header.
ParseRange(header, size) ==
  IF \/ header.kind = "malformed"
     \/ ~ IsSafe(RangeStart(header, size))
     \/ ~ IsSafe(RangeEnd(header, size))
     \/ RangeStart(header, size) >= size
     \/ RangeEnd(header, size) < RangeStart(header, size)
  THEN Invalid
  ELSE [start |-> RangeStart(header, size), end |-> Cut(RangeEnd(header, size), size)]

\* What the header means: the bytes it names among those of the media.
Named(header, size) ==
  {b \in 0 .. size - 1 :
     CASE header.kind = "none" -> TRUE
       [] header.kind = "from" -> header.first <= b
       [] header.kind = "between" -> header.first <= b /\ b <= header.last
       [] header.kind = "suffix" -> size - header.count <= b
       [] OTHER -> FALSE}

-----------------------------------------------------------------------------
(* The handler *)

Requests ==
  [method : {"GET", "HEAD"}, header : Headers, size : 0 .. MaxSize,
   viewer : {"anyone", "stranger", "entitled"}, free : BOOLEAN]

NoResponse == [status |-> 0, start |-> 0, end |-> -1, length |-> 0]

MediaStarts(requests) ==
  /\ request \in requests
  /\ fetch = "row"
  /\ listed \in BOOLEAN
  /\ stored = listed
  /\ response = NoResponse
  /\ sent = 0

MediaInit == MediaStarts(Requests)

Answer(status) ==
  /\ response' = [NoResponse EXCEPT !.status = status]
  /\ fetch' = "done"

\* isFreePost, the session, and then the creator's, a buyer's or a member's access.
Refusal ==
  IF request.free \/ request.viewer = "entitled" THEN 0
  ELSE IF request.viewer = "anyone" THEN 401 ELSE 403

ReadRow ==
  /\ fetch = "row"
  /\ IF ~ listed THEN Answer(404)
     ELSE IF Refusal # 0 THEN Answer(Refusal)
     ELSE fetch' = "range" /\ UNCHANGED response
  /\ UNCHANGED <<request, listed, stored, sent>>

Part == ParseRange(request.header, request.size)

Whole == request.header.kind = "none"

Unsatisfiable == ~ Whole /\ Part = Invalid

\* A part that does not exist is refused before the storage is asked.
RefuseRange ==
  /\ fetch = "range"
  /\ Unsatisfiable
  /\ Answer(416)
  /\ UNCHANGED <<request, listed, stored, sent>>

\* The object's head and the bytes; a HEAD request reads them and sends none.
FetchObject ==
  /\ fetch = "range"
  /\ ~ Unsatisfiable
  /\ stored
  /\ response' =
       IF Whole THEN [status |-> 200, start |-> 0, end |-> -1, length |-> request.size]
       ELSE [status |-> 206, start |-> Part.start, end |-> Part.end,
             length |-> Part.end - Part.start + 1]
  /\ fetch' = IF request.method = "HEAD" THEN "done" ELSE "stream"
  /\ UNCHANGED <<request, listed, stored, sent>>

\* The object is gone, or the storage fails.
FetchFails ==
  /\ fetch = "range"
  /\ ~ Unsatisfiable
  /\ Answer(502)
  /\ UNCHANGED <<request, listed, stored, sent>>

\* The stream holds the bytes of the part and ends with the last.
Chunk ==
  /\ fetch = "stream"
  /\ sent < response.length
  /\ sent' \in sent + 1 .. response.length
  /\ UNCHANGED <<request, fetch, listed, stored, response>>

StreamEnds ==
  /\ fetch = "stream"
  /\ sent = response.length
  /\ fetch' = "done"
  /\ UNCHANGED <<request, listed, stored, response, sent>>

\* An error before the first byte is answered; later the connection is destroyed, as it
\* is when the client goes away.
StreamFails ==
  /\ fetch = "stream"
  /\ \/ sent = 0 /\ Answer(504)
     \/ sent > 0 /\ fetch' = "cut" /\ UNCHANGED response
  /\ UNCHANGED <<request, listed, stored, sent>>

\* deletePost: the row, then the object.
RemoveRow ==
  /\ listed
  /\ listed' = FALSE
  /\ UNCHANGED <<request, fetch, stored, response, sent>>

RemoveObject ==
  /\ ~ listed /\ stored
  /\ stored' = FALSE
  /\ UNCHANGED <<request, fetch, listed, response, sent>>

MediaNext ==
  \/ ReadRow \/ RefuseRange \/ FetchObject \/ FetchFails
  \/ Chunk \/ StreamEnds \/ StreamFails
  \/ RemoveRow \/ RemoveObject

MediaSpec == MediaInit /\ [][MediaNext]_mediaVars

-----------------------------------------------------------------------------
(* Properties *)

\* A last byte that is no safe integer.  A first byte or a count of such a size is no
\* matter: the one lies beyond every media, the other asks for all of it.
Overlong(header) == header.kind = "between" /\ ~ IsSafe(header.last)

\* A part is exactly the bytes that the header names, a whole media is all of them, a
\* refusal of the range means that the header names none, unless its last byte is no safe
\* integer, and a response that ends undisturbed has sent as many bytes as it announced.
RangeServed ==
  LET named == Named(request.header, request.size) IN
  /\ response.status = 206 =>
       /\ named = response.start .. response.end
       /\ response.length = Cardinality(named)
  /\ response.status = 200 => Whole /\ response.length = Cardinality(named)
  /\ response.status = 416 => named = {} \/ Overlong(request.header)
  /\ sent <= response.length
  /\ (fetch = "done" /\ response.status \in {200, 206} /\ request.method = "GET")
       => sent = response.length

=============================================================================
