----------------------------- MODULE Publication -----------------------------
(***************************************************************************)
(* Publishing and deleting posts: the publish and delete use cases, the    *)
(* blurred previews, the tables posts and pending_publications, and the    *)
(* object storage that all of them share.                                  *)
(*                                                                         *)
(* The key of an object is derived from the creator and the digest of the  *)
(* bytes, not from the post: the requests that publish the same media, and *)
(* the deletion of the post it had before, work on one object.  A `media'  *)
(* is that pair of creator and digest.                                     *)
(*                                                                         *)
(* A publish request creates the id of its post, so it is named by it, and *)
(* so is the one deletion of that post that finds its row.                 *)
(***************************************************************************)
EXTENDS Integers, FiniteSets

CONSTANTS
  Media,       \* creator and digest of the bytes; one storage key each
  Post,        \* post ids, each of one publish request
  None,        \* absence of a media
  Deletable,   \* bound: posts that the creator deletes in a run
  Viewer,      \* concurrent calls of ensure
  PendingTtl,  \* pendingTtlMs
  MaxClock,    \* bound: the last instant of a run
  MaxFaults    \* bound: failures of calls and processes in a run

ASSUME NoneIsNoMedia == None \notin Media
ASSUME DeletablePosts == Deletable \subseteq Post
ASSUME PublicationBounds ==
  PendingTtl \in Nat \ {0} /\ MaxClock \in Nat /\ MaxFaults \in Nat

VARIABLES
  clock,      \* Date.now()
  posts,      \* table posts
  reserved,   \* table pending_publications: id -> expires_at, 0 for no row
  objects,    \* media stored in the bucket
  previews,   \* media whose preview is stored in the bucket
  publisher,  \* the publish request of each id
  deletion,   \* the delete request that removed each post
  viewer,     \* the state of each call of ensure
  inflight,   \* media whose preview is being generated
  faults      \* failures so far

tables == <<posts, reserved>>
bucket == <<objects, previews>>
viewing == <<viewer, inflight>>
vars == <<clock, tables, bucket, publisher, deletion, viewing, faults>>

-----------------------------------------------------------------------------
PublisherState ==
  [pc : {"new", "prune", "lookup", "reserve", "put", "release", "discard",
         "commit", "abort", "drop", "find", "created", "duplicate", "failed"},
   media : Media \cup {None}, now : Nat]

ViewerState == [pc : {"idle", "miss", "source", "store"},
                media : Media \cup {None}]

\* Tables, bucket, processes and clock hold what the code puts into them: a prune
\* leaves rows or nothing.
TypeOK ==
  /\ clock \in Nat
  /\ posts \subseteq Post
  /\ reserved \in [Post -> Nat]
  /\ objects \subseteq Media
  /\ previews \subseteq Media
  /\ publisher \in [Post -> PublisherState]
  /\ deletion \in [Post -> {"none", "media", "preview", "done", "stopped"}]
  /\ viewer \in [Viewer -> ViewerState]
  /\ inflight \subseteq Media
  /\ faults \in Nat

Init ==
  /\ clock = 0
  /\ posts = {}
  /\ reserved = [p \in Post |-> 0]
  /\ objects = {}
  /\ previews = {}
  /\ publisher = [p \in Post |-> [pc |-> "new", media |-> None, now |-> 0]]
  /\ deletion = [p \in Post |-> "none"]
  /\ viewer = [v \in Viewer |-> [pc |-> "idle", media |-> None]]
  /\ inflight = {}
  /\ faults = 0

MediaOf(p) == publisher[p].media

Fault == faults < MaxFaults /\ faults' = faults + 1

-----------------------------------------------------------------------------
(* The store *)

Published(m) == \E p \in posts : MediaOf(p) = m

Reserved(m) == \E p \in Post : reserved[p] # 0 /\ MediaOf(p) = m

\* Variant: posts has no UNIQUE constraint on the media.
PostCollidesNever(m) == FALSE

\* UNIQUE (creator, media_digest) of table posts.
PostCollides(m) == Published(m)

\* UNIQUE (creator, media_digest) of table pending_publications.
ReservationCollides(m) == Reserved(m)

\* prunePendingPublications(now)
Pruned(now) == [p \in Post |-> IF reserved[p] <= now THEN 0 ELSE reserved[p]]

\* Variant: the reservation of the media is released, whoever holds it.
ReleasedByMedia(p) ==
  [q \in Post |-> IF MediaOf(q) = MediaOf(p) THEN 0 ELSE reserved[q]]

\* releasePublication(postId)
Released(p) == [reserved EXCEPT ![p] = 0]

-----------------------------------------------------------------------------
(* POST /api/posts/publish, once the upload is on disk *)

GoTo(p, pc) == publisher' = [publisher EXCEPT ![p].pc = pc]

\* publishPost: the media is verified, and `now' is the instant of the call.
Publish(p) ==
  /\ publisher[p].pc = "new"
  /\ \E m \in Media :
       publisher' = [publisher EXCEPT ![p] =
                       [pc |-> "prune", media |-> m, now |-> clock]]
  /\ UNCHANGED <<clock, tables, bucket, deletion, viewing, faults>>

Prune(p) ==
  /\ publisher[p].pc = "prune"
  /\ reserved' = Pruned(publisher[p].now)
  /\ GoTo(p, "lookup")
  /\ UNCHANGED <<clock, posts, bucket, deletion, viewing, faults>>

\* reservePublication, its SELECT: media that has a post is a duplicate.
Lookup(p) ==
  /\ publisher[p].pc = "lookup"
  /\ GoTo(p, IF Published(MediaOf(p)) THEN "find" ELSE "reserve")
  /\ UNCHANGED <<clock, tables, bucket, deletion, viewing, faults>>

\* reservePublication, its INSERT: media that is reserved is a duplicate.
Reserve(p) ==
  /\ publisher[p].pc = "reserve"
  /\ IF ReservationCollides(MediaOf(p))
       THEN UNCHANGED reserved /\ GoTo(p, "find")
       ELSE /\ reserved' = [reserved EXCEPT ![p] = publisher[p].now + PendingTtl]
            /\ GoTo(p, "put")
  /\ UNCHANGED <<clock, posts, bucket, deletion, viewing, faults>>

\* Variant: the reservation is committed before the upload.
PutLater(p) ==
  /\ publisher[p].pc = "put"
  /\ GoTo(p, "commit")
  /\ UNCHANGED <<clock, tables, bucket, deletion, viewing, faults>>

Put(p) ==
  /\ publisher[p].pc = "put"
  /\ objects' = objects \cup {MediaOf(p)}
  /\ GoTo(p, "commit")
  /\ UNCHANGED <<clock, tables, previews, deletion, viewing, faults>>

\* putFile fails: nothing was stored, or all of it was and the answer is lost.
PutFails(p) ==
  /\ publisher[p].pc = "put"
  /\ Fault
  /\ objects' \in {objects, objects \cup {MediaOf(p)}}
  /\ GoTo(p, "release")
  /\ UNCHANGED <<clock, tables, previews, deletion, viewing>>

\* releaseReservation; that it fails is ignored.
Release(p) ==
  /\ publisher[p].pc \in {"release", "drop", "abort"}
  /\ \/ reserved' = Released(p) /\ UNCHANGED faults
     \/ UNCHANGED reserved /\ Fault
  /\ GoTo(p, CASE publisher[p].pc = "release" -> "discard"
               [] publisher[p].pc = "drop"    -> "find"
               [] publisher[p].pc = "abort"   -> "failed")
  /\ UNCHANGED <<clock, posts, bucket, deletion, viewing>>

\* After a failed upload the object is deleted; that it fails is ignored, and the
\* request answers the storage error.
Discard(p) ==
  /\ publisher[p].pc = "discard"
  /\ \/ objects' = objects \ {MediaOf(p)} /\ UNCHANGED faults
     \/ UNCHANGED objects /\ Fault
  /\ GoTo(p, "failed")
  /\ UNCHANGED <<clock, tables, previews, deletion, viewing>>

Committable(p) == reserved[p] # 0 /\ ~ PostCollides(MediaOf(p))

WritePost(p) == posts' = posts \cup {p} /\ reserved' = [reserved EXCEPT ![p] = 0]

\* commitPublication: one transaction turns the reservation into a post, unless
\* the reservation is gone or the media has a post.  The release that it tries
\* after a rollback and the one of the use case are one step, Release.
Commit(p) ==
  /\ publisher[p].pc = "commit"
  /\ \/ Committable(p) /\ WritePost(p) /\ GoTo(p, "created")
     \/ ~ Committable(p) /\ UNCHANGED tables /\ GoTo(p, "drop")
  /\ UNCHANGED <<clock, bucket, deletion, viewing, faults>>

\* The transaction throws: it rolled back, or it committed and the answer is lost.
CommitFails(p) ==
  /\ publisher[p].pc = "commit"
  /\ Fault
  /\ \/ UNCHANGED tables
     \/ Committable(p) /\ WritePost(p)
  /\ GoTo(p, "abort")
  /\ UNCHANGED <<clock, bucket, deletion, viewing>>

\* duplicateResult: 409 MEDIA_ALREADY_PUBLISHED, whether findPostByMedia finds a
\* post or not.
Find(p) ==
  /\ publisher[p].pc = "find"
  /\ GoTo(p, "duplicate")
  /\ UNCHANGED <<clock, tables, bucket, deletion, viewing, faults>>

-----------------------------------------------------------------------------
(* DELETE /api/posts/:id *)

\* The row is deleted in a transaction of its own; a request that finds no row is
\* answered 404.
DeleteRow(p) ==
  /\ p \in posts \cap Deletable
  /\ posts' = posts \ {p}
  /\ deletion' = [deletion EXCEPT ![p] = "media"]
  /\ UNCHANGED <<clock, reserved, bucket, publisher, viewing, faults>>

\* The objects are deleted one after the other; a failure is only logged.
DeleteMedia(p) ==
  /\ deletion[p] = "media"
  /\ \/ objects' = objects \ {MediaOf(p)} /\ UNCHANGED faults
     \/ UNCHANGED objects /\ Fault
  /\ deletion' = [deletion EXCEPT ![p] = "preview"]
  /\ UNCHANGED <<clock, tables, previews, publisher, viewing>>

\* 204
DeletePreview(p) ==
  /\ deletion[p] = "preview"
  /\ \/ previews' = previews \ {MediaOf(p)} /\ UNCHANGED faults
     \/ UNCHANGED previews /\ Fault
  /\ deletion' = [deletion EXCEPT ![p] = "done"]
  /\ UNCHANGED <<clock, tables, objects, publisher, viewing>>

-----------------------------------------------------------------------------
(* MediaPreview.ensure, for a reader of a post or after its publication *)

\* No preview is stored; one that is stored is returned and changes nothing.
PreviewMiss(v) ==
  /\ viewer[v].pc = "idle"
  /\ \E p \in posts :
       /\ MediaOf(p) \notin previews
       /\ viewer' = [viewer EXCEPT ![v] = [pc |-> "miss", media |-> MediaOf(p)]]
  /\ UNCHANGED <<clock, tables, bucket, publisher, deletion, inflight, faults>>

\* A call joins the generation in flight for the key, or starts one.
Join(v) ==
  /\ viewer[v].pc = "miss"
  /\ viewer' = [viewer EXCEPT ![v].pc =
                  IF viewer[v].media \in inflight THEN "idle" ELSE "source"]
  /\ inflight' = inflight \cup {viewer[v].media}
  /\ UNCHANGED <<clock, tables, bucket, publisher, deletion, faults>>

\* Variant: the entry is removed by a generation that succeeds only.
EndGenerationOnSuccess(v) ==
  /\ viewer' = [viewer EXCEPT ![v].pc = "idle"]
  /\ inflight' = IF viewer[v].pc = "store" THEN inflight \ {viewer[v].media}
                                           ELSE inflight

EndGeneration(v) ==
  /\ viewer' = [viewer EXCEPT ![v].pc = "idle"]
  /\ inflight' = inflight \ {viewer[v].media}

\* The original is read; without it there is no preview.
ReadSource(v) ==
  /\ viewer[v].pc = "source"
  /\ IF viewer[v].media \in objects
       THEN viewer' = [viewer EXCEPT ![v].pc = "store"] /\ UNCHANGED inflight
       ELSE EndGeneration(v)
  /\ UNCHANGED <<clock, tables, bucket, publisher, deletion, faults>>

StorePreview(v) ==
  /\ viewer[v].pc = "store"
  /\ previews' = previews \cup {viewer[v].media}
  /\ EndGeneration(v)
  /\ UNCHANGED <<clock, tables, objects, publisher, deletion, faults>>

\* A read, the rendering or the upload fails: ensure returns null.
GenerationFails(v) ==
  /\ viewer[v].pc \in {"source", "store"}
  /\ Fault
  /\ EndGeneration(v)
  /\ UNCHANGED <<clock, tables, bucket, publisher, deletion>>

-----------------------------------------------------------------------------
(* The environment *)

\* A query throws; at "put", the one that reserved, and its answer is lost.
PublisherFails(p) ==
  /\ publisher[p].pc \in {"prune", "lookup", "reserve", "put", "find"}
  /\ Fault
  /\ GoTo(p, "failed")
  /\ UNCHANGED <<clock, tables, bucket, deletion, viewing>>

Ended == {"new", "created", "duplicate", "failed"}

\* The process ends, and its requests and its table of generations with it.
Restart ==
  /\ Fault
  /\ publisher' = [p \in Post |-> IF publisher[p].pc \in Ended THEN publisher[p]
                                  ELSE [publisher[p] EXCEPT !.pc = "failed"]]
  /\ deletion' = [p \in Post |-> IF deletion[p] \in {"media", "preview"}
                                   THEN "stopped" ELSE deletion[p]]
  /\ viewer' = [v \in Viewer |-> [viewer[v] EXCEPT !.pc = "idle"]]
  /\ inflight' = {}
  /\ UNCHANGED <<clock, tables, bucket>>

Tick ==
  /\ clock < MaxClock
  /\ clock' = clock + 1
  /\ UNCHANGED <<tables, bucket, publisher, deletion, viewing, faults>>

-----------------------------------------------------------------------------
PublishStep(p) ==
  \/ Publish(p) \/ Prune(p) \/ Lookup(p) \/ Reserve(p)
  \/ Put(p) \/ PutFails(p) \/ Release(p) \/ Discard(p)
  \/ Commit(p) \/ CommitFails(p) \/ Find(p) \/ PublisherFails(p)

DeleteStep(p) == DeleteRow(p) \/ DeleteMedia(p) \/ DeletePreview(p)

ViewStep(v) ==
  \/ PreviewMiss(v) \/ Join(v) \/ ReadSource(v)
  \/ StorePreview(v) \/ GenerationFails(v)

Next ==
  \/ \E p \in Post : PublishStep(p) \/ DeleteStep(p)
  \/ \E v \in Viewer : ViewStep(v)
  \/ Restart
  \/ Tick

Spec == Init /\ [][Next]_vars

-----------------------------------------------------------------------------
(* Safety *)

\* A creator has at most one post of the same media, although the look for an
\* existing post and the reservation are two queries and a reservation may
\* expire under an upload.
OnePostPerMedia ==
  \A p, q \in posts : MediaOf(p) = MediaOf(q) => p = q

\* Within pendingTtlMs of its call, a request that reserved a media uploads it
\* alone: no failed, late or crashed request gives the media to another.
UploadsExclusive ==
  \A p, q \in Post :
    /\ publisher[p].pc = "put" /\ publisher[q].pc = "put"
    /\ MediaOf(p) = MediaOf(q)
    /\ clock < publisher[p].now + PendingTtl
    /\ clock < publisher[q].now + PendingTtl
    => p = q

\* A preview is being generated by exactly the calls the table says, one per key:
\* a generation that failed blocks none that follows.
GenerationsInFlight ==
  \A m \in Media :
    LET running == {v \in Viewer : /\ viewer[v].pc \in {"source", "store"}
                                   /\ viewer[v].media = m} IN
    Cardinality(running) = IF m \in inflight THEN 1 ELSE 0

\* The media of every post is in the bucket.
MediaStored == \A p \in posts : MediaOf(p) \in objects

\* The media of every post is in the bucket, if nothing failed and no post of that
\* media was deleted: requests that race each other, and reservations that expire
\* under them, lose no object.
MediaKept ==
  faults = 0 =>
    \A p \in posts :
      (\A q \in Post : MediaOf(q) = MediaOf(p) => deletion[q] = "none")
      => MediaOf(p) \in objects

\* Once the deletion of a post is answered, its media and preview are gone, if
\* nobody published the media again.
DeletedIsGone ==
  \A p \in Post :
    /\ deletion[p] = "done"
    /\ \A q \in Post \ {p} : MediaOf(q) # MediaOf(p)
    => MediaOf(p) \notin objects \cup previews

=============================================================================
