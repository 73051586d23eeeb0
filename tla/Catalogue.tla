------------------------------ MODULE Catalogue ------------------------------
(***************************************************************************)
(* Tracks and the albums they are in (src/src/tracks/tracks.service.ts and *)
(* src/src/albums/albums.service.ts).                                      *)
(*                                                                         *)
(* An album takes at most ALBUM_TRACKS_MAX tracks and shows them by their  *)
(* albumPosition.  Both are decided from a count that is read first and    *)
(* used some awaits later, and a list of tracks is attached one update at  *)
(* a time, so that requests which overlap, and tracks which leave, are     *)
(* what this module is about.  The other columns are left out: covers are  *)
(* in ContentReviews, prices in Purchases, and the news that a creation    *)
(* sends to followers in NotificationFeed.                                 *)
(***************************************************************************)
EXTENDS Integers, Sequences, FiniteSets

CONSTANTS Artist, Track, Album,
          By,         \* the artist of each track and album, for good
          NoAlbum,
          Request,    \* requests in flight at the same time
          TracksMax,  \* ALBUM_TRACKS_MAX
          MaxIds      \* bound: ids in one request to add tracks

ASSUME CatalogueAssumption ==
  /\ IsFiniteSet(Track) /\ Track \cap Album = {} /\ By \in [Track \cup Album -> Artist]
  /\ NoAlbum \notin Album /\ {TracksMax, MaxIds} \subseteq Nat

VARIABLES
  items,       \* the rows of tracks and albums there are
  fresh,       \* ids no row has had yet
  album,       \* tracks.albumId
  position,    \* tracks.albumPosition
  request,
  \* History, read by the properties alone:
  overlapped,  \* albums that two additions in flight were counted for
  disturbed    \* albums a track has left, or was added to again

rows    == <<items, fresh, album, position>>
history == <<overlapped, disturbed>>
vars    == <<rows, request, history>>

NoPosition == -1
Position   == Nat \cup {NoPosition}

(* The ids of a dto without repetition (uniqueIds).                         *)
IsList(s)  == s # <<>> /\ \A i, j \in DOMAIN s : s[i] = s[j] => i = j
TrackLists == {s \in UNION {[1 .. n -> Track] : n \in 1 .. MaxIds} : IsList(s)}

(* A request, by the await it stands at; `position` is the next one to      *)
(* give, `left` the tracks still to attach.                                 *)
Idle      == [pc |-> "idle"]
Creating  == [pc: {"findAlbum", "countTracks", "insert"}, track: Track,
              album: Album \cup {NoAlbum}, position: Position]
Adding    == [pc: {"countAlbum", "findTracks", "attach"}, album: Album,
              left: Seq(Track), position: Position]
Detaching == [pc: {"findTrack", "detach"}, album: Album, track: Track]
RequestState == {Idle} \cup Creating \cup Adding \cup Detaching

At(r, pc)   == request[r].pc = pc
Answered(r) == request' = [request EXCEPT ![r] = Idle]
Begin(r, q) == At(r, "idle") /\ request' = [request EXCEPT ![r] = q]

Members(a) == {t \in items \cap Track : album[t] = a}

(* r was counted for album a: what it carries is going to be added.         *)
Counted(r, a) == request[r].pc \in {"insert", "findTracks", "attach"} /\ request[r].album = a

Carried(r) ==
  IF At(r, "insert") THEN {request[r].track}
  ELSE {request[r].left[i] : i \in DOMAIN request[r].left}

Init ==
  /\ items = {} /\ fresh = Track \cup Album
  /\ album = [t \in Track |-> NoAlbum] /\ position = [t \in Track |-> NoPosition]
  /\ request = [r \in Request |-> Idle]
  /\ overlapped = {} /\ disturbed = {}

-----------------------------------------------------------------------------
(* requireTrack and assertTrackOwner, requireAlbum and assertAlbumOwner:    *)
(* the row is there.  Whoever asks is its artist, which never changes, or   *)
(* an administrator.                                                        *)
RequireTrack(t) == t \in items \cap Track

RequireAlbum(a) == a \in items \cap Album

(* create of albums.service.ts                                              *)
CreateAlbum(a) ==
  /\ a \in fresh \cap Album
  /\ items' = items \cup {a} /\ fresh' = fresh \ {a}
  /\ UNCHANGED <<album, position, request, history>>

(* remove of tracks.service.ts.                                             *)
DeleteTrack(t) ==
  /\ RequireTrack(t)
  /\ items' = items \ {t}
  /\ album' = [album EXCEPT ![t] = NoAlbum] /\ position' = [position EXCEPT ![t] = NoPosition]
  /\ disturbed' = disturbed \cup ({album[t]} \ {NoAlbum})
  /\ UNCHANGED <<fresh, request, overlapped>>

(* remove of albums.service.ts: its tracks stay, without album but with     *)
(* their positions (onDelete: SetNull of albumId alone).                    *)
DeleteAlbum(a) ==
  /\ RequireAlbum(a)
  /\ items' = items \ {a}
  /\ album' = [t \in Track |-> IF album[t] = a THEN NoAlbum ELSE album[t]]
  /\ overlapped' = overlapped \ {a} /\ disturbed' = disturbed \ {a}
  /\ UNCHANGED <<fresh, position, request>>

-----------------------------------------------------------------------------
(* create of tracks.service.ts; a single goes into no album.                *)
CreateTrack(r, t, a) ==
  /\ t \in fresh
  /\ Begin(r, [pc |-> IF a = NoAlbum THEN "insert" ELSE "findAlbum", track |-> t,
               album |-> a, position |-> NoPosition])
  /\ fresh' = fresh \ {t}
  /\ UNCHANGED <<items, album, position, history>>

(* The album has to be the artist's own.                                    *)
FindAlbum(r) ==
  /\ At(r, "findAlbum")
  /\ LET q == request[r]
     IN  IF q.album \in items /\ By[q.album] = By[q.track]
         THEN request' = [request EXCEPT ![r].pc = "countTracks"]
         ELSE Answered(r)
  /\ UNCHANGED <<rows, history>>

Overlap(r, a) ==
  overlapped' = IF \E o \in Request \ {r} : Counted(o, a) THEN overlapped \cup {a} ELSE overlapped

(* Mutant: a full album takes one more.                                     *)
CountTracksOffByOne(r) ==
  /\ At(r, "countTracks")
  /\ LET q == request[r]  count == Cardinality(Members(q.album))
     IN  IF count > TracksMax
         THEN Answered(r) /\ UNCHANGED overlapped
         ELSE /\ request' = [request EXCEPT ![r] = [q EXCEPT !.pc = "insert", !.position = count]]
              /\ Overlap(r, q.album)
  /\ UNCHANGED <<rows, disturbed>>

CountTracks(r) ==
  /\ At(r, "countTracks")
  /\ LET q == request[r]  count == Cardinality(Members(q.album))
     IN  IF count >= TracksMax
         THEN Answered(r) /\ UNCHANGED overlapped
         ELSE /\ request' = [request EXCEPT ![r] = [q EXCEPT !.pc = "insert", !.position = count]]
              /\ Overlap(r, q.album)
  /\ UNCHANGED <<rows, disturbed>>

(* The insert breaks a foreign key when the album is gone by now.           *)
InsertTrack(r) ==
  /\ At(r, "insert")
  /\ LET q == request[r]
     IN  IF q.album \in items \cup {NoAlbum}
         THEN /\ items' = items \cup {q.track}
              /\ album' = [album EXCEPT ![q.track] = q.album]
              /\ position' = [position EXCEPT ![q.track] = q.position]
         ELSE UNCHANGED <<items, album, position>>
  /\ Answered(r)
  /\ UNCHANGED <<fresh, history>>

-----------------------------------------------------------------------------
(* addTracks                                                                *)
AddTracks(r, a, ids) ==
  /\ RequireAlbum(a)
  /\ Begin(r, [pc |-> "countAlbum", album |-> a, left |-> ids, position |-> NoPosition])
  /\ UNCHANGED <<rows, history>>

CountAlbum(r) ==
  /\ At(r, "countAlbum")
  /\ LET q == request[r]  currentCount == Cardinality(Members(q.album))
     IN  IF currentCount + Len(q.left) > TracksMax
         THEN Answered(r) /\ UNCHANGED overlapped
         ELSE /\ request' = [request EXCEPT ![r] =
                    [q EXCEPT !.pc = "findTracks", !.position = currentCount]]
              /\ Overlap(r, q.album)
  /\ UNCHANGED <<rows, disturbed>>

(* All tracks exist and are by the artist of the album.                     *)
FindTracks(r) ==
  /\ At(r, "findTracks")
  /\ IF \A t \in Carried(r) : t \in items /\ By[t] = By[request[r].album]
     THEN request' = [request EXCEPT ![r].pc = "attach"]
     ELSE Answered(r)
  /\ UNCHANGED <<rows, history>>

(* Mutant: all tracks of the list get the position of the first.            *)
AttachTrackInPlace(r) ==
  /\ At(r, "attach")
  /\ LET q == request[r]  t == Head(q.left)
     IN  IF t \in items /\ q.album \in items
         THEN /\ album' = [album EXCEPT ![t] = q.album]
              /\ position' = [position EXCEPT ![t] = q.position]
              /\ disturbed' = disturbed \cup ({album[t]} \ {NoAlbum})
              /\ request' = [request EXCEPT ![r] =
                   IF Len(q.left) = 1 THEN Idle ELSE [q EXCEPT !.left = Tail(q.left)]]
         ELSE Answered(r) /\ UNCHANGED <<album, position, disturbed>>
  /\ UNCHANGED <<items, fresh, overlapped>>

(* One update per track, whatever album it is in by now.  It fails when the *)
(* track or the album is gone, and leaves the rest of the list as it was.   *)
AttachTrack(r) ==
  /\ At(r, "attach")
  /\ LET q == request[r]  t == Head(q.left)
     IN  IF t \in items /\ q.album \in items
         THEN /\ album' = [album EXCEPT ![t] = q.album]
              /\ position' = [position EXCEPT ![t] = q.position]
              /\ disturbed' = disturbed \cup ({album[t]} \ {NoAlbum})
              /\ request' = [request EXCEPT ![r] =
                   IF Len(q.left) = 1 THEN Idle
                   ELSE [q EXCEPT !.left = Tail(q.left), !.position = q.position + 1]]
         ELSE Answered(r) /\ UNCHANGED <<album, position, disturbed>>
  /\ UNCHANGED <<items, fresh, overlapped>>

-----------------------------------------------------------------------------
(* removeTrack                                                              *)
RemoveTrack(r, a, t) ==
  /\ RequireAlbum(a)
  /\ Begin(r, [pc |-> "findTrack", album |-> a, track |-> t])
  /\ UNCHANGED <<rows, history>>

FindTrack(r) ==
  /\ At(r, "findTrack")
  /\ IF request[r].track \in Members(request[r].album)
     THEN request' = [request EXCEPT ![r].pc = "detach"]
     ELSE Answered(r)
  /\ UNCHANGED <<rows, history>>

(* Mutant: the track loses its place alone.                                 *)
DetachPosition(r) ==
  /\ At(r, "detach")
  /\ LET t == request[r].track
     IN  IF t \in items
         THEN /\ position' = [position EXCEPT ![t] = NoPosition]
              /\ disturbed' = disturbed \cup ({album[t]} \ {NoAlbum})
         ELSE UNCHANGED <<position, disturbed>>
  /\ Answered(r)
  /\ UNCHANGED <<items, fresh, album, overlapped>>

(* The update is by the id of the track: it leaves the album it is in now.  *)
DetachTrack(r) ==
  /\ At(r, "detach")
  /\ LET t == request[r].track
     IN  IF t \in items
         THEN /\ album' = [album EXCEPT ![t] = NoAlbum]
              /\ position' = [position EXCEPT ![t] = NoPosition]
              /\ disturbed' = disturbed \cup ({album[t]} \ {NoAlbum})
         ELSE UNCHANGED <<album, position, disturbed>>
  /\ Answered(r)
  /\ UNCHANGED <<items, fresh, overlapped>>

(* PostgreSQL, the object store or the process fails.                       *)
Fail(r) ==
  /\ ~At(r, "idle")
  /\ Answered(r)
  /\ UNCHANGED <<rows, history>>

Step(r) ==
  \/ FindAlbum(r) \/ CountTracks(r) \/ InsertTrack(r)
  \/ CountAlbum(r) \/ FindTracks(r) \/ AttachTrack(r)
  \/ FindTrack(r) \/ DetachTrack(r)

Next ==
  \/ \E r \in Request :
       \/ Step(r) \/ Fail(r)
       \/ \E t \in Track, a \in Album \cup {NoAlbum} : CreateTrack(r, t, a)
       \/ \E a \in Album :
            \/ \E ids \in TrackLists : AddTracks(r, a, ids)
            \/ \E t \in Track : RemoveTrack(r, a, t)
  \/ \E t \in Track : DeleteTrack(t)
  \/ \E a \in Album : CreateAlbum(a) \/ DeleteAlbum(a)

Spec == Init /\ [][Next]_vars

-----------------------------------------------------------------------------
(* The types of all state, the foreign key of tracks, and that a track in   *)
(* an album has a place in its order.                                       *)
TypeOK ==
  /\ items \subseteq Track \cup Album /\ fresh \subseteq Track \cup Album
  /\ items \cap fresh = {}
  /\ album \in [Track -> Album \cup {NoAlbum}] /\ position \in [Track -> Position]
  /\ request \in [Request -> RequestState]
  /\ overlapped \subseteq Album /\ disturbed \subseteq Album
  /\ \A t \in Track : album[t] # NoAlbum => {t, album[t]} \subseteq items /\ position[t] # NoPosition

(* AlbumWithinMax: an album holds no more tracks than ALBUM_TRACKS_MAX,     *)
(* unless two additions to it were counted before either was written.       *)
AlbumWithinMax ==
  \A a \in Album : a \in overlapped \/ Cardinality(Members(a)) <= TracksMax

(* PositionsAreDistinct: the tracks of an album are in the order they were  *)
(* added in, at positions without gap or repetition, as long as additions   *)
(* did not overlap and no track left the album or was added to it again.    *)
PositionsAreDistinct ==
  \A a \in Album \ (overlapped \cup disturbed) :
    /\ \A t \in Members(a) : position[t] \in 0 .. Cardinality(Members(a)) - 1
    /\ \A t, u \in Members(a) : position[t] = position[u] => t = u

(* AlbumsOfOneArtist: the tracks of an album, which exists, are its         *)
(* artist's, although the requests that attach them check it awaits before. *)
AlbumsOfOneArtist ==
  \A t \in items \cap Track : album[t] # NoAlbum => album[t] \in items /\ By[album[t]] = By[t]

=============================================================================
