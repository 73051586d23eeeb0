---------------------------- MODULE ContentReviews ----------------------------
(***************************************************************************)
(* Content reviews by moderators                                           *)
(* (src/src/content-moderation/content-moderation.service.ts), and the     *)
(* covers they are about.                                                  *)
(*                                                                         *)
(* A review stores its outcome first and acts on it in the awaits that     *)
(* follow: it sanctions the account of the artist, takes a cover, or has   *)
(* the track or album removed.  Artists meanwhile publish, change covers   *)
(* and leave.  A track without a cover of its own copies the one of its    *)
(* album when it is created, and is shown with it when it has none.        *)
(* Catalogue has the order and the number of the tracks of an album; here  *)
(* a track just is in one or not.                                          *)
(***************************************************************************)
EXTENDS FiniteSets

CONSTANTS User, Admin,
          Track, Album,
          By,           \* the account of the artist of each track and album
          Image,        \* pictures artists may upload, each a new object
          Placeholder,  \* the picture an album gets instead
          NoAlbum, NoImage,
          Request,      \* requests of artists in flight at the same time
          Moderator,    \* reviews in flight at the same time
          Draw          \* samples in flight at the same time

Content == Track \cup Album

ASSUME ReviewsAssumption ==
  /\ Admin \subseteq User /\ Track \cap Album = {} /\ By \in [Content -> User]
  /\ NoAlbum \notin Content /\ NoImage \notin Image \cup {Placeholder} /\ Placeholder \notin Image

VARIABLES
  status,   \* of each users row, "deleted" when it is gone
  items,    \* the rows of tracks and albums there are
  fresh,    \* ids no row has had yet
  album,    \* tracks.albumId
  cover,    \* coverUrl of tracks and albums
  cooling,  \* content_reviews, those that are read: OK within OK_COOLDOWN_DAYS, of
            \* what there still is
  request, moderator, draw,
  \* History, read by the properties alone:
  pending,  \* outcomes on record that were neither taken nor lost in a failure
  stripped  \* pictures a review took, and from what there still is

rows    == <<status, items, fresh, album, cover>>
history == <<pending, stripped>>
vars    == <<rows, cooling, request, moderator, draw, history>>

AccountSanction == {"RESTRICTED", "BANNED"}
Outcome == {"OK", "WARNING", "CONTENT_REMOVED", "COVER_REMOVED"} \cup AccountSanction

(* TRACK and ALBUM are the content itself, TRACK_COVER and ALBUM_COVER its  *)
(* cover.                                                                   *)
Target == [cover: BOOLEAN, item: Content]
Review == [target: Target, outcome: Outcome]

(* The targets a sample is drawn from: albums are reviewed, never sampled.  *)
Drawn == {target \in Target : target.cover \/ target.item \in Track}

(* An artist's request creates a track.                                     *)
Idle     == [pc |-> "idle"]
Creating == [pc: {"findAlbum", "insert"}, track: Track, album: Album \cup {NoAlbum},
             cover: Image \cup {Placeholder, NoImage}]

(* A moderator's, by the await it stands at; and a sample's, with what it   *)
(* leaves out and then holds.                                               *)
Reviewing == [pc: {"store", "findUser", "sanction", "findCover", "uncover", "findContent",
                   "remove"}, review: Review]
Notifying == [pc: {"notify"}]
Sampling  == [pc: {"pool", "sampled"}, cover: BOOLEAN, sample: SUBSET Content]

At(m, pc)   == moderator[m].pc = pc
Goto(m, pc) == moderator' = [moderator EXCEPT ![m].pc = pc]
Answered(m) == moderator' = [moderator EXCEPT ![m] = Idle]

Acting(m) == moderator[m].pc \in
  {"findUser", "sanction", "findCover", "uncover", "findContent", "remove"}

(* toPublicTrack, serializeTrack: what is shown for a track or an album.    *)
Shown(x) ==
  IF x \in Track /\ cover[x] = NoImage /\ album[x] # NoAlbum THEN cover[album[x]] ELSE cover[x]

Init ==
  /\ status = [u \in User |-> "ACTIVE"] /\ items = {} /\ fresh = Content
  /\ album = [t \in Track |-> NoAlbum] /\ cover = [x \in Content |-> NoImage]
  /\ cooling = {}
  /\ request = [r \in Request |-> Idle] /\ moderator = [m \in Moderator |-> Idle]
  /\ draw = [d \in Draw |-> Idle]
  /\ pending = {} /\ stripped = {}

(* Every upload is an object of its own.  One that nothing names any more is *)
(* never read, so its name stands for the next.                             *)
NewImage ==
  Image \ ({cover[x] : x \in Content} \cup {p[2] : p \in stripped}
            \cup {request[r].cover : r \in {q \in Request : request[q] # Idle}})

-----------------------------------------------------------------------------
(* validate of jwt.strategy.ts.                                             *)
Admitted(u) == status[u] \notin {"BANNED", "deleted"}

(* Artists.  create of albums.service.ts uploads its cover and inserts.     *)
CreateAlbum(a, i) ==
  /\ a \in fresh \cap Album /\ i \in NewImage /\ Admitted(By[a])
  /\ items' = items \cup {a} /\ fresh' = fresh \ {a}
  /\ cover' = [cover EXCEPT ![a] = i]
  /\ UNCHANGED <<status, album, cooling, request, moderator, draw, history>>

(* update of either service, with a new cover; an administrator may do it,  *)
(* as with what follows.                                                    *)
SetTrackCover(t, i) ==
  /\ t \in items \cap Track /\ i \in NewImage
  /\ cover' = [cover EXCEPT ![t] = i]
  /\ UNCHANGED <<status, items, fresh, album, cooling, request, moderator, draw, history>>

SetAlbumCover(a, i) ==
  /\ a \in items \cap Album /\ i \in NewImage
  /\ cover' = [cover EXCEPT ![a] = i]
  /\ UNCHANGED <<status, items, fresh, album, cooling, request, moderator, draw, history>>

(* addTracks and removeTrack, one track at a time.                          *)
SetAlbum(t, a) ==
  /\ t \in items \cap Track /\ a \in (items \cap Album) \cup {NoAlbum} /\ album[t] # a
  /\ a # NoAlbum => By[a] = By[t]
  /\ album' = [album EXCEPT ![t] = a]
  /\ UNCHANGED <<status, items, fresh, cover, cooling, request, moderator, draw, history>>

(* create of tracks.service.ts: a single, outside any album, needs a cover. *)
CreateTrack(r, t, a, i) ==
  /\ request[r] = Idle /\ t \in fresh /\ Admitted(By[t])
  /\ i \in NewImage \cup {NoImage} /\ (a = NoAlbum => i # NoImage)
  /\ request' = [request EXCEPT ![r] =
       [pc |-> IF a = NoAlbum THEN "insert" ELSE "findAlbum", track |-> t, album |-> a, cover |-> i]]
  /\ fresh' = fresh \ {t}
  /\ UNCHANGED <<status, items, album, cover, cooling, moderator, draw, history>>

(* Mutant: a track leaves its cover to its album.                           *)
FindAlbumOnly(r) ==
  /\ request[r].pc = "findAlbum"
  /\ LET q == request[r]
     IN  request' = [request EXCEPT ![r] =
           IF q.album \in items /\ By[q.album] = By[q.track] THEN [q EXCEPT !.pc = "insert"] ELSE Idle]
  /\ UNCHANGED <<rows, cooling, moderator, draw, history>>

(* The album lends its cover, as it is read here.                           *)
FindAlbum(r) ==
  /\ request[r].pc = "findAlbum"
  /\ LET q == request[r]
     IN  request' = [request EXCEPT ![r] =
           IF q.album \in items /\ By[q.album] = By[q.track]
           THEN [q EXCEPT !.pc = "insert",
                          !.cover = IF q.cover = NoImage THEN cover[q.album] ELSE q.cover]
           ELSE Idle]
  /\ UNCHANGED <<rows, cooling, moderator, draw, history>>

(* Foreign keys: the artist and the album are still there.                  *)
InsertTrack(r) ==
  /\ request[r].pc = "insert"
  /\ LET q == request[r]
     IN  IF q.album \in items \cup {NoAlbum} /\ status[By[q.track]] # "deleted"
         THEN /\ items' = items \cup {q.track}
              /\ album' = [album EXCEPT ![q.track] = q.album]
              /\ cover' = [cover EXCEPT ![q.track] = q.cover]
         ELSE UNCHANGED <<items, album, cover>>
  /\ request' = [request EXCEPT ![r] = Idle]
  /\ UNCHANGED <<status, fresh, cooling, moderator, draw, history>>

RequestFails(r) ==
  /\ request[r] # Idle
  /\ request' = [request EXCEPT ![r] = Idle]
  /\ UNCHANGED <<rows, cooling, moderator, draw, history>>

(* The rows of `gone` go; tracks lose an album that goes.                   *)
Delete(gone) ==
  /\ items' = items \ gone
  /\ stripped' = {p \in stripped : p[1] \notin gone}
  /\ cooling' = {v \in cooling : v.item \notin gone}
  /\ album' = [t \in Track |-> IF t \in gone \/ album[t] \in gone THEN NoAlbum ELSE album[t]]
  /\ cover' = [x \in Content |-> IF x \in gone THEN NoImage ELSE cover[x]]

(* remove of either service.                                                *)
RemoveContent(x) ==
  /\ x \in items
  /\ Delete({x})
  /\ UNCHANGED <<status, fresh, request, moderator, draw, pending>>

(* deleteForAdmin of users.service.ts.                                      *)
DeleteAccount(u) ==
  /\ u \in User \ Admin /\ status[u] # "deleted"
  /\ status' = [status EXCEPT ![u] = "deleted"]
  /\ Delete({x \in items : By[x] = u})
  /\ UNCHANGED <<fresh, request, moderator, draw, pending>>

(* updateForAdmin, and the sanctions of Reports.                            *)
SetStatus(u, new) ==
  /\ u \in User \ Admin /\ status[u] \notin {"deleted", new}
  /\ status' = [status EXCEPT ![u] = new]
  /\ UNCHANGED <<items, fresh, album, cover, cooling, request, moderator, draw, history>>

-----------------------------------------------------------------------------
(* resolveOwnerUserId: nobody answers for what is gone.                     *)
Owners(target) == {By[x] : x \in items \cap {target.item}}

(* assertOutcomeAllowed: what is removed is what was looked at.             *)
OutcomeAllowed(v) ==
  /\ v.outcome = "CONTENT_REMOVED" => ~v.target.cover
  /\ v.outcome = "COVER_REMOVED" => v.target.cover

(* createReview: the target exists, and nobody judges their own content     *)
(* except as OK.                                                            *)
CreateReview(m, by, v) ==
  /\ \E owner \in Owners(v.target) : owner = by => v.outcome = "OK"
  /\ OutcomeAllowed(v)
  /\ At(m, "idle")
  /\ moderator' = [moderator EXCEPT ![m] = [pc |-> "store", review |-> v]]
  /\ UNCHANGED <<rows, cooling, request, draw, history>>

(* Mutant: only content itself is acted upon.                               *)
EffectOnContent(outcome) ==
  CASE outcome \in AccountSanction             -> "findUser"
    [] outcome = "CONTENT_REMOVED"             -> "findContent"
    [] outcome \in {"WARNING", "COVER_REMOVED"} -> "notify"

(* The await that follows the insert of an outcome.                         *)
Effect(outcome) ==
  CASE outcome \in AccountSanction -> "findUser"
    [] outcome = "COVER_REMOVED"   -> "findCover"
    [] outcome = "CONTENT_REMOVED" -> "findContent"
    [] outcome = "WARNING"         -> "notify"

Settled(m) == pending' = pending \ {moderator[m].review}

(* The request of a stored review fails without what the review says.       *)
Lose(m) == Answered(m) /\ Settled(m)

(* The artist is told next; what the review says has been done.             *)
Tell(m) == moderator' = [moderator EXCEPT ![m] = [pc |-> "notify"]]
Take(m) == Tell(m) /\ Settled(m)

(* A sample under way does not know what is found OK now: it is not         *)
(* followed any further.                                                    *)
StoreReview(m) ==
  /\ At(m, "store")
  /\ LET v == moderator[m].review
     IN  IF v.outcome = "OK"
         THEN /\ cooling' = cooling \cup {w \in Drawn \cap {v.target} : w.item \in items}
              /\ draw' = [d \in Draw |->
                   IF draw[d] # Idle /\ draw[d].cover = v.target.cover THEN Idle ELSE draw[d]]
              /\ Answered(m)
              /\ UNCHANGED pending
         ELSE /\ IF Effect(v.outcome) = "notify" THEN Tell(m) ELSE Goto(m, Effect(v.outcome))
              /\ pending' = IF v.outcome = "WARNING" THEN pending ELSE pending \cup {v}
              /\ UNCHANGED <<cooling, draw>>
  /\ UNCHANGED <<rows, request, stripped>>

(* applyAccountSanction: an account that is gone is left alone, an          *)
(* administrator's refuses, with the review on record by then.              *)
FindUser(m) ==
  /\ At(m, "findUser")
  /\ LET account == By[moderator[m].review.target.item]
     IN  IF account \in Admin
         THEN Lose(m)
         ELSE /\ IF status[account] = "deleted" THEN Tell(m) ELSE Goto(m, "sanction")
              /\ UNCHANGED pending
  /\ UNCHANGED <<rows, cooling, request, draw, stripped>>

Sanction(m) ==
  /\ At(m, "sanction")
  /\ LET v == moderator[m].review  account == By[v.target.item]
     IN  IF status[account] = "deleted"
         THEN Lose(m) /\ UNCHANGED status
         ELSE /\ status' = [status EXCEPT ![account] = v.outcome]
              /\ Take(m)
  /\ UNCHANGED <<items, fresh, album, cover, cooling, request, draw, stripped>>

(* removeCover                                                              *)
FindCover(m) ==
  /\ At(m, "findCover")
  /\ IF moderator[m].review.target.item \in items
     THEN Goto(m, "uncover") /\ UNCHANGED pending
     ELSE Lose(m)
  /\ UNCHANGED <<rows, cooling, request, draw, stripped>>

(* Mutant: albums are left without cover as well.                           *)
UncoverBare(m) ==
  /\ At(m, "uncover")
  /\ LET v == moderator[m].review  x == v.target.item
     IN  IF x \in items
         THEN /\ cover' = [cover EXCEPT ![x] = NoImage]
              /\ stripped' = stripped \cup ({<<x, Shown(x)>>} \ {<<x, NoImage>>})
              /\ Take(m)
         ELSE Lose(m) /\ UNCHANGED <<cover, stripped>>
  /\ UNCHANGED <<status, items, fresh, album, cooling, request, draw>>

(* A track is left without cover, an album with a placeholder.              *)
Uncover(m) ==
  /\ At(m, "uncover")
  /\ LET v == moderator[m].review  x == v.target.item
     IN  IF x \in items
         THEN /\ cover' = [cover EXCEPT ![x] = IF x \in Track THEN NoImage ELSE Placeholder]
              /\ stripped' = stripped \cup ({<<x, Shown(x)>>} \ {<<x, NoImage>>})
              /\ Take(m)
         ELSE Lose(m) /\ UNCHANGED <<cover, stripped>>
  /\ UNCHANGED <<status, items, fresh, album, cooling, request, draw>>

(* remove of tracks.service.ts or albums.service.ts, as an administrator;   *)
(* its failure is rethrown.                                                 *)
FindContent(m) ==
  /\ At(m, "findContent")
  /\ IF moderator[m].review.target.item \in items
     THEN Goto(m, "remove") /\ UNCHANGED pending
     ELSE Lose(m)
  /\ UNCHANGED <<rows, cooling, request, draw, stripped>>

Remove(m) ==
  /\ At(m, "remove")
  /\ LET v == moderator[m].review
     IN  IF v.target.item \in items
         THEN /\ Delete({v.target.item})
              /\ Take(m)
         ELSE Lose(m) /\ UNCHANGED <<items, album, cover, cooling, stripped>>
  /\ UNCHANGED <<status, fresh, request, draw>>

(* The artist is told what buildNotifyMeta makes of the outcome, and a      *)
(* failure of that is swallowed.                                            *)
Notify(m) ==
  /\ At(m, "notify")
  /\ Answered(m)
  /\ UNCHANGED <<rows, cooling, request, draw, history>>

-----------------------------------------------------------------------------
(* Mutant: what was found OK is left out whichever kind of sample it is.    *)
BeginSampleOfOther(d, c) ==
  /\ draw[d] = Idle
  /\ draw' = [draw EXCEPT ![d] =
       [pc |-> "pool", cover |-> c,
        sample |-> {v.item : v \in {w \in cooling : ~w.cover}}]]
  /\ UNCHANGED <<rows, cooling, request, moderator, history>>

(* recentOkTargetIds: what to leave out of a sample of tracks, or of covers *)
(* (which reads it once for tracks and once for albums).                    *)
BeginSample(d, c) ==
  /\ draw[d] = Idle
  /\ draw' = [draw EXCEPT ![d] =
       [pc |-> "pool", cover |-> c,
        sample |-> {v.item : v \in {w \in cooling : w.cover = c}}]]
  /\ UNCHANGED <<rows, cooling, request, moderator, history>>

Sampled(c) == {x \in items : IF c THEN cover[x] # NoImage ELSE x \in Track}

(* Any pick of the others: recent content first, up to a limit and in any   *)
(* order.                                                                   *)
Sample(d) ==
  /\ draw[d].pc = "pool"
  /\ \E picked \in SUBSET (Sampled(draw[d].cover) \ draw[d].sample) :
       draw' = [draw EXCEPT ![d].pc = "sampled", ![d].sample = picked]
  /\ UNCHANGED <<rows, cooling, request, moderator, history>>

(* A sample is answered, or fails.                                          *)
EndSample(d) ==
  /\ draw[d] # Idle
  /\ draw' = [draw EXCEPT ![d] = Idle]
  /\ UNCHANGED <<rows, cooling, request, moderator, history>>

(* OK_COOLDOWN_DAYS have passed.                                            *)
CoolDown(target) ==
  /\ target \in cooling
  /\ cooling' = cooling \ {target}
  /\ UNCHANGED <<rows, request, moderator, draw, history>>

ModeratorFails(m) ==
  /\ ~At(m, "idle")
  /\ IF Acting(m) THEN Lose(m) ELSE Answered(m) /\ UNCHANGED pending
  /\ UNCHANGED <<rows, cooling, request, draw, stripped>>

Next ==
  \/ \E a \in Album, i \in Image : CreateAlbum(a, i) \/ SetAlbumCover(a, i)
  \/ \E t \in Track, i \in Image : SetTrackCover(t, i)
  \/ \E x \in Content : RemoveContent(x)
  \/ \E t \in Track, a \in Album \cup {NoAlbum} :
       \/ SetAlbum(t, a)
       \/ \E r \in Request, i \in Image \cup {NoImage} : CreateTrack(r, t, a, i)
  \/ \E u \in User : DeleteAccount(u) \/ \E new \in {"ACTIVE"} \cup AccountSanction : SetStatus(u, new)
  \/ \E r \in Request : FindAlbum(r) \/ InsertTrack(r) \/ RequestFails(r)
  \/ \E m \in Moderator :
       \/ \E by \in Admin, v \in Review : CreateReview(m, by, v)
       \/ StoreReview(m) \/ FindUser(m) \/ Sanction(m) \/ FindCover(m) \/ Uncover(m)
       \/ FindContent(m) \/ Remove(m) \/ Notify(m) \/ ModeratorFails(m)
  \/ \E d \in Draw : Sample(d) \/ EndSample(d) \/ \E c \in BOOLEAN : BeginSample(d, c)
  \/ \E target \in Drawn : CoolDown(target)

Spec == Init /\ [][Next]_vars

-----------------------------------------------------------------------------
(* The types of all state; the columns that may not be null, and the        *)
(* foreign key of tracks.                                                   *)
TypeOK ==
  /\ \A a \in items \cap Album : cover[a] # NoImage
  /\ \A t \in items \cap Track : album[t] \in items \cup {NoAlbum}
  /\ status \in [User -> {"ACTIVE", "deleted"} \cup AccountSanction]
  /\ items \subseteq Content /\ fresh \subseteq Content /\ items \cap fresh = {}
  /\ album \in [Track -> Album \cup {NoAlbum}]
  /\ cover \in [Content -> Image \cup {Placeholder, NoImage}]
  /\ cooling \subseteq Drawn
  /\ request \in [Request -> {Idle} \cup Creating]
  /\ moderator \in [Moderator -> {Idle} \cup Reviewing \cup Notifying]
  /\ draw \in [Draw -> {Idle} \cup Sampling]
  /\ pending \subseteq Review /\ stripped \subseteq Content \X (Image \cup {Placeholder})

(* OutcomesAreTaken: an outcome on record that sanctions, takes a cover or  *)
(* removes content has been acted upon by the time the artist is told and   *)
(* the request ends, unless that failed or the account was gone before.     *)
OutcomesAreTaken ==
  \A v \in pending :
    \/ status[By[v.target.item]] = "deleted"
    \/ \E m \in Moderator : Acting(m) /\ moderator[m].review = v

(* PicturesFollowReviews: whatever happens to its album, a track is shown   *)
(* with a picture until a review takes its cover; and a picture that a      *)
(* review took is not shown for the same track or album again, except for a *)
(* track without cover as that of the album it is in (serializeTrack).      *)
PicturesFollowReviews ==
  /\ \A t \in items \cap Track : Shown(t) = NoImage => \E i \in Image \cup {Placeholder} : <<t, i>> \in stripped
  /\ \A p \in stripped :
       p[1] \in items /\ p[2] \in Image /\ Shown(p[1]) = p[2] => p[1] \in Track /\ cover[p[1]] = NoImage

(* SampleSkipsChecked: a moderator is not offered what was found OK of late *)
(* up to the moment the draw began.                                         *)
SampleSkipsChecked ==
  \A d \in Draw : draw[d].pc = "sampled" =>
    \A x \in draw[d].sample : [cover |-> draw[d].cover, item |-> x] \notin cooling

=============================================================================
