------------------------ MODULE ContentReviewsProofs ------------------------
(***************************************************************************)
(* What content reviews keep for any artists, tracks, albums, pictures,    *)
(* moderators and samples.                                                 *)
(*                                                                         *)
(* The type invariant is inductive in three parts: what moderators hold,   *)
(* what rows and uploads hold, and what samples hold.                      *)
(***************************************************************************)
EXTENDS ContentReviews, TLAPS

USE ReviewsAssumption DEF ReviewsAssumption, Content, rows, history, vars, At

Await == {"findUser", "sanction", "findCover", "uncover", "findContent", "remove"}
ModeratorState == {Idle} \cup Reviewing \cup Notifying

(* Moderators.  A sanction is under way only where the review says so.      *)
Fits(q) == q.pc \in {"findUser", "sanction"} => q.review.outcome \in AccountSanction

Moderation ==
  /\ moderator \in [Moderator -> ModeratorState]
  /\ \A m \in Moderator : Fits(moderator[m])
  /\ pending \subseteq Review

LEMMA Shapes ==
  ASSUME Moderation, NEW m \in Moderator
  PROVE  /\ moderator[m].pc \in Await \cup {"store"} => moderator[m] \in Reviewing
         /\ moderator[m].pc \in Await \cup {"idle", "store", "notify"}
<1>1. moderator[m] \in ModeratorState
  BY DEF Moderation
<1> QED BY <1>1 DEF ModeratorState, Reviewing, Notifying, Idle, Await

(* A moderator's request stands where it arrives, and the others stay.      *)
LEMMA Moves ==
  ASSUME Moderation, NEW m \in Moderator, NEW q \in ModeratorState,
         moderator' = [moderator EXCEPT ![m] = q]
  PROVE  /\ moderator' \in [Moderator -> ModeratorState]
         /\ moderator'[m] = q
         /\ \A o \in Moderator \ {m} : moderator'[o] = moderator[o]
  BY DEF Moderation

LEMMA Ends ==
  ASSUME Moderation, NEW m \in Moderator, Answered(m) \/ Tell(m)
  PROVE  /\ moderator' \in [Moderator -> ModeratorState]
         /\ moderator'[m].pc \in {"idle", "notify"}
         /\ \A o \in Moderator \ {m} : moderator'[o] = moderator[o]
<1>1. CASE Answered(m)
  <2>1. Idle \in ModeratorState /\ Idle.pc = "idle"
    BY DEF ModeratorState, Idle
  <2>2. moderator' = [moderator EXCEPT ![m] = Idle]
    BY <1>1 DEF Answered
  <2> HIDE DEF Idle
  <2> QED BY <2>1, <2>2, Moves
<1>2. CASE Tell(m)
  <2> DEFINE q == [pc |-> "notify"]
  <2>1. q \in ModeratorState /\ q.pc = "notify"
    BY DEF ModeratorState, Notifying
  <2>2. moderator' = [moderator EXCEPT ![m] = q]
    BY <1>2 DEF Tell
  <2> HIDE DEF q
  <2> QED BY <2>1, <2>2, Moves
<1> QED BY <1>1, <1>2

LEMMA GoesOn ==
  ASSUME Moderation, NEW m \in Moderator, moderator[m] \in Reviewing, NEW pc \in Await, Goto(m, pc)
  PROVE  /\ moderator' \in [Moderator -> ModeratorState]
         /\ moderator'[m].pc = pc /\ moderator'[m].review = moderator[m].review
         /\ \A o \in Moderator \ {m} : moderator'[o] = moderator[o]
<1> DEFINE q == [moderator[m] EXCEPT !.pc = pc]
<1>1. q \in ModeratorState /\ q.pc = pc /\ q.review = moderator[m].review
  BY DEF ModeratorState, Reviewing, Await
<1>2. moderator' = [moderator EXCEPT ![m] = q]
  BY DEF Goto
<1> HIDE DEF q
<1> QED BY <1>1, <1>2, Moves

(* Where an outcome that is not OK leads.                                   *)
LEMMA Leads ==
  ASSUME NEW o \in Outcome, o # "OK"
  PROVE  /\ Effect(o) \in Await \cup {"notify"}
         /\ Effect(o) = "notify" <=> o = "WARNING"
         /\ Effect(o) \in {"findUser", "sanction"} => o \in AccountSanction
  BY DEF Effect, Outcome, AccountSanction, Await

(* Who moves, and how.                                                      *)
LEMMA Ways ==
  ASSUME Moderation, NEW m \in Moderator,
         \/ StoreReview(m) \/ FindUser(m) \/ Sanction(m) \/ FindCover(m) \/ Uncover(m)
         \/ FindContent(m) \/ Remove(m) \/ Notify(m) \/ ModeratorFails(m)
  PROVE  \/ Answered(m) \/ Tell(m)
         \/ /\ moderator[m] \in Reviewing
            /\ \E pc \in Await :
                 /\ Goto(m, pc)
                 /\ pc \in {"findUser", "sanction"} => moderator[m].review.outcome \in AccountSanction
<1>1. CASE StoreReview(m)
  <2>1. moderator[m] \in Reviewing
    BY <1>1, Shapes DEF StoreReview
  <2>2. moderator[m].review.outcome \in Outcome
    BY <2>1 DEF Reviewing, Review
  <2>3. CASE moderator[m].review.outcome = "OK"
    BY <1>1, <2>3 DEF StoreReview
  <2>4. CASE moderator[m].review.outcome # "OK"
    <3> DEFINE pc == Effect(moderator[m].review.outcome)
    <3>1. IF pc = "notify" THEN Tell(m) ELSE Goto(m, pc)
      BY <1>1, <2>4 DEF StoreReview
    <3>2. /\ pc \in Await \cup {"notify"}
          /\ pc \in {"findUser", "sanction"} => moderator[m].review.outcome \in AccountSanction
      BY <2>2, <2>4, Leads
    <3> HIDE DEF pc
    <3> QED BY <2>1, <3>1, <3>2
  <2> QED BY <2>3, <2>4
<1>2. CASE FindUser(m)
  <2>1. moderator[m] \in Reviewing /\ moderator[m].review.outcome \in AccountSanction
    BY <1>2, Shapes DEF FindUser, Await, Moderation, Fits
  <2> QED BY <1>2, <2>1 DEF FindUser, Lose, Await
<1>3. CASE FindCover(m)
  <2>1. moderator[m] \in Reviewing
    BY <1>3, Shapes DEF FindCover, Await
  <2> QED BY <1>3, <2>1 DEF FindCover, Lose, Await
<1>4. CASE FindContent(m)
  <2>1. moderator[m] \in Reviewing
    BY <1>4, Shapes DEF FindContent, Await
  <2> QED BY <1>4, <2>1 DEF FindContent, Lose, Await
<1>5. CASE Sanction(m) \/ Uncover(m) \/ Remove(m)
  BY <1>5 DEF Sanction, Uncover, Remove, Lose, Take
<1>6. CASE Notify(m) \/ ModeratorFails(m)
  BY <1>6 DEF Notify, ModeratorFails, Lose
<1> QED BY <1>1, <1>2, <1>3, <1>4, <1>5, <1>6

LEMMA ModerationStep == Moderation /\ [Next]_vars => Moderation'
<1> SUFFICES ASSUME Moderation, [Next]_vars PROVE Moderation'
  OBVIOUS
<1>1. ASSUME NEW m \in Moderator, NEW by \in Admin, NEW v \in Review, CreateReview(m, by, v)
      PROVE  Moderation'
  <2> DEFINE q == [pc |-> "store", review |-> v]
  <2>1. q \in ModeratorState /\ Fits(q)
    BY DEF ModeratorState, Reviewing, Fits
  <2>2. moderator' = [moderator EXCEPT ![m] = q] /\ pending' = pending
    BY <1>1 DEF CreateReview
  <2> HIDE DEF q
  <2> QED BY <2>1, <2>2, Moves DEF Moderation
<1>2. ASSUME NEW m \in Moderator,
             \/ StoreReview(m) \/ FindUser(m) \/ Sanction(m) \/ FindCover(m) \/ Uncover(m)
             \/ FindContent(m) \/ Remove(m) \/ Notify(m) \/ ModeratorFails(m)
      PROVE  Moderation'
  <2>1. pending' \subseteq Review
    <3>1. CASE StoreReview(m)
      <4>1. moderator[m].review \in Review
        BY <3>1, Shapes DEF StoreReview, Reviewing
      <4> QED BY <3>1, <4>1 DEF StoreReview, Moderation
    <3>2. CASE ~StoreReview(m)
      BY <1>2, <3>2 DEF FindUser, Sanction, FindCover, Uncover, FindContent, Remove, Notify,
         ModeratorFails, Lose, Take, Settled, Moderation
    <3> QED BY <3>1, <3>2
  <2>2. CASE Answered(m) \/ Tell(m)
    BY <2>1, <2>2, Ends DEF Moderation, Fits
  <2>3. ASSUME moderator[m] \in Reviewing, NEW pc \in Await, Goto(m, pc),
               pc \in {"findUser", "sanction"} => moderator[m].review.outcome \in AccountSanction
        PROVE  Moderation'
    BY <2>1, <2>3, GoesOn DEF Moderation, Fits
  <2> QED BY <1>2, <2>2, <2>3, Ways
<1>3. CASE UNCHANGED <<moderator, pending>>
  BY <1>3 DEF Moderation
<1>4. \/ UNCHANGED <<moderator, pending>>
      \/ \E m \in Moderator :
           \/ \E by \in Admin, v \in Review : CreateReview(m, by, v)
           \/ StoreReview(m) \/ FindUser(m) \/ Sanction(m) \/ FindCover(m) \/ Uncover(m)
           \/ FindContent(m) \/ Remove(m) \/ Notify(m) \/ ModeratorFails(m)
  BY DEF Next, CreateAlbum, SetTrackCover, SetAlbumCover, SetAlbum, CreateTrack, FindAlbum,
     InsertTrack, RequestFails, RemoveContent, DeleteAccount, SetStatus, Sample, EndSample,
     BeginSample, CoolDown
<1> QED BY <1>1, <1>2, <1>3, <1>4

-----------------------------------------------------------------------------
(* Rows and uploads.  An upload owns the id of its track until it is        *)
(* inserted, and brings a picture when it is.                               *)
Columns ==
  /\ status \in [User -> {"ACTIVE", "deleted"} \cup AccountSanction]
  /\ items \subseteq Content /\ fresh \subseteq Content /\ items \cap fresh = {}
  /\ album \in [Track -> Album \cup {NoAlbum}]
  /\ cover \in [Content -> Image \cup {Placeholder, NoImage}]
  /\ stripped \subseteq Content \X (Image \cup {Placeholder})

Whole ==
  /\ \A a \in items \cap Album : cover[a] # NoImage
  /\ \A t \in items \cap Track : album[t] \in items \cup {NoAlbum}

Uploads ==
  /\ request \in [Request -> {Idle} \cup Creating]
  /\ \A r \in Request : request[r] # Idle => request[r].track \notin fresh \cup items
  /\ \A r, o \in Request :
       r # o /\ request[r] # Idle /\ request[o] # Idle => request[r].track # request[o].track
  /\ \A r \in Request : request[r].pc = "insert" => request[r].cover # NoImage

LEMMA UploadShapes ==
  ASSUME Uploads, NEW r \in Request
  PROVE  /\ request[r] # Idle => request[r] \in Creating
         /\ request[r].pc # "idle" => request[r] # Idle
         /\ request[r] \in Creating => request[r].pc \in {"findAlbum", "insert"}
  BY DEF Uploads, Creating, Idle

(* What goes takes its cover along, and the tracks of an album stay.        *)
LEMMA Deletes ==
  ASSUME Columns, Whole, NEW gone, Delete(gone)
  PROVE  /\ items' = items \ gone
         /\ album' \in [Track -> Album \cup {NoAlbum}]
         /\ cover' \in [Content -> Image \cup {Placeholder, NoImage}]
         /\ stripped' \subseteq Content \X (Image \cup {Placeholder})
         /\ Whole'
<1>1. /\ items' = items \ gone
      /\ album' \in [Track -> Album \cup {NoAlbum}]
      /\ cover' \in [Content -> Image \cup {Placeholder, NoImage}]
      /\ stripped' \subseteq stripped
  BY DEF Delete, Columns
<1>2. \A a \in items' \cap Album : cover'[a] # NoImage
  BY DEF Delete, Columns, Whole
<1>3. \A t \in items' \cap Track : album'[t] \in items' \cup {NoAlbum}
  BY DEF Delete, Columns, Whole
<1> QED BY <1>1, <1>2, <1>3 DEF Columns, Whole

(* The picture a review takes.                                              *)
LEMMA ShownType ==
  ASSUME Columns, NEW x \in Content
  PROVE  Shown(x) \in Image \cup {Placeholder, NoImage}
  BY DEF Columns, Shown

LEMMA ColumnsStep ==
  Columns /\ Whole /\ Uploads /\ Moderation /\ [Next]_vars => Columns' /\ Whole'
<1> SUFFICES ASSUME Columns, Whole, Uploads, Moderation, [Next]_vars PROVE Columns' /\ Whole'
  OBVIOUS
<1>1. ASSUME NEW a \in Album, NEW i \in Image, CreateAlbum(a, i) PROVE Columns' /\ Whole'
  BY <1>1 DEF CreateAlbum, Columns, Whole
<1>2. ASSUME NEW a \in Album, NEW i \in Image, SetAlbumCover(a, i) PROVE Columns' /\ Whole'
  BY <1>2 DEF SetAlbumCover, Columns, Whole
<1>3. ASSUME NEW t \in Track, NEW i \in Image, SetTrackCover(t, i) PROVE Columns' /\ Whole'
  BY <1>3 DEF SetTrackCover, Columns, Whole
<1>4. ASSUME NEW x \in Content, RemoveContent(x) PROVE Columns' /\ Whole'
  BY <1>4, Deletes DEF RemoveContent, Columns
<1>5. ASSUME NEW t \in Track, NEW a \in Album \cup {NoAlbum}, SetAlbum(t, a)
      PROVE  Columns' /\ Whole'
  BY <1>5 DEF SetAlbum, Columns, Whole
<1>6. ASSUME NEW t \in Track, NEW a \in Album \cup {NoAlbum}, NEW r \in Request,
             NEW i \in Image \cup {NoImage}, CreateTrack(r, t, a, i)
      PROVE  Columns' /\ Whole'
  BY <1>6 DEF CreateTrack, Columns, Whole
<1>7. ASSUME NEW u \in User, DeleteAccount(u) PROVE Columns' /\ Whole'
  <2>1. status' \in [User -> {"ACTIVE", "deleted"} \cup AccountSanction] /\ fresh' = fresh
    BY <1>7 DEF DeleteAccount, Columns
  <2> QED BY <1>7, <2>1, Deletes DEF DeleteAccount, Columns
<1>8. ASSUME NEW u \in User, NEW new \in {"ACTIVE"} \cup AccountSanction, SetStatus(u, new)
      PROVE  Columns' /\ Whole'
  BY <1>8 DEF SetStatus, Columns, Whole
<1>9. ASSUME NEW r \in Request, InsertTrack(r) PROVE Columns' /\ Whole'
  <2> DEFINE q == request[r]
  <2>1. q \in Creating /\ q # Idle
    BY <1>9, UploadShapes DEF InsertTrack
  <2>2. /\ q.track \in Track /\ q.album \in Album \cup {NoAlbum}
        /\ q.cover \in Image \cup {Placeholder, NoImage}
        /\ q.track \notin fresh \cup items
    BY <2>1 DEF Creating, Uploads
  <2>3. /\ UNCHANGED <<status, fresh, stripped>>
        /\ \/ UNCHANGED <<items, album, cover>>
           \/ /\ q.album \in items \cup {NoAlbum}
              /\ items' = items \cup {q.track}
              /\ album' = [album EXCEPT ![q.track] = q.album]
              /\ cover' = [cover EXCEPT ![q.track] = q.cover]
    BY <1>9 DEF InsertTrack
  <2> HIDE DEF q
  <2> QED BY <2>2, <2>3 DEF Columns, Whole
<1>10. ASSUME NEW m \in Moderator, Sanction(m) PROVE Columns' /\ Whole'
  <2>1. moderator[m].review.outcome \in AccountSanction
    BY <1>10 DEF Sanction, Moderation, Fits
  <2> QED BY <1>10, <2>1 DEF Sanction, Columns, Whole
<1>11. ASSUME NEW m \in Moderator, Uncover(m) PROVE Columns' /\ Whole'
  <2> DEFINE x == moderator[m].review.target.item
             i == IF x \in Track THEN NoImage ELSE Placeholder
  <2>1. x \in Content
    BY <1>11, Shapes DEF Uncover, Await, Reviewing, Review, Target
  <2>2. /\ UNCHANGED <<status, items, fresh, album>>
        /\ \/ UNCHANGED <<cover, stripped>>
           \/ /\ cover' = [cover EXCEPT ![x] = i]
              /\ stripped' = stripped \cup ({<<x, Shown(x)>>} \ {<<x, NoImage>>})
    BY <1>11 DEF Uncover
  <2>3. Shown(x) \in Image \cup {Placeholder, NoImage}
    BY <2>1, ShownType
  <2>4. {<<x, Shown(x)>>} \ {<<x, NoImage>>} \subseteq Content \X (Image \cup {Placeholder})
    BY <2>1, <2>3
  <2> HIDE DEF x
  <2> QED BY <2>1, <2>2, <2>4 DEF Columns, Whole
<1>12. ASSUME NEW m \in Moderator, Remove(m) PROVE Columns' /\ Whole'
  <2>1. CASE UNCHANGED <<items, album, cover, stripped>>
    BY <1>12, <2>1 DEF Remove, Columns, Whole
  <2>2. ASSUME NEW x, Delete({x}) PROVE Columns' /\ Whole'
    BY <1>12, <2>2, Deletes DEF Remove, Columns
  <2> QED BY <1>12, <2>1, <2>2 DEF Remove
<1>13. CASE UNCHANGED <<rows, stripped>>
  BY <1>13 DEF Columns, Whole
<1>14. ASSUME NEW m \in Moderator,
              \/ \E by \in Admin, v \in Review : CreateReview(m, by, v)
              \/ StoreReview(m) \/ FindUser(m) \/ FindCover(m) \/ FindContent(m) \/ Notify(m)
              \/ ModeratorFails(m)
       PROVE  UNCHANGED <<rows, stripped>>
  BY <1>14 DEF CreateReview, StoreReview, FindUser, FindCover, FindContent, Notify, ModeratorFails
<1>15. ASSUME \/ \E r \in Request : FindAlbum(r) \/ RequestFails(r)
              \/ \E d \in Draw : Sample(d) \/ EndSample(d) \/ \E c \in BOOLEAN : BeginSample(d, c)
              \/ \E target \in Drawn : CoolDown(target)
       PROVE  UNCHANGED <<rows, stripped>>
  BY <1>15 DEF FindAlbum, RequestFails, Sample, EndSample, BeginSample, CoolDown
<1> QED BY <1>1, <1>2, <1>3, <1>4, <1>5, <1>6, <1>7, <1>8, <1>9, <1>10, <1>11, <1>12, <1>13,
           <1>14, <1>15 DEF Next

(* An upload ends, and at most its own track has come.                      *)
LEMMA UploadEnds ==
  ASSUME Uploads, NEW r \in Request, request[r] # Idle,
         request' = [request EXCEPT ![r] = Idle],
         (fresh \cup items)' \subseteq fresh \cup items \cup {request[r].track}
  PROVE  Uploads'
<1>1. /\ request' \in [Request -> {Idle} \cup Creating]
      /\ request'[r] = Idle
      /\ \A o \in Request \ {r} : request'[o] = request[o]
  BY DEF Uploads
<1>2. \A o \in Request : request'[o] # Idle => o # r /\ request'[o] = request[o]
  BY <1>1
<1>3. \A o \in Request : request'[o] # Idle => request'[o].track \notin fresh' \cup items'
  BY <1>2 DEF Uploads
<1>4. \A o \in Request : request'[o].pc = "insert" => request'[o].cover # NoImage
  BY <1>1 DEF Uploads, Idle
<1>5. \A o, p \in Request :
        o # p /\ request'[o] # Idle /\ request'[p] # Idle => request'[o].track # request'[p].track
  BY <1>2 DEF Uploads
<1> QED BY <1>1, <1>3, <1>4, <1>5 DEF Uploads

(* An upload stands where it arrives, with the track it has.                *)
LEMMA UploadGoesOn ==
  ASSUME Uploads, NEW r \in Request, NEW q \in Creating, q # Idle,
         q.track \notin (fresh \cup items)', q.pc = "insert" => q.cover # NoImage,
         \A o \in Request \ {r} : request[o] # Idle => request[o].track # q.track,
         request' = [request EXCEPT ![r] = q],
         (fresh \cup items)' \subseteq fresh \cup items
  PROVE  Uploads'
<1>1. /\ request' \in [Request -> {Idle} \cup Creating]
      /\ request'[r] = q
      /\ \A o \in Request \ {r} : request'[o] = request[o]
  BY DEF Uploads
<1>3. \A o \in Request : request'[o] # Idle => request'[o].track \notin fresh' \cup items'
  BY <1>1 DEF Uploads
<1>4. \A o \in Request : request'[o].pc = "insert" => request'[o].cover # NoImage
  BY <1>1 DEF Uploads
<1>5. \A o, p \in Request :
        o # p /\ request'[o] # Idle /\ request'[p] # Idle => request'[o].track # request'[p].track
  BY <1>1 DEF Uploads
<1> QED BY <1>1, <1>3, <1>4, <1>5 DEF Uploads

LEMMA UploadsStep == Columns /\ Whole /\ Uploads /\ [Next]_vars => Uploads'
<1> SUFFICES ASSUME Columns, Whole, Uploads, [Next]_vars PROVE Uploads'
  OBVIOUS
<1>1. ASSUME NEW a \in Album, NEW i \in Image, CreateAlbum(a, i) PROVE Uploads'
  <2>1. request' = request /\ items' \cup fresh' = items \cup fresh
    BY <1>1 DEF CreateAlbum
  <2> QED BY <2>1 DEF Uploads
<1>2. ASSUME NEW t \in Track, NEW a \in Album \cup {NoAlbum}, NEW r \in Request,
             NEW i \in Image \cup {NoImage}, CreateTrack(r, t, a, i)
      PROVE  Uploads'
  <2> DEFINE q == [pc |-> IF a = NoAlbum THEN "insert" ELSE "findAlbum", track |-> t,
                   album |-> a, cover |-> i]
  <2>1. /\ q \in Creating /\ q # Idle /\ q.track = t
        /\ q.pc = "insert" => q.cover # NoImage
    BY <1>2 DEF CreateTrack, Creating, Idle
  <2>2. /\ request' = [request EXCEPT ![r] = q]
        /\ t \in fresh /\ fresh' = fresh \ {t} /\ items' = items
    BY <1>2 DEF CreateTrack
  <2> HIDE DEF q
  <2>3. q.track \notin fresh' \cup items'
    BY <2>1, <2>2 DEF Columns
  <2>4. \A o \in Request \ {r} : request[o] # Idle => request[o].track # q.track
    BY <2>1, <2>2 DEF Uploads
  <2>5. fresh' \cup items' \subseteq fresh \cup items
    BY <2>2
  <2> QED BY <2>1, <2>2, <2>3, <2>4, <2>5, UploadGoesOn
<1>3. ASSUME NEW r \in Request, FindAlbum(r) PROVE Uploads'
  <2>1. request[r] \in Creating /\ request[r] # Idle
    BY <1>3, UploadShapes DEF FindAlbum
  <2>2. UNCHANGED <<fresh, items>>
    BY <1>3 DEF FindAlbum
  <2>3. CASE request' = [request EXCEPT ![r] = Idle]
    BY <2>1, <2>2, <2>3, UploadEnds
  <2>4. CASE request' # [request EXCEPT ![r] = Idle]
    <3> DEFINE i == IF request[r].cover = NoImage THEN cover[request[r].album] ELSE request[r].cover
               q == [request[r] EXCEPT !.pc = "insert", !.cover = i]
    <3>1. request' = [request EXCEPT ![r] = q] /\ request[r].album \in items
      BY <1>3, <2>4 DEF FindAlbum
    <3>2. request[r].album \in items \cap Album
      BY <2>1, <3>1 DEF Creating, Columns
    <3>3. i \in (Image \cup {Placeholder, NoImage}) \ {NoImage}
      BY <2>1, <3>2 DEF Creating, Columns, Whole
    <3> HIDE DEF i
    <3>4. /\ q \in Creating /\ q # Idle /\ q.track = request[r].track
          /\ q.pc = "insert" /\ q.cover # NoImage
      BY <2>1, <3>3 DEF Creating, Idle
    <3> HIDE DEF q
    <3>5. /\ q.track \notin fresh' \cup items'
          /\ \A o \in Request \ {r} : request[o] # Idle => request[o].track # q.track
      BY <2>1, <2>2, <3>4 DEF Uploads
    <3> QED BY <2>2, <3>1, <3>4, <3>5, UploadGoesOn
  <2> QED BY <2>3, <2>4
<1>4. ASSUME NEW r \in Request, InsertTrack(r) PROVE Uploads'
  <2>1. request[r] # Idle /\ request' = [request EXCEPT ![r] = Idle]
    BY <1>4, UploadShapes DEF InsertTrack
  <2>2. fresh' \cup items' \subseteq fresh \cup items \cup {request[r].track}
    BY <1>4 DEF InsertTrack
  <2> QED BY <2>1, <2>2, UploadEnds
<1>5. ASSUME NEW r \in Request, RequestFails(r) PROVE Uploads'
  BY <1>5, UploadEnds DEF RequestFails
<1>6. ASSUME request' = request, fresh' = fresh, items' \subseteq items PROVE Uploads'
  BY <1>6 DEF Uploads
<1>7. ASSUME \/ \E x \in Content : RemoveContent(x)
             \/ \E u \in User : DeleteAccount(u)
             \/ \E m \in Moderator : Remove(m)
      PROVE  request' = request /\ fresh' = fresh /\ items' \subseteq items
  BY <1>7 DEF RemoveContent, DeleteAccount, Remove, Delete
<1>8. ASSUME \/ \E t \in Track, i \in Image : SetTrackCover(t, i)
             \/ \E a \in Album, i \in Image : SetAlbumCover(a, i)
             \/ \E t \in Track, a \in Album \cup {NoAlbum} : SetAlbum(t, a)
             \/ \E u \in User, new \in {"ACTIVE"} \cup AccountSanction : SetStatus(u, new)
             \/ \E target \in Drawn : CoolDown(target)
             \/ \E d \in Draw : Sample(d) \/ EndSample(d) \/ \E c \in BOOLEAN : BeginSample(d, c)
      PROVE  UNCHANGED <<request, fresh, items>>
  BY <1>8 DEF SetTrackCover, SetAlbumCover, SetAlbum, SetStatus, CoolDown, Sample, EndSample,
     BeginSample
<1>9. ASSUME NEW m \in Moderator,
             \/ \E by \in Admin, v \in Review : CreateReview(m, by, v)
             \/ StoreReview(m) \/ FindUser(m) \/ Sanction(m) \/ FindCover(m) \/ Uncover(m)
             \/ FindContent(m) \/ Notify(m) \/ ModeratorFails(m)
      PROVE  UNCHANGED <<request, fresh, items>>
  BY <1>9 DEF CreateReview, StoreReview, FindUser, Sanction, FindCover, Uncover, FindContent,
     Notify, ModeratorFails
<1>10. CASE UNCHANGED vars
  BY <1>6, <1>10
<1> QED BY <1>1, <1>2, <1>3, <1>4, <1>5, <1>6, <1>7, <1>8, <1>9, <1>10 DEF Next

-----------------------------------------------------------------------------
(* Samples.  While a sample is drawn, what it leaves out is all that is     *)
(* found OK of its kind; a review that finds more stops it.                 *)
Samples ==
  /\ cooling \subseteq Drawn
  /\ draw \in [Draw -> {Idle} \cup Sampling]
  /\ \A d \in Draw : draw[d].pc = "pool" =>
       \A v \in cooling : v.cover = draw[d].cover => v.item \in draw[d].sample

LEMMA SampleShapes ==
  ASSUME Samples, NEW d \in Draw
  PROVE  /\ draw[d] # Idle => draw[d] \in Sampling
         /\ draw[d].pc # "idle" => draw[d] # Idle
  BY DEF Samples, Sampling, Idle

LEMMA SamplesStep ==
  Samples /\ SampleSkipsChecked /\ Columns /\ Moderation /\ [Next]_vars
    => Samples' /\ SampleSkipsChecked'
<1> SUFFICES ASSUME Samples, SampleSkipsChecked, Columns, Moderation, [Next]_vars
             PROVE  Samples' /\ SampleSkipsChecked'
  OBVIOUS
(* Less that is found OK stops no sample.                                   *)
<1>1. ASSUME draw' = draw, cooling' \subseteq cooling PROVE Samples' /\ SampleSkipsChecked'
  BY <1>1 DEF Samples, SampleSkipsChecked
<1>2. ASSUME NEW m \in Moderator, StoreReview(m) PROVE Samples' /\ SampleSkipsChecked'
  <2> DEFINE v == moderator[m].review
  <2>1. CASE v.outcome # "OK"
    BY <1>1, <1>2, <2>1 DEF StoreReview
  <2>2. CASE v.outcome = "OK"
    <3>1. /\ cooling' \subseteq (cooling \cup {v.target}) \cap Drawn
          /\ draw' = [d \in Draw |->
               IF draw[d] # Idle /\ draw[d].cover = v.target.cover THEN Idle ELSE draw[d]]
      BY <1>2, <2>2 DEF StoreReview, Samples
    <3> HIDE DEF v
    <3>2. \A d \in Draw : draw'[d] = Idle \/ (draw'[d] = draw[d] /\ draw[d].cover # v.target.cover)
      BY <3>1 DEF Samples
    <3>3. draw' \in [Draw -> {Idle} \cup Sampling]
      BY <3>1 DEF Samples
    <3>4. Idle.pc = "idle"
      BY DEF Idle
    <3>5. Samples'
      BY <3>1, <3>2, <3>3, <3>4 DEF Samples
    <3>6. SampleSkipsChecked'
      <4> SUFFICES ASSUME NEW d \in Draw, draw'[d].pc = "sampled", NEW x \in draw'[d].sample
                   PROVE  [cover |-> draw'[d].cover, item |-> x] \notin cooling'
        BY DEF SampleSkipsChecked
      <4>1. draw'[d] = draw[d] /\ draw[d].cover # v.target.cover
        BY <3>2, <3>4
      <4>2. [cover |-> draw[d].cover, item |-> x] \notin cooling
        BY <4>1 DEF SampleSkipsChecked
      <4> DEFINE w == [cover |-> draw[d].cover, item |-> x]
      <4>3. w # v.target
        <5>1. w.cover # v.target.cover
          BY <4>1
        <5> QED BY <5>1
      <4> QED BY <3>1, <4>1, <4>2, <4>3
    <3> QED BY <3>5, <3>6
  <2> QED BY <2>1, <2>2
<1>3. ASSUME NEW d \in Draw, NEW c \in BOOLEAN, BeginSample(d, c)
      PROVE  Samples' /\ SampleSkipsChecked'
  <2> DEFINE out == {v.item : v \in {w \in cooling : w.cover = c}}
             q == [pc |-> "pool", cover |-> c, sample |-> out]
  <2>1. out \subseteq Content
    BY DEF Samples, Drawn, Target
  <2>2. draw' = [draw EXCEPT ![d] = q] /\ cooling' = cooling
    BY <1>3 DEF BeginSample
  <2>3. q \in Sampling /\ \A v \in cooling : v.cover = q.cover => v.item \in q.sample
    BY <2>1 DEF Sampling
  <2>4. q.pc = "pool"
    OBVIOUS
  <2> HIDE DEF q
  <2> QED BY <2>2, <2>3, <2>4 DEF Samples, SampleSkipsChecked
<1>4. ASSUME NEW d \in Draw, Sample(d) PROVE Samples' /\ SampleSkipsChecked'
  <2>1. draw[d] \in Sampling /\ draw[d].pc = "pool"
    BY <1>4, SampleShapes DEF Sample
  <2>2. PICK picked \in SUBSET (Sampled(draw[d].cover) \ draw[d].sample) :
          draw' = [draw EXCEPT ![d].pc = "sampled", ![d].sample = picked]
    BY <1>4 DEF Sample
  <2> DEFINE q == [draw[d] EXCEPT !.pc = "sampled", !.sample = picked]
  <2>3. draw' = [draw EXCEPT ![d] = q] /\ cooling' = cooling
    BY <1>4, <2>2 DEF Sample, Samples
  <2>4. picked \subseteq Content
    BY <2>2 DEF Sampled, Columns
  <2>5. q \in Sampling /\ q.pc = "sampled" /\ q.sample = picked /\ q.cover = draw[d].cover
    BY <2>1, <2>4 DEF Sampling
  <2>6. \A x \in picked : [cover |-> q.cover, item |-> x] \notin cooling
    BY <2>1, <2>2, <2>5 DEF Samples
  <2> HIDE DEF q
  <2> QED BY <2>3, <2>5, <2>6 DEF Samples, SampleSkipsChecked
<1>5. ASSUME NEW d \in Draw, EndSample(d) PROVE Samples' /\ SampleSkipsChecked'
  <2>1. draw' = [draw EXCEPT ![d] = Idle] /\ cooling' = cooling
    BY <1>5 DEF EndSample
  <2>2. Idle.pc = "idle"
    BY DEF Idle
  <2> HIDE DEF Idle
  <2> QED BY <2>1, <2>2 DEF Samples, SampleSkipsChecked
<1>6. ASSUME \/ \E a \in Album, i \in Image : CreateAlbum(a, i) \/ SetAlbumCover(a, i)
             \/ \E t \in Track, i \in Image : SetTrackCover(t, i)
             \/ \E x \in Content : RemoveContent(x)
             \/ \E t \in Track, a \in Album \cup {NoAlbum} :
                  \/ SetAlbum(t, a)
                  \/ \E r \in Request, i \in Image \cup {NoImage} : CreateTrack(r, t, a, i)
             \/ \E u \in User :
                  DeleteAccount(u) \/ \E new \in {"ACTIVE"} \cup AccountSanction : SetStatus(u, new)
             \/ \E r \in Request : FindAlbum(r) \/ InsertTrack(r) \/ RequestFails(r)
             \/ \E target \in Drawn : CoolDown(target)
      PROVE  draw' = draw /\ cooling' \subseteq cooling
  BY <1>6 DEF CreateAlbum, SetAlbumCover, SetTrackCover, RemoveContent, SetAlbum, CreateTrack,
     DeleteAccount, SetStatus, FindAlbum, InsertTrack, RequestFails, CoolDown, Delete
<1>7. ASSUME NEW m \in Moderator,
             \/ \E by \in Admin, v \in Review : CreateReview(m, by, v)
             \/ FindUser(m) \/ Sanction(m) \/ FindCover(m) \/ Uncover(m) \/ FindContent(m)
             \/ Remove(m) \/ Notify(m) \/ ModeratorFails(m)
      PROVE  draw' = draw /\ cooling' \subseteq cooling
  BY <1>7 DEF CreateReview, FindUser, Sanction, FindCover, Uncover, FindContent, Remove, Notify,
     ModeratorFails, Delete
<1>8. CASE UNCHANGED vars
  BY <1>1, <1>8
<1> QED BY <1>1, <1>2, <1>3, <1>4, <1>5, <1>6, <1>7, <1>8 DEF Next

-----------------------------------------------------------------------------
Reviews == Moderation /\ Columns /\ Whole /\ Uploads /\ Samples /\ SampleSkipsChecked

LEMMA ReviewsInit == Init => Reviews
<1> SUFFICES ASSUME Init PROVE Reviews
  OBVIOUS
<1>1. Moderation
  BY DEF Init, Moderation, ModeratorState, Fits, Idle
<1>2. Columns /\ Whole
  BY DEF Init, Columns, Whole
<1>3. Uploads
  BY DEF Init, Uploads, Idle
<1>4. Samples /\ SampleSkipsChecked
  BY DEF Init, Samples, SampleSkipsChecked, Idle
<1> QED BY <1>1, <1>2, <1>3, <1>4 DEF Reviews

LEMMA ReviewsAlways == Spec => []Reviews
<1>1. Reviews /\ [Next]_vars => Reviews'
  BY ModerationStep, ColumnsStep, UploadsStep, SamplesStep DEF Reviews
<1> QED BY <1>1, ReviewsInit, PTL DEF Spec

(* TypeCorrect: the types of the rows and of all requests; every album has  *)
(* a cover, and the album of a track is there.                              *)
THEOREM TypeCorrect == Spec => []TypeOK
<1>1. Reviews => TypeOK
  BY DEF Reviews, Moderation, ModeratorState, Columns, Whole, Uploads, Samples, TypeOK
<1> QED BY <1>1, ReviewsAlways, PTL

(* SamplesSkip: recentOkTargetIds is read before the pool, and nothing that *)
(* was OK by then is drawn, whatever is found, removed or uploaded between. *)
THEOREM SamplesSkip == Spec => []SampleSkipsChecked
<1>1. Reviews => SampleSkipsChecked
  BY DEF Reviews
<1> QED BY <1>1, ReviewsAlways, PTL

-----------------------------------------------------------------------------
(* An outcome stays on record until its review has acted.                   *)
LEMMA OutcomesStep == Reviews /\ OutcomesAreTaken /\ [Next]_vars => OutcomesAreTaken'
<1> SUFFICES ASSUME Reviews, OutcomesAreTaken, [Next]_vars, NEW v \in pending'
             PROVE  \/ status'[By[v.target.item]] = "deleted"
                    \/ \E m \in Moderator : moderator'[m].pc \in Await /\ moderator'[m].review = v
  BY DEF OutcomesAreTaken, Acting, Await
<1> DEFINE Done  == status[By[v.target.item]] = "deleted"
           Held(m) == moderator[m].pc \in Await /\ moderator[m].review = v
<1>a. Moderation /\ Columns
  BY DEF Reviews
<1>b. v \in pending => Done \/ \E m \in Moderator : Held(m)
  BY DEF OutcomesAreTaken, Acting, Await
<1>c. By[v.target.item] \in User
  <2>1. v \in Review
    BY <1>a, ModerationStep DEF Moderation
  <2> QED BY <2>1 DEF Review, Target
(* Nobody comes back.                                                       *)
<1>d. Done => status'[By[v.target.item]] = "deleted"
  <2> SUFFICES ASSUME Done PROVE status'[By[v.target.item]] = "deleted"
    OBVIOUS
  <2>1. ASSUME NEW u \in User, NEW new \in {"ACTIVE"} \cup AccountSanction, SetStatus(u, new)
        PROVE  status'[By[v.target.item]] = "deleted"
    BY <1>a, <1>c, <2>1 DEF SetStatus, Columns
  <2>2. ASSUME NEW u \in User, DeleteAccount(u) PROVE status'[By[v.target.item]] = "deleted"
    BY <1>a, <1>c, <2>2 DEF DeleteAccount, Columns
  <2>3. ASSUME NEW m \in Moderator, Sanction(m) PROVE status'[By[v.target.item]] = "deleted"
    BY <1>a, <1>c, <2>3 DEF Sanction, Columns
  <2>4. \/ status' = status
        \/ \E u \in User :
             DeleteAccount(u) \/ \E new \in {"ACTIVE"} \cup AccountSanction : SetStatus(u, new)
        \/ \E m \in Moderator : Sanction(m)
    BY DEF Next, CreateAlbum, SetTrackCover, SetAlbumCover, SetAlbum, CreateTrack, FindAlbum,
       InsertTrack, RequestFails, RemoveContent, CreateReview, StoreReview, FindUser, FindCover,
       Uncover, FindContent, Remove, Notify, ModeratorFails, Sample, EndSample, BeginSample,
       CoolDown
  <2> QED BY <2>1, <2>2, <2>3, <2>4
(* A moderator that leaves the review of another alone.                     *)
<1>e. ASSUME NEW m \in Moderator, v \in pending, ~Held(m),
             \A o \in Moderator \ {m} : moderator'[o] = moderator[o]
      PROVE  Done \/ \E o \in Moderator : moderator'[o].pc \in Await /\ moderator'[o].review = v
  BY <1>b, <1>e
<1>1. ASSUME NEW m \in Moderator, NEW by \in Admin, NEW w \in Review, CreateReview(m, by, w)
      PROVE  Done \/ \E o \in Moderator : moderator'[o].pc \in Await /\ moderator'[o].review = v
  <2>1. v \in pending /\ ~Held(m) /\ \A o \in Moderator \ {m} : moderator'[o] = moderator[o]
    BY <1>1, <1>a DEF CreateReview, Moderation, Await
  <2> QED BY <2>1, <1>e
<1>2. ASSUME NEW m \in Moderator, StoreReview(m)
      PROVE  Done \/ \E o \in Moderator : moderator'[o].pc \in Await /\ moderator'[o].review = v
  <2>1. moderator[m] \in Reviewing /\ ~Held(m)
    BY <1>2, <1>a, Shapes DEF StoreReview, Await
  <2>2. \A o \in Moderator \ {m} : moderator'[o] = moderator[o]
    BY <1>2, <1>a DEF StoreReview, Answered, Tell, Goto, Moderation
  <2>3. CASE v \in pending
    BY <2>1, <2>2, <2>3, <1>e
  <2>4. CASE v \notin pending
    <3> DEFINE pc == Effect(v.outcome)
    <3>1. v = moderator[m].review /\ v.outcome # "OK" /\ v.outcome # "WARNING"
      BY <1>2, <2>4 DEF StoreReview
    <3>2. v.outcome \in Outcome
      BY <2>1, <3>1 DEF Reviewing, Review
    <3>3. pc \in Await /\ pc # "notify"
      BY <3>1, <3>2, Leads DEF Await
    <3>4. Goto(m, pc)
      BY <1>2, <3>1, <3>3 DEF StoreReview
    <3> HIDE DEF pc
    <3> QED BY <1>a, <2>1, <3>1, <3>3, <3>4, GoesOn
  <2> QED BY <2>3, <2>4
(* A review that goes on stays on record, and one that ends is settled.     *)
<1>3. ASSUME NEW m \in Moderator, v \in pending, moderator[m] \in Reviewing,
             NEW pc \in Await, Goto(m, pc), moderator[m].pc \in Await
      PROVE  Done \/ \E o \in Moderator : moderator'[o].pc \in Await /\ moderator'[o].review = v
  <2>1. /\ moderator'[m].pc = pc /\ moderator'[m].review = moderator[m].review
        /\ \A o \in Moderator \ {m} : moderator'[o] = moderator[o]
    BY <1>3, <1>a, GoesOn
  <2> QED BY <1>3, <1>b, <2>1
<1>4. ASSUME NEW m \in Moderator, Answered(m) \/ Tell(m), Settled(m)
      PROVE  Done \/ \E o \in Moderator : moderator'[o].pc \in Await /\ moderator'[o].review = v
  <2>1. v \in pending /\ moderator[m].review # v
    BY <1>4 DEF Settled
  <2> QED BY <1>4, <1>a, <1>e, <2>1, Ends
<1>5. ASSUME NEW m \in Moderator, FindUser(m)
      PROVE  Done \/ \E o \in Moderator : moderator'[o].pc \in Await /\ moderator'[o].review = v
  <2>1. moderator[m] \in Reviewing /\ moderator[m].pc \in Await
    BY <1>5, <1>a, Shapes DEF FindUser, Await
  <2>2. CASE Lose(m)
    BY <2>2, <1>4 DEF Lose
  <2>3. CASE ~Lose(m)
    <3>1. v \in pending
      BY <1>5, <2>3 DEF FindUser
    <3>2. \/ Tell(m) /\ status[By[moderator[m].review.target.item]] = "deleted"
          \/ Goto(m, "sanction")
      BY <1>5, <2>3 DEF FindUser
    <3>3. CASE Goto(m, "sanction")
      BY <1>3, <2>1, <3>1, <3>3 DEF Await
    <3>4. CASE Tell(m) /\ status[By[moderator[m].review.target.item]] = "deleted"
      <4>1. CASE moderator[m].review = v
        BY <3>4, <4>1
      <4>2. CASE moderator[m].review # v
        BY <1>a, <1>e, <3>1, <3>4, <4>2, Ends
      <4> QED BY <4>1, <4>2
    <3> QED BY <3>2, <3>3, <3>4
  <2> QED BY <2>2, <2>3
<1>6. ASSUME NEW m \in Moderator, FindCover(m) \/ FindContent(m)
      PROVE  Done \/ \E o \in Moderator : moderator'[o].pc \in Await /\ moderator'[o].review = v
  <2>1. moderator[m] \in Reviewing /\ moderator[m].pc \in Await
    BY <1>6, <1>a, Shapes DEF FindCover, FindContent, Await
  <2>2. \/ Lose(m)
        \/ v \in pending /\ \E pc \in Await : Goto(m, pc)
    BY <1>6 DEF FindCover, FindContent, Await
  <2> QED BY <1>3, <1>4, <2>1, <2>2 DEF Lose
<1>7. ASSUME NEW m \in Moderator, Sanction(m) \/ Uncover(m) \/ Remove(m)
      PROVE  Done \/ \E o \in Moderator : moderator'[o].pc \in Await /\ moderator'[o].review = v
  <2>1. Lose(m) \/ Take(m)
    BY <1>7 DEF Sanction, Uncover, Remove
  <2> QED BY <1>4, <2>1 DEF Lose, Take
<1>8. ASSUME NEW m \in Moderator, Notify(m) \/ ModeratorFails(m)
      PROVE  Done \/ \E o \in Moderator : moderator'[o].pc \in Await /\ moderator'[o].review = v
  <2>1. CASE Lose(m)
    BY <1>4, <2>1 DEF Lose
  <2>2. CASE ~Lose(m)
    <3>1. v \in pending /\ ~Held(m) /\ Answered(m)
      BY <1>8, <2>2 DEF Notify, ModeratorFails, Acting, Await
    <3> QED BY <1>a, <1>e, <3>1, Ends
  <2> QED BY <2>1, <2>2
<1>9. CASE UNCHANGED <<moderator, pending>>
  BY <1>9, <1>b, <1>d
<1>10. \/ UNCHANGED <<moderator, pending>>
       \/ \E m \in Moderator :
            \/ \E by \in Admin, w \in Review : CreateReview(m, by, w)
            \/ StoreReview(m) \/ FindUser(m) \/ Sanction(m) \/ FindCover(m) \/ Uncover(m)
            \/ FindContent(m) \/ Remove(m) \/ Notify(m) \/ ModeratorFails(m)
  BY DEF Next, CreateAlbum, SetTrackCover, SetAlbumCover, SetAlbum, CreateTrack, FindAlbum,
     InsertTrack, RequestFails, RemoveContent, DeleteAccount, SetStatus, Sample, EndSample,
     BeginSample, CoolDown
<1> HIDE DEF Done
<1> QED BY <1>d, <1>1, <1>2, <1>5, <1>6, <1>7, <1>8, <1>9, <1>10

(* OutcomesAlwaysTaken: createReview puts an outcome on record before it    *)
(* acts on it, and the artist is not told before it did, whoever else       *)
(* sanctions, removes, uploads or leaves meanwhile.                         *)
THEOREM OutcomesAlwaysTaken == Spec => []OutcomesAreTaken
<1>1. Init => OutcomesAreTaken
  BY DEF Init, OutcomesAreTaken
<1> QED BY <1>1, OutcomesStep, ReviewsAlways, PTL DEF Spec

-----------------------------------------------------------------------------
(* Pictures.  A track that has none of its own lost it to a review, and     *)
(* nothing has as its own what a review took from it: uploads are new       *)
(* objects, and a track that copies the cover of its album has lost none    *)
(* itself by then.                                                          *)
Bare ==
  \A t \in items \cap Track :
    cover[t] = NoImage => \E i \in Image \cup {Placeholder} : <<t, i>> \in stripped

Lost ==
  /\ \A p \in stripped : p[1] \in items
  /\ \A p \in stripped : p[2] \in Image => cover[p[1]] # p[2]

(* A cover of an upload.                                                    *)
LEMMA CoverSet ==
  ASSUME Columns, Bare, Lost, NEW x \in Content, NEW i \in NewImage,
         cover' = [cover EXCEPT ![x] = i], stripped' = stripped,
         items \subseteq items', items' \cap Track = items \cap Track
  PROVE  Bare' /\ Lost'
<1>1. i \in Image /\ \A p \in stripped : p[2] # i
  BY DEF NewImage
<1>2. \A y \in Content : cover'[y] = IF y = x THEN i ELSE cover[y]
  BY DEF Columns
<1>3. \A p \in stripped : p[1] \in Content
  BY DEF Columns
<1>4. Bare'
  BY <1>1, <1>2 DEF Bare
<1>5. Lost'
  BY <1>1, <1>2, <1>3 DEF Lost
<1> QED BY <1>4, <1>5

LEMMA PicturesDeleted ==
  ASSUME Columns, Bare, Lost, NEW gone, Delete(gone) PROVE Bare' /\ Lost'
<1>1. /\ items' = items \ gone
      /\ stripped' = {p \in stripped : p[1] \notin gone}
      /\ \A x \in Content \ gone : cover'[x] = cover[x]
  BY DEF Delete
<1>2. items \subseteq Content
  BY DEF Columns
<1>3. Bare'
  <2> SUFFICES ASSUME NEW t \in items' \cap Track, cover'[t] = NoImage
               PROVE  \E i \in Image \cup {Placeholder} : <<t, i>> \in stripped'
    BY DEF Bare
  <2>1. t \in items \cap Track /\ t \notin gone /\ cover[t] = NoImage
    BY <1>1, <1>2
  <2>2. PICK i \in Image \cup {Placeholder} : <<t, i>> \in stripped
    BY <2>1 DEF Bare
  <2>3. <<t, i>>[1] = t
    OBVIOUS
  <2>4. <<t, i>> \in stripped'
    BY <1>1, <2>1, <2>2, <2>3
  <2> QED BY <2>4
<1>4. Lost'
  BY <1>1, <1>2 DEF Lost
<1> QED BY <1>3, <1>4

LEMMA PicturesStep == Reviews /\ Bare /\ Lost /\ [Next]_vars => Bare' /\ Lost'
<1> SUFFICES ASSUME Reviews, Bare, Lost, [Next]_vars PROVE Bare' /\ Lost'
  OBVIOUS
<1>a. Moderation /\ Columns /\ Whole /\ Uploads
  BY DEF Reviews
<1>1. ASSUME NEW a \in Album, NEW i \in Image, CreateAlbum(a, i) PROVE Bare' /\ Lost'
  BY <1>1, <1>a, CoverSet DEF CreateAlbum
<1>2. ASSUME NEW a \in Album, NEW i \in Image, SetAlbumCover(a, i) PROVE Bare' /\ Lost'
  BY <1>2, <1>a, CoverSet DEF SetAlbumCover
<1>3. ASSUME NEW t \in Track, NEW i \in Image, SetTrackCover(t, i) PROVE Bare' /\ Lost'
  BY <1>3, <1>a, CoverSet DEF SetTrackCover
<1>4. ASSUME NEW gone, Delete(gone) PROVE Bare' /\ Lost'
  BY <1>4, <1>a, PicturesDeleted
<1>5. ASSUME NEW r \in Request, InsertTrack(r) PROVE Bare' /\ Lost'
  <2> DEFINE q == request[r]
  <2>1. /\ q \in Creating /\ q # Idle /\ q.pc = "insert"
    BY <1>5, <1>a, UploadShapes DEF InsertTrack
  <2>2. /\ q.track \in Track /\ q.track \notin items /\ q.cover # NoImage
    BY <1>a, <2>1 DEF Creating, Uploads
  <2>3. /\ stripped' = stripped
        /\ \/ UNCHANGED <<items, cover>>
           \/ items' = items \cup {q.track} /\ cover' = [cover EXCEPT ![q.track] = q.cover]
    BY <1>5 DEF InsertTrack
  <2> HIDE DEF q
  <2>4. CASE UNCHANGED <<items, cover>>
    BY <2>3, <2>4 DEF Bare, Lost
  <2>5. CASE items' = items \cup {q.track} /\ cover' = [cover EXCEPT ![q.track] = q.cover]
    <3>1. \A x \in Content : cover'[x] = IF x = q.track THEN q.cover ELSE cover[x]
      BY <1>a, <2>5 DEF Columns
    <3>2. items \subseteq Content
      BY <1>a DEF Columns
    <3>3. Bare'
      BY <2>2, <2>3, <2>5, <3>1, <3>2 DEF Bare
    <3>4. Lost'
      BY <2>2, <2>3, <2>5, <3>1, <3>2 DEF Lost
    <3> QED BY <3>3, <3>4
  <2> QED BY <2>3, <2>4, <2>5
<1>6. ASSUME NEW m \in Moderator, Uncover(m) PROVE Bare' /\ Lost'
  <2> DEFINE x == moderator[m].review.target.item
             i == IF x \in Track THEN NoImage ELSE Placeholder
  <2>1. items' = items
    BY <1>6 DEF Uncover
  <2>2. \/ UNCHANGED <<cover, stripped>>
        \/ /\ x \in items
           /\ cover' = [cover EXCEPT ![x] = i]
           /\ stripped' = stripped \cup ({<<x, Shown(x)>>} \ {<<x, NoImage>>})
    BY <1>6 DEF Uncover
  <2> HIDE DEF x
  <2>3. CASE UNCHANGED <<cover, stripped>>
    BY <2>1, <2>3 DEF Bare, Lost
  <2>4. CASE x \in items /\ cover' = [cover EXCEPT ![x] = i]
             /\ stripped' = stripped \cup ({<<x, Shown(x)>>} \ {<<x, NoImage>>})
    <3>1. x \in Content /\ \A y \in Content : cover'[y] = IF y = x THEN i ELSE cover[y]
      BY <1>a, <2>4 DEF Columns
    <3>2. items \subseteq Content
      BY <1>a DEF Columns
    <3>3. i \notin Image
      OBVIOUS
    <3>4. Shown(x) \in Image \cup {Placeholder, NoImage}
      BY <1>a, <3>1, ShownType
    <3>5. Bare'
      <4> SUFFICES ASSUME NEW t \in items \cap Track, cover'[t] = NoImage
                   PROVE  \E j \in Image \cup {Placeholder} : <<t, j>> \in stripped'
        BY <2>1 DEF Bare
      <4>1. CASE t # x
        BY <2>4, <3>1, <4>1 DEF Bare
      <4>2. CASE t = x /\ Shown(x) # NoImage
        <5>1. <<x, Shown(x)>> # <<x, NoImage>>
          BY <4>2
        <5> QED BY <2>4, <3>4, <4>2, <5>1
      <4>3. CASE t = x /\ Shown(x) = NoImage
        <5>1. cover[x] = NoImage
          BY <4>3 DEF Shown
        <5> QED BY <2>4, <4>3, <5>1 DEF Bare
      <4> QED BY <4>1, <4>2, <4>3
    <3>6. Lost'
      <4> SUFFICES ASSUME NEW p \in stripped'
                   PROVE  p[1] \in items /\ (p[2] \in Image => cover'[p[1]] # p[2])
        BY <2>1 DEF Lost
      <4>1. p \in stripped \/ p = <<x, Shown(x)>>
        BY <2>4
      <4>2. p[1] \in items
        BY <2>4, <4>1 DEF Lost
      <4>3. p[1] = x => cover'[p[1]] \notin Image
        BY <3>1, <3>3
      <4>4. p[1] # x => p \in stripped /\ cover'[p[1]] = cover[p[1]]
        BY <3>1, <3>2, <4>1, <4>2
      <4> QED BY <4>2, <4>3, <4>4 DEF Lost
    <3> QED BY <3>5, <3>6
  <2> QED BY <2>2, <2>3, <2>4
<1>7. CASE UNCHANGED <<items, cover, stripped>>
  BY <1>7 DEF Bare, Lost
<1>8. ASSUME \/ \E x \in Content : RemoveContent(x)
             \/ \E u \in User : DeleteAccount(u)
             \/ \E m \in Moderator : Remove(m)
      PROVE  UNCHANGED <<items, cover, stripped>> \/ \E gone \in SUBSET Content : Delete(gone)
  <2>1. ASSUME NEW x \in Content, RemoveContent(x) PROVE \E gone \in SUBSET Content : Delete(gone)
    <3>1. {x} \in SUBSET Content /\ Delete({x})
      BY <2>1 DEF RemoveContent
    <3> QED BY <3>1
  <2>2. ASSUME NEW u \in User, DeleteAccount(u) PROVE \E gone \in SUBSET Content : Delete(gone)
    <3>1. {x \in items : By[x] = u} \in SUBSET Content /\ Delete({x \in items : By[x] = u})
      BY <1>a, <2>2 DEF DeleteAccount, Columns
    <3> QED BY <3>1
  <2>3. ASSUME NEW m \in Moderator, Remove(m)
        PROVE  UNCHANGED <<items, cover, stripped>> \/ \E gone \in SUBSET Content : Delete(gone)
    <3> DEFINE x == moderator[m].review.target.item
    <3>1. \/ UNCHANGED <<items, cover, stripped>>
          \/ x \in items /\ Delete({x})
      BY <2>3 DEF Remove
    <3> HIDE DEF x
    <3>2. x \in items => {x} \in SUBSET Content
      BY <1>a DEF Columns
    <3> QED BY <3>1, <3>2
  <2> QED BY <1>8, <2>1, <2>2, <2>3
<1>9. ASSUME NEW m \in Moderator,
             \/ \E by \in Admin, v \in Review : CreateReview(m, by, v)
             \/ StoreReview(m) \/ FindUser(m) \/ Sanction(m) \/ FindCover(m) \/ FindContent(m)
             \/ Notify(m) \/ ModeratorFails(m)
      PROVE  UNCHANGED <<items, cover, stripped>>
  BY <1>9 DEF CreateReview, StoreReview, FindUser, Sanction, FindCover, FindContent, Notify,
     ModeratorFails
<1>10. ASSUME \/ \E t \in Track, a \in Album \cup {NoAlbum} :
                   \/ SetAlbum(t, a)
                   \/ \E r \in Request, i \in Image \cup {NoImage} : CreateTrack(r, t, a, i)
              \/ \E u \in User, new \in {"ACTIVE"} \cup AccountSanction : SetStatus(u, new)
              \/ \E r \in Request : FindAlbum(r) \/ RequestFails(r)
              \/ \E d \in Draw : Sample(d) \/ EndSample(d) \/ \E c \in BOOLEAN : BeginSample(d, c)
              \/ \E target \in Drawn : CoolDown(target)
       PROVE  UNCHANGED <<items, cover, stripped>>
  BY <1>10 DEF SetAlbum, CreateTrack, SetStatus, FindAlbum, RequestFails, Sample, EndSample,
     BeginSample, CoolDown
<1>11. CASE UNCHANGED vars
  BY <1>7, <1>11
<1> QED BY <1>1, <1>2, <1>3, <1>4, <1>5, <1>6, <1>7, <1>8, <1>9, <1>10, <1>11 DEF Next

(* PicturesAlwaysFollow: no order of uploads, album changes, removals and   *)
(* reviews (removeCover) leaves a track without a picture that no review    *)
(* took, or brings back one that a review did.                              *)
THEOREM PicturesAlwaysFollow == Spec => []PicturesFollowReviews
<1>1. Init => Bare /\ Lost
  BY DEF Init, Bare, Lost
<1>2. ASSUME Columns, Bare, Lost PROVE PicturesFollowReviews
  <2>1. ASSUME NEW t \in items \cap Track, Shown(t) = NoImage PROVE cover[t] = NoImage
    BY <2>1 DEF Shown
  <2>2. ASSUME NEW p \in stripped, p[1] \in items, p[2] \in Image, Shown(p[1]) = p[2]
        PROVE  p[1] \in Track /\ cover[p[1]] = NoImage
    BY <1>2, <2>2 DEF Lost, Shown
  <2> QED BY <1>2, <2>1, <2>2 DEF Bare, PicturesFollowReviews
<1>3. Reviews /\ Bare /\ Lost => PicturesFollowReviews
  BY <1>2 DEF Reviews
<1> QED BY <1>1, <1>3, PicturesStep, ReviewsAlways, PTL DEF Spec

=============================================================================
