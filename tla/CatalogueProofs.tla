---------------------------- MODULE CatalogueProofs ----------------------------
(***************************************************************************)
(* What albums keep, for any artists, tracks, albums and requests.         *)
(***************************************************************************)
EXTENDS Catalogue, FiniteSetTheorems, SequenceTheorems, TLAPS

USE CatalogueAssumption DEF CatalogueAssumption, rows, history, vars, At, Position, NoPosition

Creates == {"findAlbum", "countTracks", "insert"}
Adds    == {"countAlbum", "findTracks", "attach"}
Removes == {"findTrack", "detach"}

LEMMA Shapes ==
  ASSUME TypeOK, NEW r \in Request
  PROVE  LET q == request[r]
         IN  /\ q \in RequestState
             /\ q.pc \in Creates => q \in Creating
             /\ q.pc \in Adds => q \in Adding
             /\ q.pc \in Removes => q \in Detaching
<1>1. request[r] \in RequestState
  BY DEF TypeOK
<1> QED BY <1>1 DEF RequestState, Idle, Creating, Adding, Detaching, Creates, Adds, Removes

(* What a request carries and has read.  A track that is being created is   *)
(* no row yet; an album that was found is no fresh id; a position comes     *)
(* from a count; and only tracks by the artist of an album go into it.      *)
Held(q) ==
  /\ q.pc \in Creates => q.track \notin items \cup fresh
  /\ q.pc = "findAlbum" => q.album # NoAlbum
  /\ q.pc = "countTracks" => q.album # NoAlbum /\ q.album \notin fresh /\ By[q.album] = By[q.track]
  /\ q.pc = "insert" /\ q.album # NoAlbum =>
       q.position \in Nat /\ q.album \notin fresh /\ By[q.album] = By[q.track]
  /\ q.pc \in Adds => q.left # <<>> /\ q.album \notin fresh
  /\ q.pc \in {"findTracks", "attach"} => q.position \in Nat
  /\ q.pc = "attach" => \A i \in DOMAIN q.left : By[q.left[i]] = By[q.album]

Creates1(r, o) ==
  request[r].pc \in Creates /\ request[o].pc \in Creates /\ request[r].track = request[o].track => r = o

RequestsHeld ==
  /\ \A r \in Request : Held(request[r])
  /\ \A r, o \in Request : Creates1(r, o)

(* What becomes of the requests in one step of one of them.                 *)
Only(r) == \A o \in Request \ {r} : request'[o] = request[o]
Typed   == request' \in [Request -> RequestState]

LEMMA Sets ==
  ASSUME TypeOK, NEW r \in Request, NEW q \in RequestState, request' = [request EXCEPT ![r] = q]
  PROVE  Typed /\ Only(r) /\ request'[r] = q
BY DEF TypeOK, Typed, Only

LEMMA Ends ==
  ASSUME TypeOK, NEW r \in Request, Answered(r)
  PROVE  Typed /\ Only(r) /\ request'[r] = Idle
BY DEF TypeOK, Answered, Typed, Only, RequestState

LEMMA GoesOn ==
  ASSUME TypeOK, NEW r \in Request, NEW pc, request' = [request EXCEPT ![r].pc = pc],
         \/ request[r] \in Creating /\ pc \in Creates
         \/ request[r] \in Adding /\ pc \in Adds
         \/ request[r] \in Detaching /\ pc \in Removes
  PROVE  /\ Typed /\ Only(r) /\ request'[r] = [request[r] EXCEPT !.pc = pc]
         /\ request[r] \in Creating => request'[r] \in Creating
         /\ request[r] \in Adding => request'[r] \in Adding
<1>1. PICK q : q = [request[r] EXCEPT !.pc = pc]
  OBVIOUS
<1>2. request' = [request EXCEPT ![r] = q]
  BY <1>1
<1>3. q \in RequestState /\ (request[r] \in Creating => q \in Creating) /\ (request[r] \in Adding => q \in Adding)
  BY <1>1 DEF RequestState, Creating, Adding, Detaching, Creates, Adds, Removes
<1> QED BY <1>1, <1>2, <1>3, Sets

(* Requests keep what they hold while they stand, as rows only come for     *)
(* tracks that are being created, and fresh ids only go.                    *)
LEMMA HeldStays ==
  ASSUME TypeOK, RequestsHeld, NEW r \in Request, Only(r), fresh' \subseteq fresh, Held(request[r])',
         \A o \in Request \ {r} : request[o].pc \in Creates => request[o].track \notin items',
         request'[r].pc \in Creates =>
           \A o \in Request \ {r} : request[o].pc \in Creates => request[o].track # request'[r].track
  PROVE  RequestsHeld'
<1>1. ASSUME NEW o \in Request PROVE Held(request[o])'
  BY <1>1 DEF RequestsHeld, Held, Only
<1>2. ASSUME NEW o \in Request, NEW p \in Request PROVE Creates1(o, p)'
  BY <1>2 DEF RequestsHeld, Creates1, Only
<1> QED BY <1>1, <1>2 DEF RequestsHeld

LEMMA HeldAlone ==
  ASSUME TypeOK, RequestsHeld, request' = request, fresh' \subseteq fresh,
         \A t \in items' \cap Track : t \in items
  PROVE  RequestsHeld'
<1>1. \A r \in Request : request[r].pc \in Creates => request[r].track \in Track
  BY Shapes DEF Creating
<1> QED BY <1>1 DEF RequestsHeld, Held, Creates1

LEMMA CountIsNat == ASSUME TypeOK, NEW a PROVE IsFiniteSet(Members(a)) /\ Cardinality(Members(a)) \in Nat
<1>1. Members(a) \subseteq Track
  BY DEF Members
<1> QED BY <1>1, FS_Subset, FS_CardinalityType

(* What each step makes of the request that takes it.                       *)
LEMMA AfterCreateTrack ==
  ASSUME TypeOK, NEW r \in Request, NEW t \in Track, NEW a \in Album \cup {NoAlbum}, CreateTrack(r, t, a)
  PROVE  /\ Typed /\ Only(r) /\ request[r].pc = "idle" /\ request'[r] \in Creating
         /\ request'[r].pc = (IF a = NoAlbum THEN "insert" ELSE "findAlbum")
         /\ request'[r].track = t /\ request'[r].album = a
<1> DEFINE q == [pc |-> IF a = NoAlbum THEN "insert" ELSE "findAlbum", track |-> t,
                 album |-> a, position |-> NoPosition]
<1>1. q \in Creating
  BY DEF Creating
<1>2. request[r].pc = "idle" /\ request' = [request EXCEPT ![r] = q]
  BY DEF CreateTrack, Begin
<1>3. q.pc = (IF a = NoAlbum THEN "insert" ELSE "findAlbum") /\ q.track = t /\ q.album = a
  OBVIOUS
<1> HIDE DEF q
<1> QED BY <1>1, <1>2, <1>3, Sets DEF RequestState

LEMMA AfterFindAlbum ==
  ASSUME TypeOK, NEW r \in Request, FindAlbum(r)
  PROVE  /\ Typed /\ Only(r) /\ request[r] \in Creating
         /\ \/ request'[r] = Idle
            \/ /\ request'[r] \in Creating /\ request'[r].pc = "countTracks"
               /\ request'[r].track = request[r].track /\ request'[r].album = request[r].album
               /\ request[r].album \in items /\ By[request[r].album] = By[request[r].track]
<1>1. request[r] \in Creating
  BY Shapes DEF FindAlbum, Creates
<1>2. CASE Answered(r)
  BY <1>1, <1>2, Ends
<1>3. CASE /\ request[r].album \in items /\ By[request[r].album] = By[request[r].track]
           /\ request' = [request EXCEPT ![r].pc = "countTracks"]
  <2>1. Typed /\ Only(r) /\ request'[r] = [request[r] EXCEPT !.pc = "countTracks"] /\ request'[r] \in Creating
    BY <1>1, <1>3, GoesOn DEF Creates
  <2> QED BY <1>1, <1>3, <2>1 DEF Creating
<1> QED BY <1>1, <1>2, <1>3 DEF FindAlbum

LEMMA AfterCountTracks ==
  ASSUME TypeOK, NEW r \in Request, CountTracks(r)
  PROVE  /\ Typed /\ Only(r) /\ request[r] \in Creating
         /\ \/ request'[r] = Idle /\ overlapped' = overlapped
            \/ /\ request'[r] \in Creating /\ request'[r].pc = "insert"
               /\ request'[r].track = request[r].track /\ request'[r].album = request[r].album
               /\ request'[r].position = Cardinality(Members(request[r].album))
               /\ Cardinality(Members(request[r].album)) < TracksMax /\ Overlap(r, request[r].album)
<1> DEFINE count == Cardinality(Members(request[r].album))
<1>1. request[r] \in Creating /\ count \in Nat
  BY Shapes, CountIsNat DEF CountTracks, Creates
<1>2. CASE Answered(r) /\ overlapped' = overlapped
  BY <1>1, <1>2, Ends
<1>3. CASE count < TracksMax /\ Overlap(r, request[r].album)
           /\ request' = [request EXCEPT ![r] = [request[r] EXCEPT !.pc = "insert", !.position = count]]
  <2>1. PICK n \in Nat : n = count
    BY <1>1
  <2>2. PICK q : q = [request[r] EXCEPT !.pc = "insert", !.position = n]
    OBVIOUS
  <2>3. /\ q \in Creating /\ q.pc = "insert" /\ q.position = n
        /\ q.track = request[r].track /\ q.album = request[r].album
    BY <1>1, <2>2 DEF Creating
  <2>4. request' = [request EXCEPT ![r] = q]
    BY <1>3, <2>1, <2>2
  <2>5. Typed /\ Only(r) /\ request'[r] = q
    BY <2>3, <2>4, Sets DEF RequestState
  <2> QED BY <1>1, <1>3, <2>1, <2>3, <2>5
<1> QED BY <1>1, <1>2, <1>3 DEF CountTracks

LEMMA AfterAddTracks ==
  ASSUME TypeOK, NEW r \in Request, NEW a \in Album, NEW ids \in TrackLists, AddTracks(r, a, ids)
  PROVE  /\ Typed /\ Only(r) /\ request[r].pc = "idle" /\ request'[r] \in Adding
         /\ request'[r].pc = "countAlbum" /\ request'[r].album = a /\ a \in items
         /\ request'[r].left # <<>>
<1> DEFINE q == [pc |-> "countAlbum", album |-> a, left |-> ids, position |-> NoPosition]
<1>1. ids \in Seq(Track) /\ ids # <<>>
  BY DEF TrackLists, IsList
<1>2. q \in Adding /\ q.pc = "countAlbum" /\ q.album = a /\ q.left = ids
  BY <1>1 DEF Adding
<1>3. request[r].pc = "idle" /\ request' = [request EXCEPT ![r] = q] /\ a \in items
  BY DEF AddTracks, Begin, RequireAlbum
<1> HIDE DEF q
<1> QED BY <1>1, <1>2, <1>3, Sets DEF RequestState

LEMMA AfterCountAlbum ==
  ASSUME TypeOK, NEW r \in Request, CountAlbum(r)
  PROVE  /\ Typed /\ Only(r) /\ request[r] \in Adding
         /\ \/ request'[r] = Idle /\ overlapped' = overlapped
            \/ /\ request'[r] \in Adding /\ request'[r].pc = "findTracks"
               /\ request'[r].left = request[r].left /\ request'[r].album = request[r].album
               /\ request'[r].position = Cardinality(Members(request[r].album))
               /\ Cardinality(Members(request[r].album)) + Len(request[r].left) <= TracksMax
               /\ Overlap(r, request[r].album)
<1> DEFINE count == Cardinality(Members(request[r].album))
<1>1. request[r] \in Adding /\ count \in Nat
  BY Shapes, CountIsNat DEF CountAlbum, Adds
<1>2. Len(request[r].left) \in Nat
  BY <1>1 DEF Adding
<1>3. CASE Answered(r) /\ overlapped' = overlapped
  BY <1>1, <1>3, Ends
<1>4. CASE count + Len(request[r].left) <= TracksMax /\ Overlap(r, request[r].album)
           /\ request' = [request EXCEPT ![r] = [request[r] EXCEPT !.pc = "findTracks", !.position = count]]
  <2>1. PICK n \in Nat : n = count
    BY <1>1
  <2>2. PICK q : q = [request[r] EXCEPT !.pc = "findTracks", !.position = n]
    OBVIOUS
  <2>3. /\ q \in Adding /\ q.pc = "findTracks" /\ q.position = n
        /\ q.left = request[r].left /\ q.album = request[r].album
    BY <1>1, <2>2 DEF Adding
  <2>4. request' = [request EXCEPT ![r] = q]
    BY <1>4, <2>1, <2>2
  <2>5. Typed /\ Only(r) /\ request'[r] = q
    BY <2>3, <2>4, Sets DEF RequestState
  <2> QED BY <1>1, <1>4, <2>1, <2>3, <2>5
<1> QED BY <1>1, <1>2, <1>3, <1>4 DEF CountAlbum

LEMMA AfterFindTracks ==
  ASSUME TypeOK, NEW r \in Request, FindTracks(r)
  PROVE  /\ Typed /\ Only(r) /\ request[r] \in Adding
         /\ \/ request'[r] = Idle
            \/ /\ request'[r] \in Adding /\ request'[r].pc = "attach"
               /\ request'[r].left = request[r].left /\ request'[r].album = request[r].album
               /\ request'[r].position = request[r].position
               /\ \A i \in DOMAIN request[r].left : By[request[r].left[i]] = By[request[r].album]
<1>1. request[r] \in Adding
  BY Shapes DEF FindTracks, Adds
<1>2. CASE Answered(r)
  BY <1>1, <1>2, Ends
<1>3. CASE /\ \A t \in Carried(r) : t \in items /\ By[t] = By[request[r].album]
           /\ request' = [request EXCEPT ![r].pc = "attach"]
  <2>1. Typed /\ Only(r) /\ request'[r] = [request[r] EXCEPT !.pc = "attach"] /\ request'[r] \in Adding
    BY <1>1, <1>3, GoesOn DEF Adds
  <2>2. \A i \in DOMAIN request[r].left : request[r].left[i] \in Carried(r)
    BY DEF FindTracks, Carried
  <2> QED BY <1>1, <1>3, <2>1, <2>2 DEF Adding
<1> QED BY <1>1, <1>2, <1>3 DEF FindTracks

LEMMA AfterAttachTrack ==
  ASSUME TypeOK, RequestsHeld, NEW r \in Request, AttachTrack(r)
  PROVE  LET q == request[r]
         IN  /\ Typed /\ Only(r) /\ q \in Adding /\ Head(q.left) \in Track
             /\ By[Head(q.left)] = By[q.album] /\ q.position \in Nat
             /\ \/ request'[r] = Idle
                \/ /\ request'[r] \in Adding /\ request'[r].pc = "attach"
                   /\ request'[r].left = Tail(q.left) /\ request'[r].album = q.album
                   /\ request'[r].position = q.position + 1 /\ Len(q.left) > 1
<1>1. /\ request[r] \in Adding /\ request[r].left # <<>> /\ request[r].pc = "attach"
      /\ request[r].position \in Nat
      /\ \A i \in DOMAIN request[r].left : By[request[r].left[i]] = By[request[r].album]
  BY Shapes DEF AttachTrack, Adds, RequestsHeld, Held
<1>2. PICK s \in Seq(Track) : s = request[r].left
  BY <1>1 DEF Adding
<1>3. Head(s) \in Track /\ By[Head(s)] = By[request[r].album]
  BY <1>1, <1>2
<1>4. CASE Answered(r) \/ request' = [request EXCEPT ![r] = Idle]
  BY <1>1, <1>2, <1>3, <1>4, Ends DEF Answered
<1>5. CASE /\ Len(s) # 1
           /\ request' = [request EXCEPT ![r] =
                [request[r] EXCEPT !.left = Tail(s), !.position = request[r].position + 1]]
  <2>1. s # <<>> /\ Len(s) # 1
    BY <1>1, <1>2, <1>5
  <2>2. Len(s) > 1 /\ Tail(s) \in Seq(Track)
    <3>1. Len(s) \in Nat \ {0}
      BY <1>2, <2>1, EmptySeq
    <3>2. Tail(s) \in Seq(Track)
      BY <1>2, <2>1, HeadTailProperties
    <3>3. \A n \in Nat \ {0} : n # 1 => n > 1
      OBVIOUS
    <3> QED BY <2>1, <3>1, <3>2, <3>3, Zenon
  <2>3. PICK n \in Nat : n = request[r].position + 1
    BY <1>1
  <2>8. PICK tail \in Seq(Track) : tail = Tail(s)
    BY <2>2
  <2>4. PICK q : q = [request[r] EXCEPT !.left = tail, !.position = n]
    OBVIOUS
  <2>5. q \in Adding /\ q.pc = "attach" /\ q.left = tail /\ q.position = n /\ q.album = request[r].album
    BY <1>1, <2>4 DEF Adding
  <2>6. request' = [request EXCEPT ![r] = q]
    BY <1>5, <2>3, <2>8, <2>4
  <2>7. Typed /\ Only(r) /\ request'[r] = q
    BY <2>5, <2>6, Sets DEF RequestState
  <2> QED BY <1>1, <1>2, <1>3, <2>2, <2>3, <2>8, <2>5, <2>7
<1> QED BY <1>2, <1>4, <1>5 DEF AttachTrack

LEMMA AfterRemoving ==
  ASSUME TypeOK, NEW r \in Request,
         FindTrack(r) \/ DetachTrack(r) \/ \E a \in Album, t \in Track : RemoveTrack(r, a, t)
  PROVE  /\ Typed /\ Only(r) /\ request'[r].pc \notin Creates \cup Adds
         /\ request[r].pc \notin Creates \cup Adds
<1>1. request[r].pc \notin Creates \cup Adds
  BY DEF FindTrack, DetachTrack, RemoveTrack, Begin, Creates, Adds
<1>2. CASE Answered(r)
  BY <1>1, <1>2, Ends DEF Idle, Creates, Adds
<1>3. CASE FindTrack(r) /\ request' = [request EXCEPT ![r].pc = "detach"]
  <2>1. request[r] \in Detaching
    BY <1>3, Shapes DEF FindTrack, Removes
  <2>2. Typed /\ Only(r) /\ request'[r] = [request[r] EXCEPT !.pc = "detach"]
    BY <1>3, <2>1, GoesOn DEF Removes
  <2> QED BY <1>1, <2>1, <2>2 DEF Detaching, Creates, Adds
<1>4. ASSUME NEW a \in Album, NEW t \in Track, RemoveTrack(r, a, t)
      PROVE  Typed /\ Only(r) /\ request'[r].pc \notin Creates \cup Adds
  <2>1. [pc |-> "findTrack", album |-> a, track |-> t] \in Detaching
    BY DEF Detaching
  <2>2. Typed /\ Only(r) /\ request'[r] = [pc |-> "findTrack", album |-> a, track |-> t]
    BY <1>4, <2>1, Sets DEF RemoveTrack, Begin, RequestState
  <2> QED BY <2>2 DEF Creates, Adds
<1> QED BY <1>1, <1>2, <1>3, <1>4 DEF FindTrack, DetachTrack

-----------------------------------------------------------------------------
RowsOK ==
  /\ items \subseteq Track \cup Album /\ fresh \subseteq Track \cup Album
  /\ items \cap fresh = {}
  /\ album \in [Track -> Album \cup {NoAlbum}] /\ position \in [Track -> Position]
  /\ overlapped \subseteq Album /\ disturbed \subseteq Album
  /\ \A t \in Track : album[t] # NoAlbum => {t, album[t]} \subseteq items /\ position[t] # NoPosition

LEMMA TypeParts == ASSUME RowsOK', Typed PROVE TypeOK'
BY DEF TypeOK, RowsOK, Typed

LEMMA RowsSame ==
  ASSUME TypeOK, UNCHANGED <<rows, disturbed>>, overlapped' \subseteq Album
  PROVE  RowsOK' /\ fresh' = fresh /\ items' = items
BY DEF TypeOK, RowsOK

LEMMA HeldInit == Init => TypeOK /\ RequestsHeld
BY DEF Init, TypeOK, RequestsHeld, Held, Creates1, Creates, Adds, Idle, RequestState

LEMMA HeldAfterCreateTrack ==
  ASSUME TypeOK, RequestsHeld, NEW r \in Request, NEW t \in Track, NEW a \in Album \cup {NoAlbum},
         CreateTrack(r, t, a)
  PROVE  TypeOK' /\ RequestsHeld'
<1>1. /\ Typed /\ Only(r) /\ request'[r].pc = (IF a = NoAlbum THEN "insert" ELSE "findAlbum")
      /\ request'[r].track = t /\ request'[r].album = a
  BY AfterCreateTrack
<1>2. t \in fresh /\ fresh' = fresh \ {t} /\ UNCHANGED <<items, album, position, history>>
  BY DEF CreateTrack
<1>3. RowsOK'
  BY <1>2 DEF TypeOK, RowsOK
<1>4. Held(request[r])'
  BY <1>1, <1>2 DEF TypeOK, Held, Creates, Adds
<1>5. \A o \in Request \ {r} : request[o].pc \in Creates => request[o].track # t /\ request[o].track \notin items'
  BY <1>2 DEF RequestsHeld, Held
<1> QED BY <1>1, <1>2, <1>3, <1>4, <1>5, HeldStays, TypeParts

(* The steps that only read.                                                *)
LEMMA HeldAfterReading ==
  ASSUME TypeOK, RequestsHeld, NEW r \in Request, Typed, Only(r), Held(request[r])',
         UNCHANGED <<rows, disturbed>>, overlapped' \subseteq Album,
         request'[r].pc \in Creates => request[r].pc \in Creates /\ request'[r].track = request[r].track
  PROVE  TypeOK' /\ RequestsHeld'
<1>1. \A o \in Request \ {r} : request[o].pc \in Creates => request[o].track \notin items'
  BY DEF RequestsHeld, Held
<1>2. request'[r].pc \in Creates =>
        \A o \in Request \ {r} : request[o].pc \in Creates => request[o].track # request'[r].track
  BY DEF RequestsHeld, Creates1
<1>3. RowsOK' /\ fresh' = fresh
  BY RowsSame
<1> QED BY <1>1, <1>2, <1>3, HeldStays, TypeParts

LEMMA IdleHolds == Held(Idle) /\ Held(Idle)' /\ Idle.pc \notin Creates
BY DEF Held, Idle, Creates, Adds

LEMMA OverlapInAlbum ==
  ASSUME TypeOK, NEW r \in Request, NEW a \in Album, Overlap(r, a)
  PROVE  overlapped' \subseteq Album
BY DEF TypeOK, Overlap

LEMMA HeldAfterFindAlbum ==
  ASSUME TypeOK, RequestsHeld, NEW r \in Request, FindAlbum(r)
  PROVE  TypeOK' /\ RequestsHeld'
<1>1. UNCHANGED <<rows, history>> /\ request[r].pc = "findAlbum" /\ overlapped' \subseteq Album
  BY DEF FindAlbum, TypeOK
<1>2. CASE request'[r] = Idle
  BY <1>1, <1>2, AfterFindAlbum, IdleHolds, HeldAfterReading
<1>3. CASE request'[r] # Idle
  <2>1. /\ request'[r].pc = "countTracks" /\ request'[r].track = request[r].track
        /\ request'[r].album = request[r].album
        /\ request[r].album \in items /\ By[request[r].album] = By[request[r].track]
    BY <1>3, AfterFindAlbum
  <2>2. Held(request[r])
    BY DEF RequestsHeld
  <2>3. Held(request[r])'
    BY <1>1, <2>1, <2>2 DEF TypeOK, Held, Creates, Adds
  <2> QED BY <1>1, <2>1, <2>3, AfterFindAlbum, HeldAfterReading DEF Creates
<1> QED BY <1>2, <1>3

LEMMA HeldAfterCountTracks ==
  ASSUME TypeOK, RequestsHeld, NEW r \in Request, CountTracks(r)
  PROVE  TypeOK' /\ RequestsHeld'
<1>1. UNCHANGED <<rows, disturbed>> /\ request[r].pc = "countTracks" /\ Held(request[r])
  BY DEF CountTracks, RequestsHeld
<1>2. CASE request'[r] = Idle /\ overlapped' = overlapped
  <2>1. overlapped' \subseteq Album
    BY <1>2 DEF TypeOK
  <2> QED BY <1>1, <1>2, <2>1, AfterCountTracks, IdleHolds, HeldAfterReading
<1>3. CASE ~(request'[r] = Idle /\ overlapped' = overlapped)
  <2>1. /\ request'[r].pc = "insert" /\ request'[r].track = request[r].track
        /\ request'[r].album = request[r].album
        /\ request'[r].position = Cardinality(Members(request[r].album)) /\ Overlap(r, request[r].album)
    BY <1>3, AfterCountTracks
  <2>2. request[r].album \in Album
    BY <1>1, Shapes DEF Held, Creates, Creating
  <2>3. Held(request[r])'
    BY <1>1, <2>1, CountIsNat DEF Held, Creates, Adds
  <2> QED BY <1>1, <2>1, <2>2, <2>3, AfterCountTracks, OverlapInAlbum, HeldAfterReading DEF Creates
<1> QED BY <1>2, <1>3

LEMMA HeldAfterAdding ==
  ASSUME TypeOK, RequestsHeld, NEW r \in Request, NEW a \in Album, NEW ids \in TrackLists,
         AddTracks(r, a, ids)
  PROVE  TypeOK' /\ RequestsHeld'
<1>1. UNCHANGED <<rows, history>> /\ overlapped' \subseteq Album
  BY DEF AddTracks, TypeOK
<1>2. request'[r].pc = "countAlbum" /\ request'[r].album = a /\ a \in items /\ request'[r].left # <<>>
  BY AfterAddTracks
<1>3. Held(request[r])'
  BY <1>1, <1>2 DEF TypeOK, Held, Creates, Adds
<1> QED BY <1>1, <1>2, <1>3, AfterAddTracks, HeldAfterReading DEF Creates

LEMMA HeldAfterCountAlbum ==
  ASSUME TypeOK, RequestsHeld, NEW r \in Request, CountAlbum(r)
  PROVE  TypeOK' /\ RequestsHeld'
<1>1. UNCHANGED <<rows, disturbed>> /\ request[r].pc = "countAlbum" /\ Held(request[r])
  BY DEF CountAlbum, RequestsHeld
<1>2. CASE request'[r] = Idle /\ overlapped' = overlapped
  <2>1. overlapped' \subseteq Album
    BY <1>2 DEF TypeOK
  <2> QED BY <1>1, <1>2, <2>1, AfterCountAlbum, IdleHolds, HeldAfterReading
<1>3. CASE ~(request'[r] = Idle /\ overlapped' = overlapped)
  <2>1. /\ request'[r].pc = "findTracks" /\ request'[r].left = request[r].left
        /\ request'[r].album = request[r].album
        /\ request'[r].position = Cardinality(Members(request[r].album)) /\ Overlap(r, request[r].album)
    BY <1>3, AfterCountAlbum
  <2>2. request[r].album \in Album
    BY AfterCountAlbum DEF Adding
  <2>3. Held(request[r])'
    BY <1>1, <2>1, CountIsNat DEF Held, Creates, Adds
  <2> QED BY <1>1, <2>1, <2>2, <2>3, AfterCountAlbum, OverlapInAlbum, HeldAfterReading DEF Creates
<1> QED BY <1>2, <1>3

LEMMA HeldAfterFindTracks ==
  ASSUME TypeOK, RequestsHeld, NEW r \in Request, FindTracks(r)
  PROVE  TypeOK' /\ RequestsHeld'
<1>1. UNCHANGED <<rows, history>> /\ request[r].pc = "findTracks" /\ Held(request[r]) /\ overlapped' \subseteq Album
  BY DEF FindTracks, RequestsHeld, TypeOK
<1>2. CASE request'[r] = Idle
  BY <1>1, <1>2, AfterFindTracks, IdleHolds, HeldAfterReading
<1>3. CASE request'[r] # Idle
  <2>1. /\ request'[r].pc = "attach" /\ request'[r].left = request[r].left
        /\ request'[r].album = request[r].album /\ request'[r].position = request[r].position
        /\ \A i \in DOMAIN request[r].left : By[request[r].left[i]] = By[request[r].album]
    BY <1>3, AfterFindTracks
  <2>2. Held(request[r])'
    BY <1>1, <2>1 DEF Held, Creates, Adds
  <2> QED BY <1>1, <2>1, <2>2, AfterFindTracks, HeldAfterReading DEF Creates
<1> QED BY <1>2, <1>3

(* The steps that write rows.                                               *)
LEMMA HeldAfterInsert ==
  ASSUME TypeOK, RequestsHeld, NEW r \in Request, InsertTrack(r)
  PROVE  TypeOK' /\ RequestsHeld'
<1> DEFINE q == request[r]
<1>1. /\ q \in Creating /\ q.pc = "insert" /\ Held(q) /\ Typed /\ Only(r) /\ request'[r] = Idle
      /\ UNCHANGED <<fresh, history>>
  BY Shapes, Ends DEF InsertTrack, Creates, RequestsHeld
<1>2. PICK t \in Track, a \in Album \cup {NoAlbum}, p \in Position :
        t = q.track /\ a = q.album /\ p = q.position
  BY <1>1 DEF Creating
<1>3. t \notin fresh /\ t \notin items /\ (a # NoAlbum => p \in Nat)
  BY <1>1, <1>2 DEF Held, Creates
<1>4. CASE UNCHANGED <<items, album, position>>
  BY <1>1, <1>4, IdleHolds, HeldAfterReading DEF TypeOK
<1>5. CASE /\ a \in items \cup {NoAlbum} /\ items' = items \cup {t}
           /\ album' = [album EXCEPT ![t] = a] /\ position' = [position EXCEPT ![t] = p]
  <2>1. RowsOK'
    BY <1>1, <1>3, <1>5 DEF TypeOK, RowsOK
  <2>2. \A o \in Request \ {r} : request[o].pc \in Creates => request[o].track # t
    BY <1>1, <1>2 DEF RequestsHeld, Creates1, Creates
  <2>3. \A o \in Request \ {r} : request[o].pc \in Creates => request[o].track \notin items'
    BY <1>5, <2>2 DEF RequestsHeld, Held
  <2> QED BY <1>1, <2>1, <2>3, IdleHolds, HeldStays, TypeParts
<1> QED BY <1>2, <1>4, <1>5 DEF InsertTrack

LEMMA HeldAfterAttach ==
  ASSUME TypeOK, RequestsHeld, NEW r \in Request, AttachTrack(r)
  PROVE  TypeOK' /\ RequestsHeld'
<1> DEFINE q == request[r]
<1>1. /\ q \in Adding /\ q.pc = "attach" /\ Held(q) /\ Typed /\ Only(r) /\ Head(q.left) \in Track
      /\ q.position \in Nat /\ q.left \in Seq(Track)
      /\ UNCHANGED <<items, fresh, overlapped>>
  BY AfterAttachTrack DEF AttachTrack, RequestsHeld, Adding
<1>2. PICK t \in Track, a \in Album, p \in Nat : t = Head(q.left) /\ a = q.album /\ p = q.position
  BY <1>1 DEF Adding
<1>3. RowsOK'
  <2>1. CASE UNCHANGED <<album, position, disturbed>>
    BY <1>1, <2>1 DEF TypeOK, RowsOK
  <2>2. CASE /\ t \in items /\ a \in items
             /\ album' = [album EXCEPT ![t] = a] /\ position' = [position EXCEPT ![t] = p]
             /\ disturbed' = disturbed \cup ({album[t]} \ {NoAlbum})
    BY <1>1, <2>2 DEF TypeOK, RowsOK
  <2> QED BY <1>2, <2>1, <2>2 DEF AttachTrack
<1>4. Held(request[r])' /\ request'[r].pc \notin Creates
  <2>1. CASE request'[r] = Idle
    BY <2>1, IdleHolds
  <2>2. CASE request'[r] # Idle
    <3>1. /\ request'[r].pc = "attach" /\ request'[r].left = Tail(q.left) /\ request'[r].album = a
          /\ request'[r].position = p + 1 /\ Len(q.left) > 1
      BY <1>2, <2>2, AfterAttachTrack
    <3>2. q.left # <<>> /\ a \notin fresh /\ \A i \in DOMAIN q.left : By[q.left[i]] = By[a]
      BY <1>1, <1>2 DEF Held, Adds
    <3>3. /\ Len(Tail(q.left)) = Len(q.left) - 1 /\ Tail(q.left) \in Seq(Track)
          /\ \A i \in 1 .. Len(Tail(q.left)) : Tail(q.left)[i] = q.left[i + 1]
      BY <1>1, <3>2, HeadTailProperties
    <3>4. DOMAIN q.left = 1 .. Len(q.left) /\ Len(q.left) \in Nat
          /\ DOMAIN Tail(q.left) = 1 .. Len(Tail(q.left))
      BY <1>1, <3>3, LenProperties
    <3>5. \A i \in DOMAIN Tail(q.left) : By[Tail(q.left)[i]] = By[a]
      BY <3>2, <3>3, <3>4
    <3>6. Tail(q.left) # <<>>
      <4>1. \A n \in Nat : n > 1 => n - 1 # 0
        OBVIOUS
      <4>2. Len(Tail(q.left)) # 0
        BY <3>1, <3>3, <3>4, <4>1, Zenon
      <4> QED BY <4>2, EmptySeq
    <3> QED BY <1>1, <3>1, <3>2, <3>5, <3>6 DEF Held, Creates, Adds
  <2> QED BY <2>1, <2>2
<1>5. \A o \in Request \ {r} : request[o].pc \in Creates => request[o].track \notin items'
  BY <1>1 DEF RequestsHeld, Held
<1> QED BY <1>1, <1>3, <1>4, <1>5, HeldStays, TypeParts

LEMMA HeldAfterRemoving ==
  ASSUME TypeOK, RequestsHeld, NEW r \in Request,
         FindTrack(r) \/ DetachTrack(r) \/ \E a \in Album, t \in Track : RemoveTrack(r, a, t)
  PROVE  TypeOK' /\ RequestsHeld'
<1>1. UNCHANGED <<items, fresh, overlapped>>
  BY DEF FindTrack, DetachTrack, RemoveTrack
<1>2. /\ Typed /\ Only(r) /\ request'[r].pc \notin Creates \cup Adds
  BY AfterRemoving
<1>3. RowsOK'
  <2>1. CASE UNCHANGED <<album, position, disturbed>>
    BY <1>1, <2>1 DEF TypeOK, RowsOK
  <2>2. CASE DetachTrack(r)
    <3>1. request[r].track \in Track
      BY <2>2, Shapes DEF DetachTrack, Removes, Detaching
    <3> QED BY <1>1, <2>1, <2>2, <3>1 DEF DetachTrack, TypeOK, RowsOK
  <2> QED BY <2>1, <2>2 DEF FindTrack, RemoveTrack
<1>4. Held(request[r])'
  BY <1>2 DEF Held, Creates, Adds
<1>5. \A o \in Request \ {r} : request[o].pc \in Creates => request[o].track \notin items'
  BY <1>1 DEF RequestsHeld, Held
<1> QED BY <1>1, <1>2, <1>3, <1>4, <1>5, HeldStays, TypeParts

LEMMA HeldAfterFail ==
  ASSUME TypeOK, RequestsHeld, NEW r \in Request, Fail(r)
  PROVE  TypeOK' /\ RequestsHeld'
<1>1. Typed /\ Only(r) /\ request'[r] = Idle /\ UNCHANGED <<rows, history>> /\ overlapped' \subseteq Album
  BY Ends DEF Fail, TypeOK
<1> QED BY <1>1, IdleHolds, HeldAfterReading

LEMMA HeldAfterRows ==
  ASSUME TypeOK, RequestsHeld,
         (\E t \in Track : DeleteTrack(t)) \/ (\E a \in Album : CreateAlbum(a) \/ DeleteAlbum(a))
  PROVE  TypeOK' /\ RequestsHeld'
<1>1. request' = request /\ fresh' \subseteq fresh /\ \A t \in items' \cap Track : t \in items
  BY DEF DeleteTrack, CreateAlbum, DeleteAlbum
<1>2. RowsOK'
  <2>1. ASSUME NEW t \in Track, DeleteTrack(t) PROVE RowsOK'
    <3>1. items' = items \ {t} /\ \A u \in Track : u # t => album'[u] = album[u] /\ position'[u] = position[u]
      BY <2>1 DEF DeleteTrack, TypeOK
    <3>2. \A u \in Track : album[u] = t => album[u] = NoAlbum
      BY DEF TypeOK
    <3> QED BY <2>1, <3>1, <3>2 DEF DeleteTrack, TypeOK, RowsOK
  <2>2. ASSUME NEW a \in Album, CreateAlbum(a) PROVE RowsOK'
    BY <2>2 DEF CreateAlbum, TypeOK, RowsOK
  <2>3. ASSUME NEW a \in Album, DeleteAlbum(a) PROVE RowsOK'
    <3>1. \A u \in Track : album'[u] # a /\ (album'[u] # NoAlbum => album'[u] = album[u]) /\ u # a
      BY <2>3 DEF DeleteAlbum, TypeOK
    <3> QED BY <2>3, <3>1 DEF DeleteAlbum, TypeOK, RowsOK
  <2> QED BY <2>1, <2>2, <2>3
<1>3. Typed
  BY <1>1 DEF TypeOK, Typed
<1> QED BY <1>1, <1>2, <1>3, HeldAlone, TypeParts

LEMMA HeldStep == TypeOK /\ RequestsHeld /\ [Next]_vars => TypeOK' /\ RequestsHeld'
<1> SUFFICES ASSUME TypeOK, RequestsHeld, [Next]_vars PROVE TypeOK' /\ RequestsHeld'
  OBVIOUS
<1>1. ASSUME NEW r \in Request, Step(r) PROVE TypeOK' /\ RequestsHeld'
  BY <1>1, HeldAfterFindAlbum, HeldAfterCountTracks, HeldAfterInsert, HeldAfterCountAlbum,
     HeldAfterFindTracks, HeldAfterAttach, HeldAfterRemoving DEF Step
<1>2. CASE UNCHANGED vars
  BY <1>2, HeldAlone DEF TypeOK
<1>3. CASE Next
  BY <1>1, <1>3, HeldAfterFail, HeldAfterCreateTrack, HeldAfterAdding, HeldAfterRemoving, HeldAfterRows
  DEF Next
<1> QED BY <1>2, <1>3

(* TypeCorrect: the types of all state; a track in an album is a row, so is *)
(* the album, and the track has a place there.                              *)
THEOREM TypeCorrect == Spec => []TypeOK
  BY HeldInit, HeldStep, PTL DEF Spec

-----------------------------------------------------------------------------
(* Room and places.  One request at a time is counted for an album that no  *)
(* two overlapped on: there is room for all it carries, and the place it    *)
(* gives next is the first that is free.                                    *)
Load(q) == IF q.pc = "insert" THEN 1 ELSE Len(q.left)

CountedOnce(a) == \A r, o \in Request : Counted(r, a) /\ Counted(o, a) => r = o

Room(a) ==
  /\ CountedOnce(a) /\ Cardinality(Members(a)) <= TracksMax
  /\ \A r \in Request : Counted(r, a) => Cardinality(Members(a)) + Load(request[r]) <= TracksMax

Placed(a) ==
  /\ \A t \in Members(a) : position[t] \in 0 .. Cardinality(Members(a)) - 1
  /\ \A t, u \in Members(a) : position[t] = position[u] => t = u
  /\ \A r \in Request : Counted(r, a) => request[r].position = Cardinality(Members(a))

Kept(a) ==
  /\ a \in items /\ a \notin overlapped => Room(a)
  /\ a \in items /\ a \notin overlapped /\ a \notin disturbed => Placed(a)

AlbumsKept == \A a \in Album : Kept(a)

LEMMA LoadIsNat ==
  ASSUME TypeOK, NEW r \in Request, NEW a, Counted(r, a)
  PROVE  Load(request[r]) \in Nat
<1>1. CASE request[r].pc = "insert"
  BY <1>1 DEF Load
<1>2. CASE request[r].pc # "insert"
  <2>1. request[r].left \in Seq(Track)
    BY <1>2, Shapes DEF Counted, Adds, Adding
  <2> QED BY <1>2, <2>1 DEF Load
<1> QED BY <1>1, <1>2

(* A step that adds nothing to an album and counts nobody for it.           *)
Quiet(a) ==
  /\ a \in items /\ (a \in overlapped => a \in overlapped')
  /\ Members(a)' \subseteq Members(a)
  /\ a \notin disturbed' =>
       /\ a \notin disturbed /\ Members(a)' = Members(a)
       /\ \A t \in Members(a) : position'[t] = position[t]
  /\ \A r \in Request : Counted(r, a)' =>
       /\ Counted(r, a) /\ Load(request'[r]) = Load(request[r])
       /\ request'[r].position = request[r].position

LEMMA QuietKeeps ==
  ASSUME TypeOK, NEW a \in Album, Kept(a), a \in items' => Quiet(a)
  PROVE  Kept(a)'
<1> SUFFICES ASSUME a \in items', a \notin overlapped' PROVE Kept(a)'
  BY DEF Kept
<1>1. Room(a) /\ Quiet(a)
  BY DEF Kept, Quiet
<1>2. CountedOnce(a)'
  BY <1>1 DEF Room, CountedOnce, Quiet
<1>3. /\ Cardinality(Members(a)') <= Cardinality(Members(a))
      /\ Cardinality(Members(a)') \in Nat /\ Cardinality(Members(a)) \in Nat
  BY <1>1, CountIsNat, FS_Subset, FS_CardinalityType DEF Quiet
<1>4. Cardinality(Members(a)') <= TracksMax
  BY <1>1, <1>3 DEF Room
<1>5. ASSUME NEW r \in Request, Counted(r, a)'
      PROVE  Cardinality(Members(a)') + Load(request'[r]) <= TracksMax
  <2>1. Counted(r, a) /\ Load(request'[r]) = Load(request[r])
    BY <1>1, <1>5 DEF Quiet
  <2>2. Cardinality(Members(a)) + Load(request[r]) <= TracksMax /\ Load(request[r]) \in Nat
    BY <1>1, <2>1, LoadIsNat DEF Room
  <2> QED BY <1>3, <2>1, <2>2
<1>6. Room(a)'
  BY <1>2, <1>4, <1>5 DEF Room, Load
<1>7. ASSUME a \notin disturbed' PROVE Placed(a)'
  <2>1. /\ Placed(a) /\ Members(a)' = Members(a)
        /\ \A t \in Members(a) : position'[t] = position[t]
        /\ \A r \in Request : Counted(r, a)' => Counted(r, a) /\ request'[r].position = request[r].position
    BY <1>1, <1>7 DEF Kept, Quiet
  <2> QED BY <2>1 DEF Placed
<1> QED BY <1>6, <1>7 DEF Kept

(* A request is counted for an album.                                       *)
LEMMA CountingKeeps ==
  ASSUME TypeOK, NEW a \in Album, Kept(a), NEW r \in Request, Only(r), Overlap(r, a),
         UNCHANGED <<rows, disturbed>>, ~Counted(r, a),
         Cardinality(Members(a)) + Load(request'[r]) <= TracksMax, Load(request'[r]) \in Nat,
         request'[r].position = Cardinality(Members(a))
  PROVE  Kept(a)'
<1> SUFFICES ASSUME a \in items', a \notin overlapped' PROVE Kept(a)'
  BY DEF Kept
<1>1. a \notin overlapped /\ \A o \in Request \ {r} : ~Counted(o, a)
  BY DEF Overlap
<1>2. \A o \in Request \ {r} : ~Counted(o, a)'
  BY <1>1 DEF Counted, Only
<1>3. Room(a) /\ Members(a)' = Members(a) /\ Cardinality(Members(a)) \in Nat
  BY <1>1, CountIsNat DEF Kept, Members
<1>4. Room(a)'
  <2>1. CountedOnce(a)'
    BY <1>2 DEF CountedOnce
  <2> QED BY <1>2, <1>3, <2>1 DEF Room, Load
<1>5. a \notin disturbed' => Placed(a)'
  BY <1>1, <1>2, <1>3 DEF Kept, Placed
<1> QED BY <1>4, <1>5 DEF Kept

(* A request adds one track to the album it was counted for.                *)
LEMMA AddingKeeps ==
  ASSUME TypeOK, NEW a \in Album, Kept(a), NEW r \in Request, Only(r), Counted(r, a),
         a \in items, overlapped' = overlapped, NEW t, Members(a)' = Members(a) \cup {t},
         a \notin disturbed' =>
           /\ a \notin disturbed /\ t \notin Members(a) /\ position'[t] = request[r].position
           /\ \A u \in Members(a) : position'[u] = position[u],
         Load(request[r]) >= 1,
         Counted(r, a)' => /\ Load(request'[r]) = Load(request[r]) - 1
                           /\ request'[r].position = request[r].position + 1
  PROVE  Kept(a)'
<1> SUFFICES ASSUME a \in items', a \notin overlapped' PROVE Kept(a)'
  BY DEF Kept
<1>1. Room(a)
  BY DEF Kept
<1>2. \A o \in Request \ {r} : ~Counted(o, a)'
  BY <1>1 DEF Room, CountedOnce, Only, Counted
<1>3. PICK n \in Nat : n = Cardinality(Members(a))
  BY CountIsNat
<1>4. PICK k \in Nat : k = Load(request[r])
  BY LoadIsNat
<1>5. Cardinality(Members(a)') = (IF t \in Members(a) THEN n ELSE n + 1)
  BY <1>3, CountIsNat, FS_AddElement
<1>6. n + k <= TracksMax /\ k >= 1
  BY <1>1, <1>3, <1>4 DEF Room
<1>7. Room(a)'
  <2>1. CountedOnce(a)'
    BY <1>2 DEF CountedOnce
  <2>2. Cardinality(Members(a)') <= TracksMax
    BY <1>5, <1>6
  <2>3. Counted(r, a)' => Cardinality(Members(a)') + Load(request'[r]) <= TracksMax
    BY <1>4, <1>5, <1>6
  <2> QED BY <1>2, <2>1, <2>2, <2>3 DEF Room, Load
<1>8. ASSUME a \notin disturbed' PROVE Placed(a)'
  <2>1. /\ Placed(a) /\ t \notin Members(a) /\ position'[t] = request[r].position
        /\ \A u \in Members(a) : position'[u] = position[u]
    BY <1>8 DEF Kept
  <2>2. request[r].position = n /\ position'[t] = n /\ Cardinality(Members(a)') = n + 1
    BY <1>3, <1>5, <2>1 DEF Placed
  <2>3. /\ \A u \in Members(a) : position'[u] \in 0 .. n - 1
        /\ \A u, v \in Members(a) : position'[u] = position'[v] => u = v
    BY <1>3, <2>1 DEF Placed
  <2>4. \A u \in Members(a)' : position'[u] \in 0 .. Cardinality(Members(a)') - 1
    BY <2>2, <2>3
  <2>5. \A u, v \in Members(a)' : position'[u] = position'[v] => u = v
    BY <2>2, <2>3
  <2>6. \A o \in Request : Counted(o, a)' => request'[o].position = Cardinality(Members(a)')
    BY <1>2, <2>2
  <2> QED BY <2>2, <2>4, <2>5, <2>6 DEF Placed
<1> QED BY <1>7, <1>8 DEF Kept

LEMMA QuietReads ==
  ASSUME TypeOK, NEW a \in Album, Kept(a), NEW r \in Request, Only(r),
         UNCHANGED <<items, album, position, disturbed>>, a \in overlapped => a \in overlapped',
         Counted(r, a)' => /\ Counted(r, a) /\ Load(request'[r]) = Load(request[r])
                           /\ request'[r].position = request[r].position
  PROVE  Kept(a)'
<1>1. ASSUME a \in items' PROVE Quiet(a)
  <2>1. a \in items /\ Members(a)' = Members(a)
    BY <1>1 DEF Members
  <2>2. \A o \in Request \ {r} :
          Counted(o, a)' => Counted(o, a) /\ request'[o] = request[o]
    BY DEF Only, Counted
  <2> QED BY <2>1, <2>2 DEF Quiet, Load
<1> QED BY <1>1, QuietKeeps

LEMMA NotCounted ==
  ASSUME NEW r, NEW a, request[r] = Idle \/ request[r].pc \notin {"insert", "findTracks", "attach"}
  PROVE  ~Counted(r, a)
BY DEF Counted, Idle

LEMMA KeptByReaders ==
  ASSUME TypeOK, NEW a \in Album, Kept(a), NEW r \in Request,
         \/ \E t \in Track, b \in Album \cup {NoAlbum} : CreateTrack(r, t, b)
         \/ \E b \in Album, ids \in TrackLists : AddTracks(r, b, ids)
         \/ \E b \in Album, t \in Track : RemoveTrack(r, b, t)
         \/ FindAlbum(r) \/ FindTracks(r) \/ FindTrack(r) \/ Fail(r)
  PROVE  Kept(a)'
<1>1. UNCHANGED <<items, album, position, overlapped, disturbed>>
  BY DEF CreateTrack, AddTracks, RemoveTrack, FindAlbum, FindTracks, FindTrack, Fail
<1>2. ASSUME NEW t \in Track, NEW b \in Album \cup {NoAlbum}, CreateTrack(r, t, b) PROVE Kept(a)'
  <2>1. ~Counted(r, a)' /\ Only(r)
    BY <1>2, AfterCreateTrack DEF Counted
  <2> QED BY <1>1, <2>1, QuietReads
<1>3. ASSUME NEW b \in Album, NEW ids \in TrackLists, AddTracks(r, b, ids) PROVE Kept(a)'
  <2>1. ~Counted(r, a)' /\ Only(r)
    BY <1>3, AfterAddTracks DEF Counted
  <2> QED BY <1>1, <2>1, QuietReads
<1>4. CASE FindTrack(r) \/ \E b \in Album, t \in Track : RemoveTrack(r, b, t)
  <2>1. ~Counted(r, a)' /\ Only(r)
    BY <1>4, AfterRemoving DEF Counted, Creates, Adds
  <2> QED BY <1>1, <2>1, QuietReads
<1>5. CASE FindAlbum(r)
  <2>1. ~Counted(r, a)' /\ Only(r)
    BY <1>5, AfterFindAlbum DEF Counted, Idle
  <2> QED BY <1>1, <2>1, QuietReads
<1>6. CASE FindTracks(r)
  <2>1. request[r].pc = "findTracks" /\ Only(r)
    BY <1>6, AfterFindTracks DEF FindTracks
  <2>2. CASE request'[r] = Idle
    BY <1>1, <2>1, <2>2, QuietReads DEF Counted, Idle
  <2>3. CASE request'[r] # Idle
    <3>1. /\ request'[r].pc = "attach" /\ request'[r].left = request[r].left
          /\ request'[r].album = request[r].album /\ request'[r].position = request[r].position
      BY <1>6, <2>3, AfterFindTracks
    <3>2. Load(request'[r]) = Load(request[r])
      BY <2>1, <3>1 DEF Load
    <3>3. Counted(r, a)' => Counted(r, a)
      BY <2>1, <3>1 DEF Counted
    <3> QED BY <1>1, <2>1, <3>1, <3>2, <3>3, QuietReads
  <2> QED BY <2>2, <2>3
<1>7. CASE Fail(r)
  <2>1. ~Counted(r, a)' /\ Only(r)
    BY <1>7, Ends DEF Fail, Counted, Idle
  <2> QED BY <1>1, <2>1, QuietReads
<1> QED BY <1>2, <1>3, <1>4, <1>5, <1>6, <1>7

LEMMA KeptByCounts ==
  ASSUME TypeOK, RequestsHeld, NEW a \in Album, Kept(a), NEW r \in Request, CountTracks(r) \/ CountAlbum(r)
  PROVE  Kept(a)'
<1>1. /\ UNCHANGED <<rows, disturbed>> /\ ~Counted(r, a) /\ Only(r)
      /\ request[r].pc \in {"countTracks", "countAlbum"}
  BY AfterCountTracks, AfterCountAlbum DEF CountTracks, CountAlbum, Counted
<1>2. CASE request'[r] = Idle /\ overlapped' = overlapped
  BY <1>1, <1>2, QuietReads DEF Counted, Idle
<1>3. CASE ~(request'[r] = Idle /\ overlapped' = overlapped)
  <2>1. Overlap(r, request[r].album) /\ request'[r].album = request[r].album
    BY <1>3, AfterCountTracks, AfterCountAlbum
  <2>2. CASE request[r].album # a
    BY <1>1, <2>1, <2>2, QuietReads DEF Overlap, Counted
  <2>3. CASE request[r].album = a
    <3>1. Cardinality(Members(a)) \in Nat
      BY CountIsNat
    <3>2. /\ Cardinality(Members(a)) + Load(request'[r]) <= TracksMax /\ Load(request'[r]) \in Nat
          /\ request'[r].position = Cardinality(Members(a))
      <4>1. CASE CountTracks(r)
        <5>1. /\ request'[r].pc = "insert" /\ request'[r].position = Cardinality(Members(a))
              /\ Cardinality(Members(a)) < TracksMax
          BY <1>3, <2>3, <4>1, AfterCountTracks
        <5>2. Load(request'[r]) = 1
          BY <5>1 DEF Load
        <5> QED BY <3>1, <5>1, <5>2
      <4>2. CASE CountAlbum(r)
        <5>1. /\ request'[r].pc = "findTracks" /\ request'[r].position = Cardinality(Members(a))
              /\ request'[r].left = request[r].left
              /\ Cardinality(Members(a)) + Len(request[r].left) <= TracksMax
          BY <1>3, <2>3, <4>2, AfterCountAlbum
        <5>2. request[r].left \in Seq(Track)
          BY <4>2, AfterCountAlbum DEF Adding
        <5>3. Load(request'[r]) = Len(request[r].left)
          BY <5>1 DEF Load
        <5> QED BY <5>1, <5>2, <5>3, LenProperties
      <4> QED BY <4>1, <4>2
    <3> QED BY <1>1, <2>1, <2>3, <3>2, CountingKeeps
  <2> QED BY <2>2, <2>3
<1> QED BY <1>2, <1>3

(* Writing a track that was no row, or whose former album is disturbed,     *)
(* does not concern the other albums.                                       *)
LEMMA KeptElsewhere ==
  ASSUME TypeOK, NEW a \in Album, Kept(a), NEW r \in Request, Only(r), ~Counted(r, a)', NEW t \in Track,
         \A u \in Track : u # t => album'[u] = album[u] /\ position'[u] = position[u],
         album'[t] # a, items' \cap Track \subseteq items \cup {t}, items \subseteq items',
         a \in items' => a \in items, overlapped' = overlapped,
         a \notin disturbed' => a \notin disturbed /\ t \notin Members(a)
  PROVE  Kept(a)'
<1>1. ASSUME a \in items' PROVE Quiet(a)
  <2>1. Members(a)' \subseteq Members(a)
    BY DEF Members
  <2>2. a \notin disturbed' => Members(a)' = Members(a) /\ \A u \in Members(a) : position'[u] = position[u]
    BY <2>1 DEF Members
  <2>3. \A o \in Request \ {r} : Counted(o, a)' => Counted(o, a) /\ request'[o] = request[o]
    BY DEF Only, Counted
  <2> QED BY <1>1, <2>1, <2>2, <2>3 DEF Quiet, Load
<1> QED BY <1>1, QuietKeeps

LEMMA KeptByInsert ==
  ASSUME TypeOK, RequestsHeld, NEW a \in Album, Kept(a), NEW r \in Request, InsertTrack(r)
  PROVE  Kept(a)'
<1> DEFINE q == request[r]
<1>1. /\ q \in Creating /\ q.pc = "insert" /\ Held(q) /\ Only(r) /\ request'[r] = Idle
      /\ UNCHANGED <<fresh, history>> /\ ~Counted(r, a)'
  BY Shapes, Ends DEF InsertTrack, Creates, RequestsHeld, Counted, Idle
<1>2. PICK t \in Track, b \in Album \cup {NoAlbum} : t = q.track /\ b = q.album
  BY <1>1 DEF Creating
<1>3. t \notin items /\ t \notin Members(a)
  BY <1>1, <1>2 DEF Held, Creates, Members
<1>4. CASE UNCHANGED <<items, album, position>>
  BY <1>1, <1>4, QuietReads
<1>5. CASE /\ b \in items \cup {NoAlbum} /\ items' = items \cup {t}
           /\ album' = [album EXCEPT ![t] = b] /\ position' = [position EXCEPT ![t] = q.position]
  <2>1. /\ album'[t] = b /\ position'[t] = q.position
        /\ \A u \in Track : u # t => album'[u] = album[u] /\ position'[u] = position[u]
    BY <1>5 DEF TypeOK
  <2>2. CASE b # a
    BY <1>1, <1>3, <1>5, <2>1, <2>2, KeptElsewhere
  <2>3. CASE b = a
    <3>1. Members(a)' = Members(a) \cup {t}
      BY <1>5, <2>1, <2>3 DEF Members
    <3>2. Counted(r, a) /\ Load(q) = 1 /\ a \in items
      BY <1>1, <1>2, <1>5, <2>3 DEF Counted, Load
    <3>3. \A u \in Members(a) : position'[u] = position[u]
      BY <1>3, <2>1 DEF Members
    <3> QED BY <1>1, <1>3, <2>1, <3>1, <3>2, <3>3, AddingKeeps
  <2> QED BY <2>2, <2>3
<1> QED BY <1>2, <1>4, <1>5 DEF InsertTrack

LEMMA KeptByAttach ==
  ASSUME TypeOK, RequestsHeld, NEW a \in Album, Kept(a), NEW r \in Request, AttachTrack(r)
  PROVE  Kept(a)'
<1> DEFINE q == request[r]
<1>1. /\ q \in Adding /\ q.pc = "attach" /\ Held(q) /\ Only(r) /\ Head(q.left) \in Track
      /\ q.position \in Nat /\ q.left \in Seq(Track) /\ q.left # <<>>
      /\ UNCHANGED <<items, fresh, overlapped>>
  BY AfterAttachTrack DEF AttachTrack, RequestsHeld, Adding, Held, Adds
<1>2. PICK t \in Track, b \in Album : t = Head(q.left) /\ b = q.album
  BY <1>1 DEF Adding
<1>3. \/ request'[r] = Idle
      \/ /\ request'[r].pc = "attach" /\ request'[r].left = Tail(q.left) /\ request'[r].album = b
         /\ request'[r].position = q.position + 1
  BY <1>2, AfterAttachTrack
<1>4. CASE UNCHANGED <<album, position, disturbed>> /\ Answered(r)
  <2>1. ~Counted(r, a)'
    BY <1>4, Ends DEF Counted, Idle
  <2> QED BY <1>1, <1>4, <2>1, QuietReads
<1>5. CASE /\ t \in items /\ b \in items
           /\ album' = [album EXCEPT ![t] = b] /\ position' = [position EXCEPT ![t] = q.position]
           /\ disturbed' = disturbed \cup ({album[t]} \ {NoAlbum})
  <2>1. /\ album'[t] = b /\ position'[t] = q.position
        /\ \A u \in Track : u # t => album'[u] = album[u] /\ position'[u] = position[u]
    BY <1>5 DEF TypeOK
  <2>2. a \notin disturbed' => a \notin disturbed /\ t \notin Members(a)
    BY <1>5 DEF Members
  <2>3. CASE b # a
    <3>1. ~Counted(r, a)'
      BY <1>3, <2>3 DEF Counted, Idle
    <3> QED BY <1>1, <2>1, <2>2, <2>3, <3>1, KeptElsewhere
  <2>4. CASE b = a
    <3>1. Members(a)' = Members(a) \cup {t}
      BY <1>1, <1>5, <2>1, <2>4 DEF Members
    <3>2. Counted(r, a) /\ Load(q) = Len(q.left)
      BY <1>1, <1>2, <2>4 DEF Counted, Load
    <3>3. Len(q.left) \in Nat \ {0} /\ Len(Tail(q.left)) = Len(q.left) - 1
      BY <1>1, EmptySeq, HeadTailProperties
    <3>4. Counted(r, a)' => Load(request'[r]) = Len(Tail(q.left)) /\ request'[r].position = q.position + 1
      <4>1. CASE request'[r] = Idle
        BY <4>1 DEF Counted, Idle
      <4>2. CASE request'[r].pc = "attach" /\ request'[r].left = Tail(q.left)
                 /\ request'[r].position = q.position + 1
        <5>1. Load(request'[r]) = Len(request'[r].left)
          BY <4>2 DEF Load
        <5> QED BY <4>2, <5>1, Zenon
      <4> QED BY <1>3, <4>1, <4>2
    <3>5. a \notin disturbed' => \A u \in Members(a) : position'[u] = position[u]
      BY <2>1, <2>2 DEF Members
    <3>6. Load(q) >= 1
      BY <3>2, <3>3
    <3> QED BY <1>1, <1>5, <2>1, <2>2, <2>4, <3>1, <3>2, <3>3, <3>4, <3>5, <3>6, AddingKeeps
  <2> QED BY <2>3, <2>4
<1> QED BY <1>2, <1>4, <1>5 DEF AttachTrack

LEMMA KeptByDetach ==
  ASSUME TypeOK, NEW a \in Album, Kept(a), NEW r \in Request, DetachTrack(r)
  PROVE  Kept(a)'
<1>1. PICK t \in Track : t = request[r].track
  BY Shapes DEF DetachTrack, Removes, Detaching
<1>2. Only(r) /\ ~Counted(r, a)' /\ UNCHANGED <<items, fresh, overlapped>>
  BY Ends DEF DetachTrack, Counted, Idle
<1>3. CASE UNCHANGED <<album, position, disturbed>>
  BY <1>2, <1>3, QuietReads
<1>4. CASE /\ album' = [album EXCEPT ![t] = NoAlbum] /\ position' = [position EXCEPT ![t] = NoPosition]
           /\ disturbed' = disturbed \cup ({album[t]} \ {NoAlbum})
  <2>1. /\ album'[t] = NoAlbum /\ \A u \in Track : u # t => album'[u] = album[u] /\ position'[u] = position[u]
    BY <1>4 DEF TypeOK
  <2>2. a \notin disturbed' => a \notin disturbed /\ t \notin Members(a)
    BY <1>4 DEF Members
  <2> QED BY <1>2, <2>1, <2>2, KeptElsewhere
<1> QED BY <1>1, <1>3, <1>4 DEF DetachTrack

LEMMA KeptByRows ==
  ASSUME TypeOK, RequestsHeld, NEW a \in Album, Kept(a),
         (\E t \in Track : DeleteTrack(t)) \/ (\E b \in Album : CreateAlbum(b) \/ DeleteAlbum(b))
  PROVE  Kept(a)'
<1>1. request' = request /\ \A r \in Request : Counted(r, a)' => Counted(r, a)
  BY DEF DeleteTrack, CreateAlbum, DeleteAlbum, Counted
<1>2. ASSUME NEW t \in Track, DeleteTrack(t), a \in items' PROVE Quiet(a)
  <2>1. /\ album'[t] = NoAlbum /\ \A u \in Track : u # t => album'[u] = album[u] /\ position'[u] = position[u]
        /\ items' = items \ {t} /\ overlapped' = overlapped
        /\ a \notin disturbed' => a \notin disturbed /\ t \notin Members(a)
    BY <1>2 DEF DeleteTrack, TypeOK, Members
  <2>2. Members(a)' \subseteq Members(a) /\ (t \notin Members(a) => Members(a)' = Members(a))
    BY <2>1 DEF Members
  <2>3. \A u \in Members(a) : u # t => position'[u] = position[u]
    BY <2>1 DEF Members
  <2> QED BY <1>1, <1>2, <2>1, <2>2, <2>3 DEF Quiet
<1>3. ASSUME NEW b \in Album, DeleteAlbum(b), a \in items' PROVE Quiet(a)
  <2>1. a # b /\ a \in items /\ (a \in overlapped => a \in overlapped') /\ (a \in disturbed => a \in disturbed')
    BY <1>3 DEF DeleteAlbum
  <2>2. Members(a)' = Members(a)
    BY <1>3, <2>1 DEF DeleteAlbum, Members, TypeOK
  <2> QED BY <1>1, <1>3, <2>1, <2>2 DEF DeleteAlbum, Quiet
<1>4. ASSUME NEW b \in Album, b # a, CreateAlbum(b), a \in items' PROVE Quiet(a)
  <2>1. a \in items /\ Members(a)' = Members(a)
    BY <1>4 DEF CreateAlbum, Members
  <2> QED BY <1>1, <1>4, <2>1 DEF CreateAlbum, Quiet
<1>5. ASSUME CreateAlbum(a) PROVE Kept(a)'
  <2>1. a \in fresh /\ a \notin items /\ UNCHANGED <<album, position, history>>
    BY <1>5 DEF CreateAlbum, TypeOK
  <2>2. Members(a)' = {}
    BY <2>1 DEF TypeOK, Members
  <2>3. \A r \in Request : ~Counted(r, a)'
    BY <1>1, <2>1 DEF RequestsHeld, Held, Counted, Adds
  <2>4. Cardinality(Members(a)') = 0
    BY <2>2, FS_EmptySet
  <2>5. Room(a)'
    BY <2>3, <2>4 DEF Room, CountedOnce
  <2>6. Placed(a)'
    BY <2>2, <2>3 DEF Placed
  <2> QED BY <2>5, <2>6 DEF Kept
<1> QED BY <1>2, <1>3, <1>4, <1>5, QuietKeeps

LEMMA KeptStep == TypeOK /\ RequestsHeld /\ AlbumsKept /\ [Next]_vars => AlbumsKept'
<1> SUFFICES ASSUME TypeOK, RequestsHeld, [Next]_vars, NEW a \in Album, Kept(a) PROVE Kept(a)'
  BY DEF AlbumsKept
<1>1. ASSUME NEW r \in Request, Step(r) PROVE Kept(a)'
  BY <1>1, KeptByReaders, KeptByCounts, KeptByInsert, KeptByAttach, KeptByDetach DEF Step
<1>2. CASE UNCHANGED vars
  BY <1>2 DEF Kept, Room, Placed, CountedOnce, Counted, Members, Load
<1>3. CASE Next
  <2>1. ASSUME NEW r \in Request, NEW b \in Album, NEW ids \in TrackLists, AddTracks(r, b, ids)
        PROVE  Kept(a)'
    BY <2>1, KeptByReaders
  <2>2. ASSUME NEW r \in Request, NEW b \in Album, NEW t \in Track, RemoveTrack(r, b, t)
        PROVE  Kept(a)'
    BY <2>2, KeptByReaders
  <2>3. ASSUME NEW r \in Request, NEW b \in Album \cup {NoAlbum}, NEW t \in Track, CreateTrack(r, t, b)
        PROVE  Kept(a)'
    BY <2>3, KeptByReaders
  <2> QED BY <1>1, <1>3, <2>1, <2>2, <2>3, KeptByReaders, KeptByRows DEF Next
<1> QED BY <1>2, <1>3

LEMMA KeptInit == Init => AlbumsKept
BY DEF Init, AlbumsKept, Kept

(* AlbumWithinMax: an album holds no more tracks than ALBUM_TRACKS_MAX,     *)
(* unless two additions to it were counted before either was written.       *)
THEOREM AlbumsStayWithinMax == Spec => []AlbumWithinMax
<1>1. TypeOK /\ AlbumsKept => AlbumWithinMax
  <2> SUFFICES ASSUME TypeOK, AlbumsKept, NEW a \in Album, a \notin overlapped
               PROVE  Cardinality(Members(a)) <= TracksMax
    BY DEF AlbumWithinMax
  <2>1. CASE a \in items
    BY <2>1 DEF AlbumsKept, Kept, Room
  <2>2. CASE a \notin items
    <3>1. Members(a) = {}
      BY <2>2 DEF TypeOK, Members
    <3> QED BY <3>1, FS_EmptySet
  <2> QED BY <2>1, <2>2
<1> QED BY <1>1, HeldInit, HeldStep, KeptInit, KeptStep, PTL DEF Spec

(* PositionsAreDistinct: the tracks of an album are at positions without    *)
(* gap or repetition, as long as additions did not overlap and no track     *)
(* left the album or was added to it again.                                 *)
THEOREM PositionsStayDistinct == Spec => []PositionsAreDistinct
<1>1. TypeOK /\ AlbumsKept => PositionsAreDistinct
  <2> SUFFICES ASSUME TypeOK, AlbumsKept, NEW a \in Album \ (overlapped \cup disturbed)
               PROVE  /\ \A t \in Members(a) : position[t] \in 0 .. Cardinality(Members(a)) - 1
                      /\ \A t, u \in Members(a) : position[t] = position[u] => t = u
    BY DEF PositionsAreDistinct
  <2>1. CASE a \in items
    BY <2>1 DEF AlbumsKept, Kept, Placed
  <2>2. CASE a \notin items
    BY <2>2 DEF TypeOK, Members
  <2> QED BY <2>1, <2>2
<1> QED BY <1>1, HeldInit, HeldStep, KeptInit, KeptStep, PTL DEF Spec

-----------------------------------------------------------------------------
(* The artist was compared some awaits before a track is written, but no    *)
(* row changes hands.                                                       *)
LEMMA ArtistStep == TypeOK /\ RequestsHeld /\ AlbumsOfOneArtist /\ [Next]_vars => AlbumsOfOneArtist'
<1> SUFFICES ASSUME TypeOK, RequestsHeld, AlbumsOfOneArtist, [Next]_vars,
                    TypeOK', NEW t \in items' \cap Track, album'[t] # NoAlbum
             PROVE  By[album'[t]] = By[t] /\ album'[t] \in items'
  BY HeldStep DEF AlbumsOfOneArtist
<1>1. album'[t] \in items'
  BY DEF TypeOK
<1>2. CASE album'[t] = album[t]
  BY <1>1, <1>2 DEF AlbumsOfOneArtist, TypeOK
<1>3. ASSUME NEW r \in Request, InsertTrack(r), album'[t] # album[t] PROVE By[album'[t]] = By[t]
  <2>1. t = request[r].track /\ album'[t] = request[r].album
    BY <1>3 DEF InsertTrack, TypeOK
  <2> QED BY <1>3, <2>1 DEF InsertTrack, RequestsHeld, Held
<1>4. ASSUME NEW r \in Request, AttachTrack(r), album'[t] # album[t] PROVE By[album'[t]] = By[t]
  <2>1. t = Head(request[r].left) /\ album'[t] = request[r].album
    BY <1>4 DEF AttachTrack, TypeOK
  <2> QED BY <1>4, <2>1, AfterAttachTrack
<1>5. ASSUME NEW u \in Track, album' = [album EXCEPT ![u] = NoAlbum] PROVE album'[t] = album[t]
  BY <1>5 DEF TypeOK
<1>6. ASSUME NEW a \in Album, DeleteAlbum(a) PROVE album'[t] = album[t]
  BY <1>6 DEF DeleteAlbum
<1>7. ASSUME NEW r \in Request, DetachTrack(r) PROVE album'[t] = album[t]
  <2>1. request[r].track \in Track
    BY <1>7, Shapes DEF DetachTrack, Removes, Detaching
  <2> QED BY <1>5, <1>7, <2>1 DEF DetachTrack
<1>8. ASSUME NEW r \in Request, Step(r), album'[t] # album[t] PROVE By[album'[t]] = By[t]
  BY <1>3, <1>4, <1>7, <1>8
  DEF Step, FindAlbum, CountTracks, CountAlbum, FindTracks, FindTrack
<1> QED BY <1>1, <1>2, <1>5, <1>6, <1>8
     DEF Next, Fail, CreateTrack, AddTracks, RemoveTrack, DeleteTrack, CreateAlbum

(* AlbumsOfOneArtist: the tracks of an album, which exists, are its         *)
(* artist's, although the requests that attach them check it awaits before. *)
THEOREM AlbumsStayOfOneArtist == Spec => []AlbumsOfOneArtist
<1>1. Init => AlbumsOfOneArtist
  BY DEF Init, AlbumsOfOneArtist
<1> QED BY <1>1, HeldInit, HeldStep, ArtistStep, PTL DEF Spec

=============================================================================
