---------------------------- MODULE RegionProofs ----------------------------
(***************************************************************************)
(* Regions of a frame, and the text found in them.  What the box of a crop *)
(* becomes in its frame, for every transform, every point a detector may   *)
(* report and every frame; that an OCR worker and its host return the      *)
(* detections of all the frames or none, for every stream; and that        *)
(* settings the control plane accepted are honoured, for every rectangle,  *)
(* every grid of coordinates and every size of the source.  And of what    *)
(* follows from the detections: a chain of documents that the parsers      *)
(* accept is coherent, whatever the stages make.                           *)
(***************************************************************************)
EXTENDS OcrWorker, SceneRegions, Documents, FiniteSetTheorems, SequenceTheorems,
        WellFoundedInduction, TLAPS


IsBox(b) == /\ 0 <= b[1] /\ b[1] < b[3] /\ b[3] <= FrameWidth
            /\ 0 <= b[2] /\ b[2] < b[4] /\ b[4] <= FrameHeight

\* A fraction cut to an integer is one.
LEMMA TruncatedIsInt ==
    ASSUME NEW n \in Int, NEW over \in Nat \ {0}
    PROVE  Truncated(n, over) \in Int
BY DEF Truncated

LEMMA MovedIsInt ==
    ASSUME NEW t \in Transforms, NEW p, \A i \in 1 .. 4 : p[i] \in Int
    PROVE  /\ Moved(t, p)[1] \in Int /\ Moved(t, p)[2] \in Int
           /\ Moved(t, p)[3] \in Int /\ Moved(t, p)[4] \in Int
<1> DEFINE x(i) == t.x_offset * t.over + t.x_scale * p[i]
           y(i) == t.y_offset * t.over + t.y_scale * p[i]
<1>1. t.x_offset * t.over \in Int /\ t.y_offset * t.over \in Int /\ t.over \in Nat \ {0}
  BY DEF Transforms
<1>2. \A i \in 1 .. 4 : t.x_scale * p[i] \in Int /\ t.y_scale * p[i] \in Int
  BY DEF Transforms
<1>3. \A i \in 1 .. 4 : x(i) \in Int /\ y(i) \in Int
  BY <1>1, <1>2
<1>4. x(1) \in Int /\ y(2) \in Int /\ x(3) \in Int /\ y(4) \in Int
  BY <1>3
<1> HIDE DEF x, y
<1>5. /\ Truncated(x(1), t.over) \in Int /\ Truncated(y(2), t.over) \in Int
      /\ Truncated(x(3), t.over) \in Int /\ Truncated(y(4), t.over) \in Int
  BY <1>1, <1>4, TruncatedIsInt
<1> QED BY <1>5 DEF Moved, x, y

\* CoordinateTransform.box: whatever a detector reports, the box has an area and
\* lies within the frame.
THEOREM BoxWithinFrame ==
    ASSUME NEW t \in Transforms, NEW p, \A i \in 1 .. 4 : p[i] \in Int
    PROVE  IsBox(box(t, p))
<1>1. FrameWidth \in Nat \ {0} /\ FrameHeight \in Nat \ {0}
  BY OcrAssumption
<1> DEFINE m == Moved(t, p)
           left == Most(0, Least(FrameWidth - 1, m[1]))
           top == Most(0, Least(FrameHeight - 1, m[2]))
           right == Most(left + 1, Least(FrameWidth, m[3]))
           bottom == Most(top + 1, Least(FrameHeight, m[4]))
<1>2. m[1] \in Int /\ m[2] \in Int /\ m[3] \in Int /\ m[4] \in Int
  BY MovedIsInt
<1>3. box(t, p) = <<left, top, right, bottom>>
  BY DEF box, CutToFrame
<1> HIDE DEF m
<1>4. left \in Int /\ 0 <= left /\ left <= FrameWidth - 1
  BY <1>1, <1>2 DEF Most, Least
<1>5. top \in Int /\ 0 <= top /\ top <= FrameHeight - 1
  BY <1>1, <1>2 DEF Most, Least
<1> HIDE DEF left, top
<1>6. left < right /\ right <= FrameWidth
  BY <1>1, <1>2, <1>4 DEF Most, Least
<1>7. top < bottom /\ bottom <= FrameHeight
  BY <1>1, <1>2, <1>5 DEF Most, Least
<1> QED BY <1>3, <1>4, <1>5, <1>6, <1>7 DEF IsBox

\* A box of the frame is its own box: to put a canonical box through the host's
\* default transform again does not move it.
THEOREM CanonicalBoxStays ==
    ASSUME NEW b, DOMAIN b = 1 .. 4, b = <<b[1], b[2], b[3], b[4]>>,
           \A i \in 1 .. 4 : b[i] \in Int, IsBox(b)
    PROVE  box(Identity, b) = b
<1>1. FrameWidth \in Nat \ {0} /\ FrameHeight \in Nat \ {0}
  BY OcrAssumption
<1>2. \A n \in Nat : Truncated(0 * 1 + 1 * n, 1) = n
  BY DEF Truncated
<1>3. b[1] \in Nat /\ b[2] \in Nat /\ b[3] \in Nat /\ b[4] \in Nat
  BY DEF IsBox
<1>4. Moved(Identity, b) = <<b[1], b[2], b[3], b[4]>>
  BY <1>2, <1>3 DEF Moved, Identity
<1>5. /\ Most(0, Least(FrameWidth - 1, b[1])) = b[1]
      /\ Most(0, Least(FrameHeight - 1, b[2])) = b[2]
      /\ Most(b[1] + 1, Least(FrameWidth, b[3])) = b[3]
      /\ Most(b[2] + 1, Least(FrameHeight, b[4])) = b[4]
  BY <1>1, <1>3 DEF Most, Least, IsBox
<1> QED BY <1>4, <1>5 DEF box, CutToFrame

-----------------------------------------------------------------------------
\* The worker and its host.

\* The frame whose text the k-th frame shows.
LastChange(c, seen, k, j) ==
    j \in 1 .. k /\ Changed(c, seen, j) /\ \A i \in j + 1 .. k : ~Changed(c, seen, i)

LEMMA LastChangeIsOne ==
    ASSUME NEW c, NEW seen, NEW k \in Nat, NEW i, NEW j, LastChange(c, seen, k, i), LastChange(c, seen, k, j)
    PROVE  i = j
BY DEF LastChange

LEMMA ShownIsTheLastChange ==
    ASSUME NEW c, NEW seen, NEW k \in Nat, NEW j, LastChange(c, seen, k, j)
    PROVE  Shown(c, seen, k) = seen[j]
<1> DEFINE h == CHOOSE i \in 1 .. k : Changed(c, seen, i) /\ \A l \in i + 1 .. k : ~Changed(c, seen, l)
<1>1. \E i \in 1 .. k : Changed(c, seen, i) /\ \A l \in i + 1 .. k : ~Changed(c, seen, l)
  BY DEF LastChange
<1>2. LastChange(c, seen, k, h)
  BY <1>1 DEF LastChange
<1>3. h = j
  BY <1>2, LastChangeIsOne
<1> QED BY <1>3 DEF Shown

EachShows(c, seen) == \A k \in 1 .. Len(seen) : \E j \in 1 .. k : LastChange(c, seen, k, j)

\* One more frame changes nothing for the frames before it.
LEMMA EarlierStay ==
    ASSUME NEW c, NEW seen \in Seq(Pictures), NEW p \in Pictures,
           NEW k \in 1 .. Len(seen), NEW j, LastChange(c, seen, k, j)
    PROVE  LastChange(c, Append(seen, p), k, j) /\ Append(seen, p)[j] = seen[j]
<1> DEFINE next == Append(seen, p)
<1>1. \A i \in 1 .. Len(seen) : next[i] = seen[i]
  OBVIOUS
<1>2. ASSUME NEW i \in 1 .. k PROVE Changed(c, next, i) <=> Changed(c, seen, i)
  <2>1. CASE i = 1
    BY <2>1 DEF Changed
  <2>2. CASE i # 1
    <3>1. i - 1 \in 1 .. Len(seen) /\ i \in 1 .. Len(seen)
      BY <2>2
    <3>2. next[i - 1] = seen[i - 1] /\ next[i] = seen[i]
      BY <1>1, <3>1
    <3> HIDE DEF next
    <3> QED BY <3>2 DEF Changed
  <2> QED BY <2>1, <2>2
<1>3. j \in 1 .. Len(seen)
  BY DEF LastChange
<1> HIDE DEF next
<1>4. LastChange(c, next, k, j)
  BY <1>2 DEF LastChange
<1> QED BY <1>1, <1>3, <1>4 DEF next

\* What is carried over to a frame is what it shows.
LEMMA NextShows ==
    ASSUME NEW c, NEW seen \in Seq(Pictures), NEW p \in Pictures, NEW detected, NEW d,
           EachShows(c, seen), seen # <<>> => detected = Shown(c, seen, Len(seen)),
           d = IF \/ seen = <<>> \/ ~c.enabled
                  \/ Distance(seen[Len(seen)], p) > Threshold THEN p ELSE detected
    PROVE  /\ EachShows(c, Append(seen, p))
           /\ \A k \in 1 .. Len(seen) : Shown(c, Append(seen, p), k) = Shown(c, seen, k)
           /\ Shown(c, Append(seen, p), Len(Append(seen, p))) = d
<1> DEFINE changed == seen = <<>> \/ ~c.enabled \/ Distance(seen[Len(seen)], p) > Threshold
           next == Append(seen, p)
           n == Len(seen) + 1
<1>1. Len(next) = n /\ next[n] = p /\ n \in Nat \ {0} /\ Len(seen) \in Nat
  OBVIOUS
<1>2. ASSUME NEW k \in 1 .. Len(seen)
      PROVE  Shown(c, next, k) = Shown(c, seen, k) /\ \E j \in 1 .. k : LastChange(c, next, k, j)
  <2>1. PICK j \in 1 .. k : LastChange(c, seen, k, j)
    BY DEF EachShows
  <2>2. LastChange(c, next, k, j) /\ next[j] = seen[j]
    BY <2>1, EarlierStay
  <2> HIDE DEF next
  <2>3. k \in Nat
    BY <1>1
  <2> QED BY <2>1, <2>2, <2>3, ShownIsTheLastChange
<1>3. Changed(c, next, n) <=> changed
  <2>1. CASE seen = <<>>
    BY <1>1, <2>1 DEF Changed
  <2>2. CASE seen # <<>>
    <3>1. n # 1 /\ n - 1 = Len(seen) /\ Len(seen) \in 1 .. Len(seen)
      BY <2>2
    <3>2. next[n - 1] = seen[Len(seen)]
      BY <3>1
    <3> HIDE DEF next, n
    <3> QED BY <1>1, <2>2, <3>1, <3>2 DEF Changed
  <2> QED BY <2>1, <2>2
<1>4. \E j \in 1 .. n : LastChange(c, next, n, j) /\ next[j] = IF changed THEN p ELSE detected
  <2>1. CASE changed
    <3>1. n \in 1 .. n /\ n + 1 .. n = {}
      BY <1>1
    <3> HIDE DEF next, n, changed
    <3>2. LastChange(c, next, n, n)
      BY <1>3, <2>1, <3>1 DEF LastChange
    <3> QED BY <1>1, <2>1, <3>1, <3>2
  <2>2. CASE ~changed
    <3>1. seen # <<>> /\ Len(seen) \in 1 .. Len(seen)
      BY <2>2
    <3>2. PICK j \in 1 .. Len(seen) : LastChange(c, seen, Len(seen), j)
      BY <3>1 DEF EachShows
    <3>3. LastChange(c, next, Len(seen), j) /\ next[j] = seen[j]
      BY <3>1, <3>2, EarlierStay
    <3>4. detected = seen[j]
      BY <1>1, <3>1, <3>2, ShownIsTheLastChange
    <3>5. \A i \in j + 1 .. n : i \in j + 1 .. Len(seen) \/ i = n
      BY <1>1
    <3>6. j \in 1 .. n
      BY <1>1
    <3> HIDE DEF next, n, changed
    <3>7. LastChange(c, next, n, j)
      BY <1>3, <2>2, <3>3, <3>5, <3>6 DEF LastChange
    <3> QED BY <2>2, <3>3, <3>4, <3>6, <3>7
  <2> QED BY <2>1, <2>2
<1>5. EachShows(c, next)
  <2>1. \A k \in 1 .. n : k \in 1 .. Len(seen) \/ k = n
    BY <1>1
  <2> HIDE DEF next, n, changed
  <2> QED BY <1>1, <1>2, <1>4, <2>1 DEF EachShows
<1>6. Shown(c, next, n) = IF changed THEN p ELSE detected
  <2> HIDE DEF next, n, changed
  <2> QED BY <1>1, <1>4, ShownIsTheLastChange
<1>7. d = IF changed THEN p ELSE detected
  OBVIOUS
<1> HIDE DEF changed, n
<1> QED BY <1>1, <1>2, <1>5, <1>6, <1>7

LEMMA DetectionsGrow ==
    ASSUME NEW c, NEW seen \in Seq(Pictures), NEW p \in Pictures, NEW d,
           \A k \in 1 .. Len(seen) : Shown(c, Append(seen, p), k) = Shown(c, seen, k),
           Shown(c, Append(seen, p), Len(Append(seen, p))) = d
    PROVE  Detections(c, Append(seen, p)) =
             Detections(c, seen) \union IF d = Blank THEN {} ELSE {Record(c, Len(seen) + 1, d)}
<1> DEFINE next == Append(seen, p)
           n == Len(seen) + 1
<1>1. DOMAIN next = DOMAIN seen \union {n} /\ Len(next) = n /\ DOMAIN seen = 1 .. Len(seen)
  OBVIOUS
<1>2. \A k \in DOMAIN seen : Shown(c, next, k) = Shown(c, seen, k)
  BY <1>1
<1>3. Shown(c, next, n) = d
  BY <1>1
<1> HIDE DEF next, n
<1>4. Detections(c, next) = Detections(c, seen) \union IF d = Blank THEN {} ELSE {Record(c, n, d)}
  BY <1>1, <1>2, <1>3 DEF Detections
<1> QED BY <1>4 DEF next, n
-----------------------------------------------------------------------------
Chunks == [sink : {"file", "stdout"}, start : Nat, step : Nat \ {0}, expected : Nat,
           tolerance : Nat, enabled : BOOLEAN, points : Points]
OcrRecords == {Record(c, k, x) : c \in Chunks, k \in Nat, x \in Nat}

OCRTypeOK ==
    /\ chunk \in Chunks
    /\ DOMAIN worker = {"pc", "seen", "detected", "records"}
    /\ worker.pc \in {"reading", "write", "replace", "zero", "error", "killed"}
    /\ worker.seen \in Seq(Pictures) /\ Len(worker.seen) <= chunk.expected
    /\ worker.detected \in Nat /\ worker.records \in Seq(OcrRecords)
    /\ DOMAIN client = {"pc", "got", "timedOut", "result"}

\* The records are the detections of the frames seen so far, and the text that
\* would be carried over is what the last of them shows.
RecordsFollow ==
    /\ EachShows(chunk, worker.seen)
    /\ worker.seen # <<>> => worker.detected = Shown(chunk, worker.seen, Len(worker.seen))
    /\ AllOf(worker.records) = Detections(chunk, worker.seen)

\* A worker that came to the end saw enough, a file has all it recorded, and a
\* reader that came to the end of the pipe has it too or finds the worker dead.
EndsFollow ==
    /\ worker.pc \in {"write", "replace", "zero"} => Enough
    /\ file.kind = "new" => worker.pc = "zero" /\ file.records = worker.records
    /\ client.pc = "reap" => ~Running /\ (worker.pc = "killed" \/ client.got = worker.records)
    /\ client.pc = "returned" =>
         /\ worker.pc = "zero" /\ client.got = worker.records
         /\ client.result = [i \in DOMAIN client.got |-> Parsed(client.got[i])]

OCRInv == OCRTypeOK /\ RecordsFollow /\ EndsFollow

LEMMA RecordIsOne ==
    ASSUME NEW c \in Chunks, NEW k \in Nat, NEW x \in Nat
    PROVE  Record(c, k, x) \in OcrRecords
BY DEF OcrRecords

LEMMA OCRInitInv == OCRInit => OCRInv
<1> SUFFICES ASSUME OCRInit PROVE OCRInv
  OBVIOUS
<1>1. /\ worker = [pc |-> "reading", seen |-> <<>>, detected |-> Blank, records |-> <<>>]
      /\ file = [kind |-> "old", records |-> <<>>]
  BY DEF OCRInit
<1>2. /\ chunk \in Chunks
      /\ DOMAIN client = {"pc", "got", "timedOut", "result"}
      /\ client.pc \in {"reading", "off"}
  BY OcrAssumption DEF OCRInit, Chunks
<1>3. OCRTypeOK
  BY <1>1, <1>2 DEF OCRTypeOK, Blank, Chunks
<1>4. RecordsFollow
  BY <1>1 DEF RecordsFollow, EachShows, AllOf, Detections
<1>5. EndsFollow
  BY <1>1, <1>2 DEF EndsFollow
<1> QED BY <1>3, <1>4, <1>5 DEF OCRInv

\* A step that leaves what was seen and recorded.
LEMMA FollowsOn ==
    ASSUME OCRInv, chunk' = chunk, worker'.seen = worker.seen,
           worker'.detected = worker.detected, worker'.records = worker.records,
           DOMAIN worker' = DOMAIN worker, DOMAIN client' = DOMAIN client,
           worker'.pc \in {"reading", "write", "replace", "zero", "error", "killed"}
    PROVE  OCRTypeOK' /\ RecordsFollow'
<1>1. OCRTypeOK'
  BY DEF OCRInv, OCRTypeOK
<1>2. RecordsFollow'
  BY DEF OCRInv, RecordsFollow
<1> QED BY <1>1, <1>2

LEMMA FrameStep ==
    ASSUME OCRInv, NEW p \in Pictures, iter_processed_frames(p)
    PROVE  OCRInv'
<1> DEFINE seen == worker.seen
           d == IF \/ seen = <<>> \/ ~chunk.enabled
                   \/ Distance(seen[Len(seen)], p) > Threshold THEN p ELSE worker.detected
           next == Append(seen, p)
<1>1. /\ worker.pc = "reading" /\ Len(seen) < chunk.expected
      /\ worker' = [pc |-> "reading", seen |-> next, detected |-> d,
                    records |-> worker.records \o Records(chunk, Len(seen) + 1, d)]
      /\ UNCHANGED <<chunk, file, client>>
  BY DEF iter_processed_frames, Emit
<1>2. /\ seen \in Seq(Pictures) /\ worker.detected \in Nat /\ p \in Nat
      /\ worker.records \in Seq(OcrRecords) /\ chunk.expected \in Nat /\ chunk \in Chunks
  BY OcrAssumption DEF OCRInv, OCRTypeOK, Chunks
<1>3. EachShows(chunk, seen) /\ (seen # <<>> => worker.detected = Shown(chunk, seen, Len(seen)))
  BY DEF OCRInv, RecordsFollow
<1>4. /\ EachShows(chunk, next)
      /\ \A k \in 1 .. Len(seen) : Shown(chunk, next, k) = Shown(chunk, seen, k)
      /\ Shown(chunk, next, Len(next)) = d
  <2>1. d = IF \/ seen = <<>> \/ ~chunk.enabled
               \/ Distance(seen[Len(seen)], p) > Threshold THEN p ELSE worker.detected
    OBVIOUS
  <2>2. seen \in Seq(Pictures)
    BY <1>2
  <2> HIDE DEF d, seen
  <2> QED BY <2>1, <2>2, <1>3, NextShows
<1>5. next \in Seq(Pictures) /\ next # <<>> /\ Len(next) = Len(seen) + 1 /\ Len(seen) \in Nat
  BY <1>2
<1>6. d \in Nat
  BY <1>2
<1> HIDE DEF d, next
<1>7. Detections(chunk, next) =
        Detections(chunk, seen) \union IF d = Blank THEN {} ELSE {Record(chunk, Len(seen) + 1, d)}
  <2>1. /\ \A k \in 1 .. Len(seen) : Shown(chunk, Append(seen, p), k) = Shown(chunk, seen, k)
        /\ Shown(chunk, Append(seen, p), Len(Append(seen, p))) = d
    BY <1>4 DEF next
  <2>2. seen \in Seq(Pictures)
    BY <1>2
  <2> HIDE DEF seen
  <2>3. Detections(chunk, Append(seen, p)) =
          Detections(chunk, seen) \union IF d = Blank THEN {} ELSE {Record(chunk, Len(seen) + 1, d)}
    BY <2>1, <2>2, DetectionsGrow
  <2> QED BY <2>3 DEF next
<1>8. /\ worker'.records \in Seq(OcrRecords)
      /\ AllOf(worker'.records) =
           AllOf(worker.records) \union IF d = Blank THEN {} ELSE {Record(chunk, Len(seen) + 1, d)}
  <2>1. CASE d = Blank
    <3>1. worker'.records = worker.records
      BY <1>1, <1>2, <2>1 DEF Records
    <3> QED BY <1>2, <2>1, <3>1
  <2>2. CASE d # Blank
    <3> DEFINE r == Record(chunk, Len(seen) + 1, d)
               old == worker.records
    <3>1. r \in OcrRecords
      <4>1. chunk \in Chunks /\ Len(seen) + 1 \in Nat /\ d \in Nat
        BY <1>2, <1>5, <1>6
      <4> HIDE DEF seen
      <4> QED BY <4>1, RecordIsOne
    <3>2. worker'.records = old \o <<r>>
      BY <1>1, <2>2 DEF Records
    <3>3. old \in Seq(OcrRecords)
      BY <1>2
    <3> HIDE DEF r, old
    <3>4. old \o <<r>> = Append(old, r)
      BY <3>1, <3>3
    <3>5. /\ Append(old, r) \in Seq(OcrRecords)
          /\ DOMAIN Append(old, r) = DOMAIN old \union {Len(old) + 1}
          /\ \A i \in DOMAIN old : Append(old, r)[i] = old[i]
          /\ Append(old, r)[Len(old) + 1] = r
      BY <3>1, <3>3
    <3>6. AllOf(Append(old, r)) = AllOf(old) \union {r}
      BY <3>5 DEF AllOf
    <3> QED BY <2>2, <3>2, <3>4, <3>5, <3>6 DEF r, old
  <2> QED BY <2>1, <2>2
<1>9. worker'.pc = "reading" /\ worker'.seen = next /\ worker'.detected = d
  BY <1>1
<1>10. OCRTypeOK'
  <2>1. DOMAIN worker' = {"pc", "seen", "detected", "records"}
    BY <1>1
  <2>2. Len(next) <= chunk.expected
    BY <1>1, <1>2, <1>5
  <2> QED BY <1>1, <1>5, <1>6, <1>8, <1>9, <2>1, <2>2 DEF OCRInv, OCRTypeOK
<1>11. RecordsFollow'
  <2>1. AllOf(worker.records) = Detections(chunk, seen)
    BY DEF OCRInv, RecordsFollow
  <2> QED BY <1>1, <1>4, <1>7, <1>8, <1>9, <2>1 DEF RecordsFollow
<1>12. EndsFollow'
  BY <1>1, <1>9 DEF OCRInv, EndsFollow, Running
<1> QED BY <1>10, <1>11, <1>12 DEF OCRInv

\* What a step makes of the worker's place, when it leaves the rest.
WorkerGoes(pc) ==
    /\ DOMAIN worker' = DOMAIN worker /\ worker'.pc = pc /\ worker'.seen = worker.seen
    /\ worker'.detected = worker.detected /\ worker'.records = worker.records

LEMMA PlaceIsSet ==
    ASSUME OCRInv, NEW pc, worker' = [worker EXCEPT !.pc = pc]
    PROVE  WorkerGoes(pc)
BY DEF OCRInv, OCRTypeOK, WorkerGoes

LEMMA WorkerStep ==
    ASSUME OCRInv,
           \/ StreamIsBad \/ iter_raw_frames \/ WriteTemporary \/ ReplaceFile
           \/ WorkerDies \/ WatchdogKills
    PROVE  OCRInv'
<1>1. UNCHANGED chunk /\ UNCHANGED client
  BY DEF StreamIsBad, iter_raw_frames, WriteTemporary, ReplaceFile, WorkerDies,
         WatchdogKills, Fails
<1>2. \E pc \in {"write", "replace", "zero", "error", "killed"} :
        worker' = [worker EXCEPT !.pc = pc]
  BY DEF StreamIsBad, iter_raw_frames, WriteTemporary, ReplaceFile, WorkerDies,
         WatchdogKills, Fails
<1>3. PICK pc \in {"write", "replace", "zero", "error", "killed"} :
        worker' = [worker EXCEPT !.pc = pc] /\ WorkerGoes(pc)
  BY <1>2, PlaceIsSet
<1>4. OCRTypeOK' /\ RecordsFollow'
  BY <1>1, <1>3, FollowsOn DEF WorkerGoes
<1>5. Running
  BY DEF StreamIsBad, iter_raw_frames, WriteTemporary, ReplaceFile, WorkerDies,
         WatchdogKills, Running
<1>6. worker'.pc \in {"write", "replace", "zero"} => Enough'
  <2>1. CASE iter_raw_frames
    <3>1. CASE Len(worker.seen) < chunk.expected - chunk.tolerance
      <4>1. worker' = [worker EXCEPT !.pc = "error"]
        BY <2>1, <3>1 DEF iter_raw_frames, Fails
      <4> QED BY <4>1, PlaceIsSet DEF WorkerGoes
    <3>2. CASE ~(Len(worker.seen) < chunk.expected - chunk.tolerance)
      <4>1. /\ Len(worker.seen) \in Nat /\ Len(worker.seen) <= chunk.expected
            /\ chunk.expected \in Nat /\ chunk.tolerance \in Nat
        BY DEF OCRInv, OCRTypeOK, Chunks
      <4>2. Enough
        BY <3>2, <4>1 DEF Enough
      <4> QED BY <1>1, <1>3, <4>2 DEF Enough, WorkerGoes
    <3> QED BY <3>1, <3>2
  <2>2. CASE WriteTemporary \/ ReplaceFile
    <3>1. Enough
      BY <2>2 DEF OCRInv, EndsFollow, WriteTemporary, ReplaceFile
    <3> QED BY <1>1, <1>3, <3>1 DEF Enough, WorkerGoes
  <2>3. CASE StreamIsBad \/ WorkerDies \/ WatchdogKills
    <3>1. worker' = [worker EXCEPT !.pc = "error"] \/ worker' = [worker EXCEPT !.pc = "killed"]
      BY <2>3 DEF StreamIsBad, WorkerDies, WatchdogKills, Fails
    <3> QED BY <3>1, PlaceIsSet DEF WorkerGoes
  <2> QED BY <2>1, <2>2, <2>3
<1>7. file'.kind = "new" => worker'.pc = "zero" /\ file'.records = worker'.records
  <2>1. CASE ReplaceFile
    <3>1. worker' = [worker EXCEPT !.pc = "zero"] /\ file'.records = worker.records
      BY <2>1 DEF ReplaceFile
    <3> QED BY <3>1, PlaceIsSet DEF WorkerGoes
  <2>2. CASE ~ReplaceFile
    <3>1. UNCHANGED file
      BY <2>2 DEF StreamIsBad, iter_raw_frames, WriteTemporary, WorkerDies, WatchdogKills, Fails
    <3> QED BY <1>5, <3>1 DEF OCRInv, EndsFollow, Running
  <2> QED BY <2>1, <2>2
<1>8. EndsFollow'
  BY <1>1, <1>5, <1>6, <1>7 DEF OCRInv, EndsFollow, Running
<1> QED BY <1>4, <1>8 DEF OCRInv

\* The reader takes one more record, or has had too many.
LEMMA ReadStep ==
    ASSUME OCRInv, HostReads
    PROVE  OCRInv'
<1>1. client.pc = "reading" /\ UNCHANGED chunk /\ UNCHANGED file
  BY DEF HostReads
<1>2. CASE Len(client.got) = MaxRecords
  <2>1. client' = [client EXCEPT !.pc = "raised"]
    BY <1>2 DEF HostReads, HostGoto
  <2>2. worker' = [worker EXCEPT !.pc = IF Running THEN "killed" ELSE worker.pc]
    BY <1>2 DEF HostReads
  <2>3. WorkerGoes(IF Running THEN "killed" ELSE worker.pc)
    BY <2>2, PlaceIsSet
  <2>4. DOMAIN client' = DOMAIN client /\ client'.pc = "raised"
    BY <2>1 DEF OCRInv, OCRTypeOK
  <2>5. worker'.pc \in {"reading", "write", "replace", "zero", "error", "killed"}
    BY <2>3 DEF WorkerGoes, OCRInv, OCRTypeOK
  <2>6. OCRTypeOK' /\ RecordsFollow'
    BY <1>1, <2>3, <2>4, <2>5, FollowsOn DEF WorkerGoes
  <2>7. Enough' = Enough
    BY <1>1, <2>3 DEF Enough, WorkerGoes
  <2>8. EndsFollow'
    BY <1>1, <2>3, <2>4, <2>7 DEF OCRInv, EndsFollow, Running, WorkerGoes
  <2> QED BY <2>6, <2>8 DEF OCRInv
<1>3. CASE Len(client.got) # MaxRecords
  <2>1. UNCHANGED worker
    BY <1>3 DEF HostReads
  <2>2. DOMAIN client' = DOMAIN client /\ client'.pc = "reading"
    BY <1>1, <1>3 DEF HostReads, OCRInv, OCRTypeOK
  <2>3. OCRTypeOK' /\ RecordsFollow'
    BY <1>1, <2>1, <2>2, FollowsOn DEF OCRInv, OCRTypeOK
  <2>4. Enough' = Enough
    BY <1>1, <2>1 DEF Enough
  <2>5. EndsFollow'
    BY <1>1, <2>1, <2>2, <2>4 DEF OCRInv, EndsFollow, Running
  <2> QED BY <2>3, <2>5 DEF OCRInv
<1> QED BY <1>2, <1>3

LEMMA HostStep ==
    ASSUME OCRInv, HostSeesEnd \/ WatchdogFires \/ run_chunk
    PROVE  OCRInv'
<1>1. UNCHANGED <<chunk, worker, file>>
  BY DEF HostSeesEnd, WatchdogFires, run_chunk, Conclude
<1>2. DOMAIN client = {"pc", "got", "timedOut", "result"}
  BY DEF OCRInv, OCRTypeOK
<1>3. Enough' = Enough /\ Running' = Running
  BY <1>1 DEF Enough, Running
<1>4. CASE HostSeesEnd
  <2>1. DOMAIN client' = DOMAIN client /\ client'.pc = "reap" /\ client'.got = client.got
    BY <1>2, <1>4 DEF HostSeesEnd, HostGoto
  <2>2. ~Running /\ (worker.pc = "killed" \/ client.got = worker.records)
    BY <1>4 DEF HostSeesEnd
  <2>3. OCRTypeOK' /\ RecordsFollow'
    BY <1>1, <2>1, FollowsOn DEF OCRInv, OCRTypeOK
  <2>4. EndsFollow'
    BY <1>1, <1>3, <2>1, <2>2 DEF OCRInv, EndsFollow
  <2> QED BY <2>3, <2>4 DEF OCRInv
<1>5. CASE WatchdogFires
  <2>1. /\ DOMAIN client' = DOMAIN client /\ client'.pc = client.pc
        /\ client'.got = client.got /\ client.pc \in {"reading", "reap"}
    BY <1>2, <1>5 DEF WatchdogFires, Armed
  <2>2. OCRTypeOK' /\ RecordsFollow'
    BY <1>1, <2>1, FollowsOn DEF OCRInv, OCRTypeOK
  <2>3. EndsFollow'
    BY <1>1, <1>3, <2>1 DEF OCRInv, EndsFollow
  <2> QED BY <2>2, <2>3 DEF OCRInv
<1>6. CASE run_chunk
  <2> DEFINE ok == ~client.timedOut /\ worker.pc = "zero" /\ Parses(client.got)
             parsed == [i \in DOMAIN client.got |-> Parsed(client.got[i])]
  <2>1. /\ client.pc = "reap"
        /\ client' = IF ok THEN [client EXCEPT !.pc = "returned", !.result = parsed]
                     ELSE [client EXCEPT !.pc = "raised"]
    BY <1>6 DEF run_chunk, Conclude
  <2> HIDE DEF parsed
  <2>2. /\ DOMAIN client' = DOMAIN client /\ client'.got = client.got
        /\ client'.pc \in {"returned", "raised"}
        /\ client'.pc = "returned" => worker.pc = "zero" /\ client'.result = parsed
    BY <1>2, <2>1
  <2>3. OCRTypeOK' /\ RecordsFollow'
    BY <1>1, <2>2, FollowsOn DEF OCRInv, OCRTypeOK
  <2>4. worker.pc = "zero" => client.got = worker.records
    BY <2>1 DEF OCRInv, EndsFollow
  <2>5. parsed' = parsed
    BY <1>1, <2>2 DEF parsed, Parsed
  <2>6. EndsFollow'
    BY <1>1, <1>3, <2>2, <2>4, <2>5 DEF OCRInv, EndsFollow, parsed
  <2> QED BY <2>3, <2>6 DEF OCRInv
<1> QED BY <1>4, <1>5, <1>6

LEMMA OCRStep == OCRInv /\ [OCRNext]_ocrVars => OCRInv'
<1> SUFFICES ASSUME OCRInv, [OCRNext]_ocrVars PROVE OCRInv'
  OBVIOUS
<1>1. CASE \E p \in Pictures : iter_processed_frames(p)
  BY <1>1, FrameStep
<1>2. CASE \/ StreamIsBad \/ iter_raw_frames \/ WriteTemporary \/ ReplaceFile
           \/ WorkerDies \/ WatchdogKills
  BY <1>2, WorkerStep
<1>3. CASE HostReads
  BY <1>3, ReadStep
<1>4. CASE HostSeesEnd \/ WatchdogFires \/ run_chunk
  BY <1>4, HostStep
<1>5. CASE UNCHANGED ocrVars
  <2>1. /\ UNCHANGED <<chunk, file>> /\ UNCHANGED worker /\ UNCHANGED client
    BY <1>5 DEF ocrVars
  <2>2. OCRTypeOK' /\ RecordsFollow'
    BY <2>1, FollowsOn DEF OCRInv, OCRTypeOK
  <2>3. EndsFollow'
    BY <2>1 DEF OCRInv, EndsFollow, Enough, Running, Parsed
  <2> QED BY <2>2, <2>3 DEF OCRInv
<1> QED BY <1>1, <1>2, <1>3, <1>4, <1>5 DEF OCRNext, run_worker_loop, Host

LEMMA BoxIsFour ==
    ASSUME NEW t \in Transforms, NEW p, \A i \in 1 .. 4 : p[i] \in Int
    PROVE  LET b == box(t, p)
           IN  /\ b = <<b[1], b[2], b[3], b[4]>> /\ DOMAIN b = 1 .. 4
               /\ \A i \in 1 .. 4 : b[i] \in Int
<1> DEFINE m == Moved(t, p)
           left == Most(0, Least(FrameWidth - 1, m[1]))
           top == Most(0, Least(FrameHeight - 1, m[2]))
           right == Most(left + 1, Least(FrameWidth, m[3]))
           bottom == Most(top + 1, Least(FrameHeight, m[4]))
<1>1. m[1] \in Int /\ m[2] \in Int /\ m[3] \in Int /\ m[4] \in Int
  BY MovedIsInt
<1>2. box(t, p) = <<left, top, right, bottom>>
  BY DEF box, CutToFrame
<1> HIDE DEF m
<1>3. left \in Int /\ top \in Int
  BY <1>1, OcrAssumption DEF Most, Least
<1> HIDE DEF left, top
<1>4. right \in Int /\ bottom \in Int
  BY <1>1, <1>3, OcrAssumption DEF Most, Least
<1> HIDE DEF right, bottom
<1> QED BY <1>2, <1>3, <1>4

\* Of a chunk of all frames, the host's parser leaves a record as it is.
LEMMA ParsedIsTheSame ==
    ASSUME chunk \in Chunks, chunk.start = 0, chunk.step = 1, NEW r \in OcrRecords
    PROVE  Parsed(r) = r
<1>1. PICK c \in Chunks, k \in Nat, x \in Nat : r = Record(c, k, x)
  BY DEF OcrRecords
<1>2. /\ r = [frame |-> r.frame, text |-> r.text, box |-> box(Crop, c.points)]
      /\ r.frame \in Int
  BY <1>1 DEF Record, FrameNumber, Chunks
<1>3. box(Identity, r.box) = r.box
  <2> DEFINE b == box(Crop, c.points)
  <2>1. c.points \in Points
    BY <1>1 DEF Chunks
  <2>2. IsBox(b)
    BY <2>1, OcrAssumption, BoxWithinFrame
  <2>3. b = <<b[1], b[2], b[3], b[4]>> /\ DOMAIN b = 1 .. 4 /\ \A i \in 1 .. 4 : b[i] \in Int
    BY <2>1, OcrAssumption, BoxIsFour
  <2>4. r.box = b
    BY <1>2
  <2> HIDE DEF b
  <2> QED BY <2>2, <2>3, <2>4, CanonicalBoxStays
<1>4. chunk.start + r.frame * chunk.step = r.frame
  BY <1>2
<1> HIDE <1>1
<1>5. Parsed(r) = [r EXCEPT !.frame = r.frame, !.box = r.box]
  BY <1>3, <1>4 DEF Parsed
<1>6. r = [frame |-> r.frame, text |-> r.text, box |-> r.box]
  BY <1>2
<1> QED BY <1>5, <1>6

\* Whatever ends, dies or is killed on the way, the file a worker replaced has
\* the detections of all the frames of its chunk, and so has what run_chunk
\* returns, for every stream, every threshold and every chunk.
THEOREM ResultsAreRight == OCRSpec => []ResultIsRight
<1>1. ASSUME OCRInv PROVE ResultIsRight
  <2>1. AllOf(worker.records) = Detections(chunk, worker.seen)
    BY <1>1 DEF OCRInv, RecordsFollow
  <2>2. file.kind = "new" => Enough /\ AllOf(file.records) = Detections(chunk, worker.seen)
    BY <1>1, <2>1 DEF OCRInv, EndsFollow
  <2>3. ASSUME client.pc = "returned", chunk.start = 0, chunk.step = 1
        PROVE  Enough /\ AllOf(client.result) = Detections(chunk, worker.seen)
    <3>1. /\ Enough /\ client.got = worker.records
          /\ client.result = [i \in DOMAIN client.got |-> Parsed(client.got[i])]
      BY <1>1, <2>3 DEF OCRInv, EndsFollow
    <3>2. chunk \in Chunks /\ worker.records \in Seq(OcrRecords)
      BY <1>1 DEF OCRInv, OCRTypeOK
    <3>3. \A i \in DOMAIN worker.records : worker.records[i] \in OcrRecords
      BY <3>2
    <3>4. \A i \in DOMAIN worker.records : Parsed(worker.records[i]) = worker.records[i]
      BY <2>3, <3>2, <3>3, ParsedIsTheSame
    <3>5. /\ DOMAIN client.result = DOMAIN worker.records
          /\ \A i \in DOMAIN worker.records : client.result[i] = worker.records[i]
      BY <3>1, <3>4
    <3>6. AllOf(client.result) = AllOf(worker.records)
      BY <3>5 DEF AllOf
    <3> QED BY <2>1, <3>1, <3>6
  <2> QED BY <2>2, <2>3 DEF ResultIsRight
<1>2. OCRSpec => []OCRInv
  BY OCRInitInv, OCRStep, PTL DEF OCRSpec
<1> QED BY <1>1, <1>2, PTL

-----------------------------------------------------------------------------

\* A range grows within its side, keeps what it had and reaches the minimum.
LEMMA ExpandGrows ==
    ASSUME NEW low \in Int, NEW high \in Int, NEW bound \in Int,
           0 <= low, low <= high, high <= bound, MINIMUM <= bound
    PROVE  LET e == _expand_to_minimum(low, high, bound)
           IN  /\ e[1] \in Int /\ e[2] \in Int
               /\ 0 <= e[1] /\ e[1] <= low /\ high <= e[2] /\ e[2] <= bound
               /\ e[2] - e[1] >= MINIMUM
BY DEF _expand_to_minimum, AtLeast, AtMost, MINIMUM

\* Rounding is to a nearest integer.
LEMMA RoundedIsNearest ==
    ASSUME NEW n \in Int
    PROVE  /\ Rounded(n) \in Int
           /\ 2 * Units * Rounded(n) <= 2 * n + Units
           /\ 2 * n - Units <= 2 * Units * Rounded(n)
<1>1. Units \in Int /\ Units > 0
  BY SceneAssumption
<1> DEFINE down == n \div Units
           rest == n - Units * down
<1>2. down \in Int /\ n = Units * down + (n % Units) /\ 0 <= n % Units /\ n % Units < Units
  BY <1>1
<1>3. rest \in Int /\ 0 <= rest /\ rest < Units /\ n = Units * down + rest
  BY <1>1, <1>2
<1> DEFINE part == Units * down
<1>4. part \in Int /\ Units * (down + 1) = part + Units
  BY <1>1, <1>2
<1>5. Rounded(n) = IF 2 * rest > Units \/ (2 * rest = Units /\ down % 2 = 1)
                   THEN down + 1 ELSE down
  BY DEF Rounded
<1> HIDE DEF down
<1>6. CASE Rounded(n) = down /\ 2 * rest <= Units
  <2>1. 2 * Units * Rounded(n) = 2 * part
    BY <1>1, <1>2, <1>6
  <2>2. n = part + rest
    BY <1>3
  <2> HIDE DEF part, rest
  <2> QED BY <1>1, <1>2, <1>3, <1>4, <1>6, <2>1, <2>2
<1>7. CASE Rounded(n) = down + 1 /\ 2 * rest >= Units
  <2>1. 2 * Units * Rounded(n) = 2 * part + 2 * Units
    BY <1>1, <1>2, <1>4, <1>7
  <2>2. n = part + rest
    BY <1>3
  <2> HIDE DEF part, rest
  <2> QED BY <1>1, <1>2, <1>3, <1>4, <1>7, <2>1, <2>2
<1>8. \/ Rounded(n) = down /\ 2 * rest <= Units
      \/ Rounded(n) = down + 1 /\ 2 * rest >= Units
  <2> HIDE DEF rest
  <2> QED BY <1>1, <1>3, <1>5
<1> QED BY <1>6, <1>7, <1>8

LEMMA TimesUnits ==
    ASSUME NEW a \in Int, NEW b \in Int, a <= b
    PROVE  /\ Units * a \in Int /\ Units * b \in Int /\ Units * a <= Units * b
           /\ Units * (a + 1) = Units * a + Units
BY SceneAssumption

\* What a rounded range has: it is inside its side, and no pixel whose middle is
\* drawn over is left out.
LEMMA RangeIsInside ==
    ASSUME NEW from \in Int, NEW to \in Int, NEW side \in Int,
           0 <= from, from < to, to <= Units, 0 < side
    PROVE  /\ 0 <= Rounded(from * side) /\ Rounded(from * side) <= Rounded(to * side)
           /\ Rounded(to * side) <= side
           /\ \A p \in Int : /\ 2 * from * side < (2 * p + 1) * Units
                             /\ (2 * p + 1) * Units < 2 * to * side
                             => Rounded(from * side) <= p /\ p < Rounded(to * side)
<1> DEFINE u == Units
           a == from * side
           b == to * side
           low == Rounded(a)
           high == Rounded(b)
<1>1. u \in Int /\ u > 0
  BY SceneAssumption
<1>2. a \in Int /\ b \in Int /\ 0 <= a /\ a < b /\ b <= u * side
  <2>1. a \in Int /\ b \in Int
    OBVIOUS
  <2>2. 0 <= a
    OBVIOUS
  <2>3. to * side - from * side = (to - from) * side /\ (to - from) * side > 0
    OBVIOUS
  <2>4. u * side - to * side = (u - to) * side /\ (u - to) * side >= 0
    BY <1>1
  <2> QED BY <1>1, <2>1, <2>2, <2>3, <2>4
<1>3. /\ low \in Int /\ 2 * (u * low) <= 2 * a + u /\ 2 * a - u <= 2 * (u * low)
      /\ high \in Int /\ 2 * (u * high) <= 2 * b + u /\ 2 * b - u <= 2 * (u * high)
  <2>1. \A n \in Int : 2 * u * Rounded(n) = 2 * (u * Rounded(n))
    BY <1>1, RoundedIsNearest
  <2> QED BY <1>2, <2>1, RoundedIsNearest
<1>4. \A p \in Int : u * p \in Int /\ u * (p + 1) = u * p + u
  BY TimesUnits
<1>5. \A p \in Int, q \in Int : p <= q => u * p <= u * q
  BY TimesUnits
<1>6. \A p \in Int : /\ 2 * from * side = 2 * a /\ 2 * to * side = 2 * b
                     /\ (2 * p + 1) * Units = 2 * (u * p) + u
  BY <1>1
<1> HIDE DEF u, a, b, low, high
<1>7. low \in Int /\ high \in Int
  BY <1>3
<1>8. 0 <= low
  <2> SUFFICES ASSUME low + 1 <= 0 PROVE FALSE
    BY <1>7
  <2>1. u * (low + 1) = u * low + u /\ u * low \in Int
    BY <1>4, <1>7
  <2>2. u * (low + 1) <= u * 0 /\ u * 0 = 0
    BY <1>1, <1>5, <1>7
  <2> QED BY <1>1, <1>2, <1>3, <2>1, <2>2
<1>9. low <= high
  <2> SUFFICES ASSUME high + 1 <= low PROVE FALSE
    BY <1>7
  <2>1. u * (high + 1) = u * high + u /\ u * low \in Int /\ u * high \in Int
    BY <1>4, <1>7
  <2>2. u * (high + 1) <= u * low
    BY <1>5, <1>7
  <2> QED BY <1>1, <1>2, <1>3, <2>1, <2>2
<1>10. high <= side
  <2> SUFFICES ASSUME side + 1 <= high PROVE FALSE
    BY <1>7
  <2>1. u * (side + 1) = u * side + u /\ u * side \in Int /\ u * high \in Int
    BY <1>4, <1>7
  <2>2. u * (side + 1) <= u * high
    BY <1>5, <1>7
  <2> QED BY <1>1, <1>2, <1>3, <2>1, <2>2
<1>11. ASSUME NEW p \in Int, 2 * a < 2 * (u * p) + u, 2 * (u * p) + u < 2 * b
      PROVE  low <= p /\ p < high
  <2>1. CASE p + 1 <= low
    <3>1. u * (p + 1) = u * p + u /\ u * p \in Int /\ u * low \in Int
      BY <1>4, <1>7
    <3>2. u * (p + 1) <= u * low
      BY <1>5, <1>7, <2>1
    <3> QED BY <1>1, <1>2, <1>3, <1>11, <3>1, <3>2
  <2>2. CASE high <= p
    <3>1. u * high <= u * p /\ u * p \in Int /\ u * high \in Int
      BY <1>4, <1>5, <1>7, <2>2
    <3> QED BY <1>1, <1>2, <1>3, <1>11, <3>1
  <2> QED BY <1>7, <2>1, <2>2
<1>12. \A p \in Int : /\ 2 * from * side < (2 * p + 1) * Units
                      /\ (2 * p + 1) * Units < 2 * to * side
                      => low <= p /\ p < high
  BY <1>6, <1>11
<1> QED BY <1>8, <1>9, <1>10, <1>12 DEF low, high, a, b

Rectangles == [Axes -> [from : Int, length : Int]]

\* One axis of a rectangle that was accepted, on a source that is long enough.
LEMMA AxisIsHonoured ==
    ASSUME NEW r \in Rectangles, rectangle(r), NEW a \in Axes, NEW side \in Nat \ {0}
    PROVE  LET e == Pixels(r, a, side)
           IN  /\ e[2] - e[1] \in Int
               /\ side < MINIMUM <=> e[2] - e[1] < MINIMUM
               /\ side >= MINIMUM =>
                    /\ 0 <= e[1] /\ e[1] < e[2] /\ e[2] <= side /\ e[1] \in Int /\ e[2] \in Int
                    /\ \A p \in 0 .. side - 1 : Drawn(r, a, side, p) => p \in e[1] .. e[2] - 1
<1> DEFINE from == r[a].from
           to == r[a].from + r[a].length
           low == Rounded(from * side)
           high == Rounded(to * side)
<1>1. from \in Int /\ to \in Int /\ 0 <= from /\ from < to /\ to <= Units /\ 0 < side
  BY SceneAssumption DEF Rectangles, rectangle
<1>2. from * side \in Int /\ to * side \in Int
  BY <1>1
<1>3. low \in Int /\ high \in Int
  BY <1>2, RoundedIsNearest
<1>4. /\ 0 <= low /\ low <= high /\ high <= side
      /\ \A p \in Int : /\ 2 * from * side < (2 * p + 1) * Units
                        /\ (2 * p + 1) * Units < 2 * to * side
                        => low <= p /\ p < high
  <2>1. side \in Int
    OBVIOUS
  <2> HIDE DEF from, to
  <2> QED BY <1>1, <2>1, RangeIsInside
<1>5. Pixels(r, a, side) = _expand_to_minimum(low, high, side)
  BY DEF Pixels
<1>6. \A p \in Int : Drawn(r, a, side, p) => low <= p /\ p < high
  BY <1>4 DEF Drawn
<1> HIDE DEF from, to, low, high
<1> DEFINE e == _expand_to_minimum(low, high, side)
<1>7. CASE side >= MINIMUM
  <2>1. /\ e[1] \in Int /\ e[2] \in Int /\ 0 <= e[1] /\ e[1] <= low /\ high <= e[2]
        /\ e[2] <= side /\ e[2] - e[1] >= MINIMUM
    BY <1>3, <1>4, <1>7, ExpandGrows
  <2> HIDE DEF e
  <2>2. \A p \in 0 .. side - 1 : Drawn(r, a, side, p) => p \in e[1] .. e[2] - 1
    BY <1>3, <1>6, <2>1
  <2> QED BY <1>5, <1>7, <2>1, <2>2 DEF MINIMUM, e
<1>8. CASE side < MINIMUM
  <2>1. e[2] - e[1] < MINIMUM /\ e[2] - e[1] \in Int
    BY <1>3, <1>4, <1>8 DEF _expand_to_minimum, AtLeast, AtMost, MINIMUM
  <2> QED BY <1>5, <1>8, <2>1 DEF MINIMUM
<1> QED BY <1>7, <1>8 DEF MINIMUM

\* An accepted rectangle fits exactly the sources of eight pixels and more.
LEMMA RectangleIsHonoured ==
    ASSUME NEW r \in Rectangles, rectangle(r), NEW sides \in [Axes -> Nat \ {0}]
    PROVE  /\ Fits(r, sides) <=> \A a \in Axes : sides[a] >= MINIMUM
           /\ Fits(r, sides) =>
                /\ BoxHolds(_rectangle(r, sides), sides)
                /\ \A a \in Axes : _rectangle(r, sides)[a][2] - _rectangle(r, sides)[a][1]
                                      >= MINIMUM
                /\ CoversDrawn(_rectangle(r, sides), r, sides)
<1>1. Fits(r, sides) <=> \A a \in Axes :
          Pixels(r, a, sides[a])[2] - Pixels(r, a, sides[a])[1] >= MINIMUM
  BY DEF Fits
<1>2. \A a \in Axes : _rectangle(r, sides)[a] = Pixels(r, a, sides[a])
  BY DEF _rectangle
<1>3. ASSUME NEW a \in Axes
      PROVE  /\ sides[a] >= MINIMUM
                  <=> Pixels(r, a, sides[a])[2] - Pixels(r, a, sides[a])[1] >= MINIMUM
             /\ sides[a] >= MINIMUM =>
                  LET e == _rectangle(r, sides)[a]
                  IN  /\ 0 <= e[1] /\ e[1] < e[2] /\ e[2] <= sides[a]
                      /\ e[2] - e[1] >= MINIMUM
                      /\ \A p \in 0 .. sides[a] - 1 :
                            Drawn(r, a, sides[a], p) => p \in e[1] .. e[2] - 1
  <2>1. CASE sides[a] >= MINIMUM
    BY <1>2, <2>1, AxisIsHonoured DEF MINIMUM
  <2>2. CASE sides[a] < MINIMUM
    BY <2>2, AxisIsHonoured DEF MINIMUM
  <2> QED BY <2>1, <2>2 DEF MINIMUM
<1>4. Fits(r, sides) <=> \A a \in Axes : sides[a] >= MINIMUM
  BY <1>1, <1>3
<1>5. Fits(r, sides) => /\ BoxHolds(_rectangle(r, sides), sides)
                        /\ CoversDrawn(_rectangle(r, sides), r, sides)
  BY <1>3, <1>4 DEF BoxHolds, CoversDrawn
<1>6. Fits(r, sides) =>
        \A a \in Axes : _rectangle(r, sides)[a][2] - _rectangle(r, sides)[a][1] >= MINIMUM
  BY <1>3, <1>4
<1> QED BY <1>4, <1>5, <1>6

-----------------------------------------------------------------------------
\* What is known of a scene on its way: saved settings are accepted ones, and
\* its boxes are those of its rectangles.
Accepted == \A n \in RegionNames : rectangle(scene.settings[n])
SRInv ==
    /\ DOMAIN scene = {"pc", "settings", "sides", "boxes"}
    /\ scene.settings \in [RegionNames -> Rectangles]
    /\ scene.sides \in [Axes -> Nat \ {0}]
    /\ scene.pc \in {"saved", "regions", "tracked"} => Accepted
    /\ scene.pc \in {"regions", "tracked"} =>
         AllFit /\ scene.boxes = Boxes
    /\ scene.pc = "failed" => \E a \in Axes : scene.sides[a] < MINIMUM

\* One step: only the stage of the scene changes, and its boxes once.
LEMMA SceneStep ==
    ASSUME SRInv, SRNext
    PROVE  SRInv'
<1> DEFINE Same == /\ DOMAIN scene' = DOMAIN scene
                   /\ scene'.settings = scene.settings /\ scene'.sides = scene.sides
<1>1. CASE saveSceneSettings
  <2>1. Same /\ ((scene'.pc = "saved" /\ Accepted) \/ scene'.pc = "refused")
    BY <1>1 DEF saveSceneSettings, Accepted, SRInv
  <2> QED BY <2>1 DEF SRInv, Accepted
<1>2. CASE scene_blur_regions
  <2>1. scene.pc = "saved" /\ Accepted
    BY <1>2 DEF scene_blur_regions, SRInv
  <2>2. CASE AllFit /\ scene' = [scene EXCEPT !.pc = "regions", !.boxes = Boxes]
    <3>1. Same /\ scene'.pc = "regions" /\ scene'.boxes = Boxes
      BY <2>2 DEF SRInv
    <3>2. AllFit' /\ Boxes' = Boxes /\ Accepted'
      BY <2>1, <2>2, <3>1 DEF AllFit, Boxes, Accepted
    <3> QED BY <3>1, <3>2 DEF SRInv
  <2>3. CASE ~AllFit /\ scene' = [scene EXCEPT !.pc = "failed"]
    <3>1. Same /\ scene'.pc = "failed"
      BY <2>3 DEF SRInv
    <3>2. PICK n \in RegionNames : ~Fits(scene.settings[n], scene.sides)
      BY <2>3 DEF AllFit
    <3>3. \E a \in Axes : ~(scene.sides[a] >= MINIMUM)
      BY <2>1, <3>2, RectangleIsHonoured DEF SRInv, Accepted
    <3>4. \E a \in Axes : scene.sides[a] < MINIMUM
      BY <3>3 DEF SRInv, MINIMUM
    <3> QED BY <3>1, <3>4 DEF SRInv
  <2> QED BY <1>2, <2>2, <2>3 DEF scene_blur_regions
<1>3. CASE TrackRegions
  <2>1. scene.pc = "regions" /\ Accepted /\ AllFit /\ scene.boxes = Boxes
    BY <1>3 DEF TrackRegions, SRInv
  <2>2. \A n \in RegionNames : BoxHolds(scene.boxes[n], scene.sides)
    BY <2>1, RectangleIsHonoured DEF SRInv, Accepted, AllFit, Boxes
  <2>3. Same /\ scene'.pc = "tracked" /\ scene'.boxes = scene.boxes
    BY <1>3, <2>2 DEF TrackRegions, SRInv
  <2>4. AllFit' /\ Boxes' = Boxes /\ Accepted'
    BY <2>1, <2>3 DEF AllFit, Boxes, Accepted
  <2> QED BY <2>1, <2>3, <2>4 DEF SRInv
<1> QED BY <1>1, <1>2, <1>3 DEF SRNext

\* Settings the control plane accepted fail no job but that of a source of fewer
\* than eight pixels, and the regions are inside it, long enough and cover what
\* was drawn: for every rectangle, grid and source.
THEOREM DrawnIsHonoured == SRSpec => []SceneIsHonoured
<1>1. SRInit => SRInv
  <2> SUFFICES ASSUME NEW settings \in Settings, NEW sides \in [Axes -> Sides],
                      scene = [pc |-> "sent", settings |-> settings, sides |-> sides,
                               boxes |-> <<>>]
               PROVE  SRInv
    BY DEF SRInit
  <2>1. settings \in [RegionNames -> Rectangles]
    BY SceneAssumption DEF Rectangles
  <2>2. sides \in [Axes -> Nat \ {0}]
    BY SceneAssumption
  <2> QED BY <2>1, <2>2 DEF SRInv
<1>2. SRInv /\ [SRNext]_scene => SRInv'
  <2>1. CASE SRNext
    BY <2>1, SceneStep
  <2>2. CASE UNCHANGED scene
    BY <2>2 DEF SRInv, Accepted, AllFit, Boxes
  <2> QED BY <2>1, <2>2
<1>3. SRInv => SceneIsHonoured
  <2> SUFFICES ASSUME SRInv, scene.pc = "tracked", NEW n \in RegionNames
               PROVE  /\ BoxHolds(scene.boxes[n], scene.sides)
                      /\ \A a \in Axes : scene.boxes[n][a][2] - scene.boxes[n][a][1] >= MINIMUM
                      /\ CoversDrawn(scene.boxes[n], scene.settings[n], scene.sides)
    BY DEF SceneIsHonoured, SRInv
  <2>1. /\ scene.settings[n] \in Rectangles /\ rectangle(scene.settings[n])
        /\ Fits(scene.settings[n], scene.sides) /\ scene.sides \in [Axes -> Nat \ {0}]
        /\ scene.boxes[n] = _rectangle(scene.settings[n], scene.sides)
    BY DEF SRInv, Accepted, AllFit, Boxes
  <2> QED BY <2>1, RectangleIsHonoured
<1> QED BY <1>1, <1>2, <1>3, PTL DEF SRSpec

-----------------------------------------------------------------------------
(* The chain of documents.  The parsers alone make it coherent: the proof   *)
(* uses what a stage makes only for the types of the cues and of the parts. *)

\* A sequence of cues; ones that were planned are.
CueFields == {"index", "from", "to", "x", "y", "source", "target"}
IsCue(c) == c = [f \in CueFields |-> c[f]]
Listed(cues) ==
    \E n \in Nat : /\ cues = [i \in 1 .. n |-> cues[i]]
                   /\ \A i \in 1 .. n : IsCue(cues[i])

WithCues == 2 .. 6
Follow ==
    /\ Len(chain) \in 1 .. 8 /\ DOMAIN chain = 1 .. Len(chain)
    /\ chain[1] = Media
    /\ \A k \in DOMAIN chain : chain[k].type = Types[k]
    /\ \A k \in DOMAIN chain \ {1} : Accepts(chain[k], chain[k - 1])
Typed ==
    /\ \A k \in DOMAIN chain : IF k \in WithCues THEN Listed(chain[k].cues)
                                                 ELSE "cues" \notin DOMAIN chain[k]
    /\ \A k \in DOMAIN chain : k = 6 => chain[k].parts \in PlannedParts
IsSequence == chain \in Seq({chain[k] : k \in DOMAIN chain})
DOCInv == IsSequence /\ Follow /\ Typed

\* Where a document of a type is.
LEMMA TypesDiffer ==
    /\ Len(Types) = 8 /\ DOMAIN Types = 1 .. 8
    /\ Types[1] = "media" /\ Types[2] = "ocr" /\ Types[3] = "track" /\ Types[4] = "translation"
    /\ Types[5] = "tts" /\ Types[6] = "render_plan" /\ Types[7] = "publication"
    /\ Types[8] = "checkpoint"
    /\ \A j, k \in 1 .. 8 : Types[j] = Types[k] => j = k
<1>1. /\ Len(Types) = 8 /\ DOMAIN Types = 1 .. 8
      /\ Types[1] = "media" /\ Types[2] = "ocr" /\ Types[3] = "track" /\ Types[4] = "translation"
      /\ Types[5] = "tts" /\ Types[6] = "render_plan" /\ Types[7] = "publication"
      /\ Types[8] = "checkpoint"
  BY DEF Types
<1>2. \A k \in 1 .. 8 : k = 1 \/ k = 2 \/ k = 3 \/ k = 4 \/ k = 5 \/ k = 6 \/ k = 7 \/ k = 8
  OBVIOUS
<1>3. \A j, k \in 1 .. 8 : Types[j] = Types[k] => j = k
  BY <1>1, <1>2
<1> QED BY <1>1, <1>3

LEMMA UpstreamIsBefore ==
    ASSUME NEW k \in 2 .. 8 PROVE Upstream(Types[k]) = Types[k - 1]
<1> DEFINE place == CHOOSE j \in DOMAIN Types : Types[j] = Types[k]
<1>1. place = k
  BY TypesDiffer
<1> HIDE DEF place
<1> QED BY <1>1 DEF Upstream, place

\* What a parser accepts after the document at a place is one of the next type.
LEMMA NextType ==
    ASSUME NEW n \in 1 .. 7, NEW d, NEW u, u.type = Types[n], Accepts(d, u)
    PROVE  d.type = Types[n + 1]
<1>1. u.type = Upstream(d.type)
  BY DEF Accepts, parse_ocr_document_bytes, parse_track_document_bytes,
         parse_translation_document_bytes, parse_tts_document_bytes,
         parse_render_plan_document_bytes, parse_publication_document_bytes,
         parse_checkpoint_document_bytes, _verify_upstream
<1>2. d.type \in {"ocr", "track", "translation", "tts", "render_plan", "publication",
                  "checkpoint"}
  BY DEF Accepts
<1>3. PICK k \in 2 .. 8 : d.type = Types[k]
  BY <1>2, TypesDiffer
<1>4. Types[k - 1] = Types[n]
  BY <1>1, <1>3, UpstreamIsBefore
<1>5. k - 1 = n
  BY <1>4, TypesDiffer
<1> QED BY <1>3, <1>5

-----------------------------------------------------------------------------
(* Sequences of cues. *)

LEMMA PlannedCuesAreListed == ASSUME NEW cues \in MediaCues PROVE Listed(cues)
<1>1. cues \in Seq(SourceCues)
  BY DocumentsAssumption
<1>2. Len(cues) \in Nat /\ cues \in [1 .. Len(cues) -> SourceCues]
  BY <1>1, LenProperties
<1>3. \A c \in SourceCues : IsCue(c)
  BY DEF SourceCues, IsCue, CueFields
<1> QED BY <1>2, <1>3 DEF Listed

LEMMA ListedIsSeq ==
    ASSUME NEW cues, Listed(cues)
    PROVE  /\ cues \in Seq({cues[i] : i \in DOMAIN cues}) /\ Len(cues) \in Nat
           /\ DOMAIN cues = 1 .. Len(cues) /\ \A i \in DOMAIN cues : IsCue(cues[i])
<1> DEFINE S == {cues[i] : i \in DOMAIN cues}
<1>1. PICK n \in Nat : /\ cues = [i \in 1 .. n |-> cues[i]]
                       /\ \A i \in 1 .. n : IsCue(cues[i])
  BY DEF Listed
<1>2. cues \in [1 .. n -> S]
  BY <1>1
<1> HIDE DEF S
<1>3. cues \in Seq(S)
  BY <1>2, SeqDef
<1>4. Len(cues) \in Nat /\ DOMAIN cues = 1 .. Len(cues)
  BY <1>3, LenProperties
<1>5. \A i \in DOMAIN cues : IsCue(cues[i])
  BY <1>1
<1> QED BY <1>3, <1>4, <1>5 DEF S

LEMMA OtherCuesAreCues ==
    ASSUME NEW c, IsCue(c), NEW o \in OtherCue(c) PROVE IsCue(o)
<1>1. \A c2 : /\ IsCue([c EXCEPT !.source = c2]) /\ IsCue([c EXCEPT !.target = c2])
              /\ IsCue([c EXCEPT !.to = c2]) /\ IsCue([c EXCEPT !.x = c2])
              /\ IsCue([c EXCEPT !.index = c2])
  BY DEF IsCue, CueFields
<1> QED BY <1>1 DEF OtherCue

LEMMA OtherCuesAreListed ==
    ASSUME NEW cues, Listed(cues), NEW o \in OtherCues(cues) PROVE Listed(o)
<1> DEFINE S == {cues[i] : i \in DOMAIN cues}
<1>1. PICK n \in Nat : /\ cues = [i \in 1 .. n |-> cues[i]]
                       /\ \A i \in 1 .. n : IsCue(cues[i])
  BY DEF Listed
<1>2. CASE \E i \in DOMAIN cues : \E other \in UNION {OtherCue(cues[j]) : j \in DOMAIN cues} :
             o = [cues EXCEPT ![i] = other]
  <2>1. PICK i \in DOMAIN cues :
            \E other \in UNION {OtherCue(cues[j]) : j \in DOMAIN cues} :
               o = [cues EXCEPT ![i] = other]
    BY <1>2
  <2>a. PICK j \in DOMAIN cues : \E other \in OtherCue(cues[j]) : o = [cues EXCEPT ![i] = other]
    BY <2>1
  <2>b. PICK other \in OtherCue(cues[j]) : o = [cues EXCEPT ![i] = other]
    BY <2>a
  <2>2. IsCue(other)
    BY <1>1, OtherCuesAreCues
  <2>3. o = [k \in 1 .. n |-> IF k = i THEN other ELSE cues[k]]
    BY <1>1, <2>b
  <2> QED BY <1>1, <2>2, <2>3 DEF Listed
<1>3. CASE cues # <<>> /\ o = Tail(cues)
  <2>1. cues \in Seq(S) /\ Len(cues) \in Nat /\ DOMAIN cues = 1 .. Len(cues)
    BY ListedIsSeq
  <2>2. Len(cues) = n
    BY <1>1, <2>1
  <2> HIDE DEF S
  <2>3. o \in Seq(S) /\ Len(o) = n - 1 /\ \A i \in 1 .. n - 1 : o[i] = cues[i + 1]
    BY <1>3, <2>1, <2>2, HeadTailProperties
  <2>4. n - 1 \in Nat
    BY <2>3, LenProperties
  <2>5. o \in [1 .. n - 1 -> S]
    BY <2>3, LenProperties
  <2>6. ASSUME NEW i \in 1 .. n - 1 PROVE IsCue(o[i])
    <3>1. i + 1 \in 1 .. n /\ o[i] = cues[i + 1]
      BY <2>3
    <3> QED BY <3>1, <1>1
  <2> QED BY <2>4, <2>5, <2>6 DEF Listed
<1> QED BY <1>2, <1>3 DEF OtherCues

LEMMA SpokenIsListed == ASSUME NEW cues, Listed(cues) PROVE Listed(Spoken(cues))
<1>1. PICK n \in Nat : /\ cues = [i \in 1 .. n |-> cues[i]]
                       /\ \A i \in 1 .. n : IsCue(cues[i])
  BY DEF Listed
<1>2. Spoken(cues) = [i \in 1 .. n |-> [cues[i] EXCEPT !.target = "spoken"]]
  BY <1>1 DEF Spoken
<1>3. \A c : IsCue(c) => IsCue([c EXCEPT !.target = "spoken"])
  BY DEF IsCue, CueFields
<1>4. \A i \in 1 .. n : IsCue(Spoken(cues)[i])
  BY <1>1, <1>2, <1>3
<1>5. Spoken(cues) = [i \in 1 .. n |-> Spoken(cues)[i]]
  BY <1>2
<1> QED BY <1>4, <1>5 DEF Listed

-----------------------------------------------------------------------------
(* What is wrong with a document that is. *)

LEMMA WrongIsAlike ==
    ASSUME NEW d, NEW x \in {d} \union Wrong(d)
    PROVE  /\ DOMAIN x = DOMAIN d
           /\ "cues" \in DOMAIN d => x.cues = d.cues \/ x.cues \in OtherCues(d.cues)
           /\ "parts" \in DOMAIN d /\ d.type # "publication" => x.parts = d.parts
<1>1. CASE x = d
  BY <1>1
<1>2. CASE x \in {[d EXCEPT !.schema = 2], [d EXCEPT !.canonical = FALSE], [d EXCEPT !.job = "other"],
     [d EXCEPT !.media = "other"], [d EXCEPT !.frames = @ + 1], [d EXCEPT !.width = @ + 1],
     [d EXCEPT !.path = "other"], [d EXCEPT !.dependency.job = "other"]}
  BY <1>2
<1>3. CASE "cues" \in DOMAIN d /\ x \in {[d EXCEPT !.cues = c] : c \in OtherCues(d.cues)}
  BY <1>3
<1>4. CASE x \in {[d EXCEPT !.blur = {[Region EXCEPT !.to = d.frames + 1]}]}
  BY <1>4
<1>5. CASE x \in {[d EXCEPT !.audio = "other"]}
  BY <1>5
<1>6. CASE /\ d.type = "publication"
           /\ \/ x \in {[d EXCEPT !.parts = p] : p \in PlannedParts}
              \/ x \in {[d EXCEPT !.files = [k \in DOMAIN @ |-> 1]]}
  BY <1>6
<1> QED BY <1>1, <1>2, <1>3, <1>4, <1>5, <1>6 DEF Wrong

\* What the stages make has these fields.
LEMMA WithFields ==
    ASSUME NEW header, NEW fields
    PROVE  /\ DOMAIN With(header, fields) = DOMAIN header \union DOMAIN fields
           /\ \A f \in DOMAIN fields : With(header, fields)[f] = fields[f]
           /\ \A f \in DOMAIN header \ DOMAIN fields : With(header, fields)[f] = header[f]
BY DEF With

LEMMA MadeHasFields ==
    ASSUME NEW u, NEW n \in 1 .. 7, u.type = Types[n], NEW m \in Made(u)
    PROVE  /\ n = 1 => "cues" \in DOMAIN m /\ m.cues \in MediaCues
           /\ n = 3 => "cues" \in DOMAIN m /\ m.cues = Spoken(u.cues)
           /\ n = 5 => "parts" \in DOMAIN m /\ m.parts \in PlannedParts /\ m.type = "render_plan"
           /\ n \in {6, 7} => "cues" \notin DOMAIN m
<1> DEFINE h(type) == Header(u, type)
<1>1. \A type : /\ DOMAIN h(type) = {"type", "schema", "canonical", "job", "media", "frames", "width",
                                     "height", "path", "dependency"}
                /\ h(type).type = type
  BY DEF Header
<1>2. CASE n = 1
  <2>1. m \in detect(u)
    BY <1>2, TypesDiffer DEF Made
  <2>2. PICK cues \in MediaCues : m = With(h("ocr"), [cues |-> cues])
    BY <2>1 DEF detect
  <2> HIDE DEF h
  <2>3. "cues" \in DOMAIN m /\ m.cues = cues
    BY <2>2, <1>1 DEF With
  <2> QED BY <1>2, <2>3
<1>3. CASE n = 3
  <2>1. m \in translate(u)
    BY <1>3, TypesDiffer DEF Made
  <2>2. m = With(h("translation"), [cues |-> Spoken(u.cues)])
    BY <2>1 DEF translate
  <2> HIDE DEF h
  <2>3. "cues" \in DOMAIN m /\ m.cues = Spoken(u.cues)
    BY <2>2, <1>1 DEF With
  <2> QED BY <1>3, <2>3
<1>4. CASE n = 5
  <2>1. m \in render(u)
    BY <1>4, TypesDiffer DEF Made
  <2>2. PICK parts \in PlannedParts :
          m = With(h("render_plan"),
                   [cues |-> u.cues, blur |-> u.dependency.dependency.blur, audio |-> u.audio,
                    parts |-> parts, rendered |-> "video"])
    BY <2>1 DEF render
  <2> HIDE DEF h
  <2>3. "parts" \in DOMAIN m /\ m.parts = parts /\ m.type = "render_plan"
    BY <2>2, <1>1 DEF With
  <2> QED BY <1>4, <2>3
<1>5. CASE n = 6
  <2>1. m \in publication(u)
    BY <1>5, TypesDiffer DEF Made
  <2>2. m = With(h("publication"), [parts |-> u.parts, files |-> [k \in DOMAIN u.parts |-> k]])
    BY <2>1 DEF publication
  <2> HIDE DEF h
  <2>3. DOMAIN m = DOMAIN h("publication") \union {"parts", "files"}
    BY <2>2, WithFields
  <2> QED BY <1>1, <1>5, <2>3
<1>6. CASE n = 7
  <2>1. m \in checkpoint(u)
    BY <1>6, TypesDiffer DEF Made
  <2>2. m = With(h("checkpoint"), [manifest |-> "manifest", snapshot |-> "state"])
    BY <2>1 DEF checkpoint
  <2> HIDE DEF h
  <2>3. DOMAIN m = DOMAIN h("checkpoint") \union {"manifest", "snapshot"}
    BY <2>2, WithFields
  <2> QED BY <1>1, <1>6, <2>3
<1> QED BY <1>2, <1>3, <1>4, <1>5, <1>6

LEMMA DOCInitInv == DOCInit => DOCInv
<1> SUFFICES ASSUME DOCInit PROVE DOCInv
  OBVIOUS
<1>1. chain = <<Media>> /\ Len(chain) = 1 /\ DOMAIN chain = {1} /\ chain[1] = Media
  BY DEF DOCInit
<1>2. Media.type = "media" /\ "cues" \notin DOMAIN Media
  BY DEF Media
<1>3. IsSequence
  <2>1. {chain[k] : k \in DOMAIN chain} = {Media}
    BY <1>1
  <2> QED BY <1>1, <2>1 DEF IsSequence
<1>4. Follow
  BY <1>1, <1>2, TypesDiffer DEF Follow
<1>5. Typed
  BY <1>1, <1>2 DEF Typed, WithCues
<1> QED BY <1>3, <1>4, <1>5 DEF DOCInv

LEMMA DOCStepInv == ASSUME DOCInv, DOCNext PROVE DOCInv'
<1> DEFINE n == Len(chain)
           u == chain[n]
           S == {chain[k] : k \in DOMAIN chain}
<1>1. /\ n \in 1 .. 8 /\ DOMAIN chain = 1 .. n /\ chain \in Seq(S) /\ chain[1] = Media
      /\ \A k \in 1 .. n : chain[k].type = Types[k]
      /\ \A k \in 2 .. n : Accepts(chain[k], chain[k - 1])
  <2>1. /\ n \in 1 .. 8 /\ DOMAIN chain = 1 .. n /\ chain \in Seq(S) /\ chain[1] = Media
        /\ \A k \in DOMAIN chain : chain[k].type = Types[k]
        /\ \A k \in DOMAIN chain \ {1} : Accepts(chain[k], chain[k - 1])
    BY DEF DOCInv, Follow, IsSequence
  <2> HIDE DEF n, S
  <2>2. \A k \in 2 .. n : k \in DOMAIN chain \ {1}
    BY <2>1
  <2> QED BY <2>1, <2>2
<1>2. /\ u.type # "checkpoint"
      /\ \E made \in Made(u) : \E d \in {made} \union Wrong(made) :
           Accepts(d, u) /\ chain' = Append(chain, d)
  BY DEF DOCNext
<1>3. PICK made \in Made(u) : \E d \in {made} \union Wrong(made) :
           Accepts(d, u) /\ chain' = Append(chain, d)
  BY <1>2
<1>4. PICK d \in {made} \union Wrong(made) : Accepts(d, u) /\ chain' = Append(chain, d)
  BY <1>3
<1>5. u.type = Types[n] /\ n \in 1 .. 7
  <2>1. u.type = Types[n] /\ n \in 1 .. 8
    <3> HIDE DEF n
    <3>1. n \in 1 .. n
      BY <1>1
    <3> QED BY <3>1, <1>1
  <2> HIDE DEF n, u
  <2>2. n # 8
    BY <2>1, <1>2, TypesDiffer
  <2> QED BY <2>1, <2>2
<1> HIDE DEF n, u, S
<1>6. d.type = Types[n + 1]
  BY <1>4, <1>5, NextType
<1>7. /\ Len(chain') = n + 1 /\ DOMAIN chain' = 1 .. n + 1
      /\ \A k \in 1 .. n : chain'[k] = chain[k]
      /\ chain'[n + 1] = d
      /\ chain' \in Seq(S \union {d})
  <2>1. chain \in Seq(S \union {d})
    BY <1>1, SeqMonotonic
  <2>2. d \in S \union {d}
    OBVIOUS
  <2> DEFINE T == S \union {d}
  <2> HIDE DEF T
  <2>3. /\ Append(chain, d) \in Seq(T) /\ Len(Append(chain, d)) = Len(chain) + 1
        /\ \A k \in 1 .. Len(chain) : Append(chain, d)[k] = chain[k]
        /\ Append(chain, d)[Len(chain) + 1] = d
    BY <2>1, <2>2, AppendProperties DEF T
  <2>4. DOMAIN Append(chain, d) = 1 .. Len(chain) + 1
    BY <2>3, LenProperties
  <2> QED BY <2>3, <2>4, <1>4 DEF T, n
<1>8. IsSequence'
  <2>1. \A x \in S : \E k \in DOMAIN chain' : x = chain'[k]
    <3>1. \A k \in 1 .. n : k \in DOMAIN chain' /\ chain[k] = chain'[k]
      BY <1>5, <1>7
    <3>2. \A x \in S : \E k \in 1 .. n : x = chain[k]
      BY <1>1 DEF S
    <3> QED BY <3>1, <3>2
  <2>2. \E k \in DOMAIN chain' : d = chain'[k]
    BY <1>5, <1>7
  <2>3. S \union {d} \subseteq {chain'[k] : k \in DOMAIN chain'}
    BY <2>1, <2>2
  <2> QED BY <1>7, <2>3, SeqMonotonic DEF IsSequence
<1>9. Follow'
  <2>1. Len(chain') \in 1 .. 8 /\ DOMAIN chain' = 1 .. Len(chain') /\ chain'[1] = Media
    BY <1>1, <1>5, <1>7
  <2>2. ASSUME NEW k \in DOMAIN chain' PROVE chain'[k].type = Types[k]
    <3>1. CASE k = n + 1
      BY <3>1, <1>6, <1>7
    <3>2. CASE k \in 1 .. n
      BY <3>2, <1>1, <1>7
    <3> QED BY <3>1, <3>2, <1>5, <1>7
  <2>3. ASSUME NEW k \in DOMAIN chain' \ {1} PROVE Accepts(chain'[k], chain'[k - 1])
    <3>1. CASE k = n + 1
      <4>1. chain'[k] = d /\ chain'[k - 1] = u
        BY <3>1, <1>5, <1>7 DEF u
      <4> QED BY <4>1, <1>4
    <3>2. CASE k \in 2 .. n
      <4>1. chain'[k] = chain[k] /\ chain'[k - 1] = chain[k - 1]
        BY <3>2, <1>5, <1>7
      <4> QED BY <4>1, <3>2, <1>1
    <3> QED BY <3>1, <3>2, <1>5, <1>7
  <2> QED BY <2>1, <2>2, <2>3 DEF Follow
<1>10. IF n + 1 \in WithCues THEN Listed(d.cues) ELSE "cues" \notin DOMAIN d
  <2>1. \A c : Listed(c) => \A o \in OtherCues(c) : Listed(o)
    BY OtherCuesAreListed
  <2>2. n \in 2 .. 6 => Listed(u.cues)
    BY <1>1 DEF DOCInv, Typed, WithCues, u
  <2>3. /\ DOMAIN d = DOMAIN made
        /\ "cues" \in DOMAIN made => d.cues = made.cues \/ d.cues \in OtherCues(made.cues)
    BY WrongIsAlike
  <2>4. CASE n = 1
    <3>1. "cues" \in DOMAIN made /\ Listed(made.cues)
      BY <2>4, <1>5, MadeHasFields, PlannedCuesAreListed
    <3> QED BY <3>1, <2>1, <2>3, <2>4 DEF WithCues
  <2>5. CASE n = 3
    <3>1. "cues" \in DOMAIN made /\ Listed(made.cues)
      BY <2>2, <2>5, <1>5, MadeHasFields, SpokenIsListed
    <3> QED BY <3>1, <2>1, <2>3, <2>5 DEF WithCues
  <2>6. CASE n \in {2, 4, 5}
    <3>1. d.type \in {"track", "tts", "render_plan"}
      BY <2>6, <1>6, TypesDiffer
    <3>2. _verify_upstream(d, u)
      BY <3>1, <1>4 DEF Accepts, parse_ocr_document_bytes, parse_track_document_bytes,
         parse_translation_document_bytes, parse_tts_document_bytes,
         parse_render_plan_document_bytes, parse_publication_document_bytes,
         parse_checkpoint_document_bytes
    <3>3. d.cues = u.cues
      BY <3>1, <3>2 DEF _verify_upstream
    <3> QED BY <3>3, <2>2, <2>6 DEF WithCues
  <2>7. CASE n \in {6, 7}
    <3>1. "cues" \notin DOMAIN made
      BY <2>7, <1>5, MadeHasFields
    <3> QED BY <3>1, <2>3, <2>7 DEF WithCues
  <2> QED BY <1>5, <2>4, <2>5, <2>6, <2>7
<1>11. n + 1 = 6 => d.parts \in PlannedParts
  <2>1. n = 5 => "parts" \in DOMAIN made /\ made.parts \in PlannedParts /\ made.type # "publication"
    BY <1>5, MadeHasFields
  <2> QED BY <2>1, <1>5, WrongIsAlike
<1>12. Typed'
  <2>1. ASSUME NEW k \in DOMAIN chain'
        PROVE  /\ IF k \in WithCues THEN Listed(chain'[k].cues) ELSE "cues" \notin DOMAIN chain'[k]
               /\ k = 6 => chain'[k].parts \in PlannedParts
    <3>1. CASE k = n + 1
      BY <3>1, <1>7, <1>10, <1>11
    <3>2. CASE k \in 1 .. n
      <4>1. k \in DOMAIN chain /\ chain'[k] = chain[k]
        BY <3>2, <1>1, <1>7
      <4>2. /\ IF k \in WithCues THEN Listed(chain[k].cues) ELSE "cues" \notin DOMAIN chain[k]
            /\ k = 6 => chain[k].parts \in PlannedParts
        BY <4>1 DEF DOCInv, Typed
      <4> QED BY <4>1, <4>2
    <3> QED BY <3>1, <3>2, <1>5, <1>7
  <2> QED BY <2>1 DEF Typed
<1> QED BY <1>8, <1>9, <1>12 DEF DOCInv

-----------------------------------------------------------------------------
(* Rows of intervals. *)

\* A set of numbers that is not empty has a least one.
LEMMA LeastOne ==
    ASSUME NEW T \in SUBSET Nat, T # {} PROVE \E n \in T : \A m \in T : n <= m
<1> DEFINE R == OpToRel(<, Nat)
<1>1. IsWellFoundedOn(R, Nat)
  BY NatLessThanWellFounded
<1>2. \A m, n \in Nat : <<m, n>> \in R <=> m < n
  BY DEF OpToRel
<1> HIDE DEF R
<1>3. PICK x \in T : \A y \in T : ~ (<<y, x>> \in R)
  BY <1>1, WFMin
<1>4. ASSUME NEW y \in T PROVE x <= y
  <2>1. y \in Nat /\ x \in Nat
    OBVIOUS
  <2>2. <<y, x>> \in R <=> y < x
    BY <1>2, <2>1, Zenon
  <2> QED BY <1>3, <2>1, <2>2
<1> QED BY <1>4

\* When each interval starts behind the one before, it starts behind all before.
LEMMA EachBehindAllBefore ==
    ASSUME NEW n \in Nat, NEW lo, NEW hi,
           \A k \in 1 .. n : lo[k] \in Int /\ hi[k] \in Int /\ lo[k] <= hi[k],
           \A k \in 2 .. n : hi[k - 1] < lo[k]
    PROVE  \A j, k \in 1 .. n : j < k => hi[j] < lo[k]
<1> DEFINE Bad == {k \in 1 .. n : \E j \in 1 .. n : j < k /\ ~ (hi[j] < lo[k])}
<1>1. SUFFICES ASSUME Bad # {} PROVE FALSE
  OBVIOUS
<1>2. PICK k \in Bad : \A m \in Bad : k <= m
  <2>1. Bad \in SUBSET Nat
    OBVIOUS
  <2> HIDE DEF Bad
  <2> QED BY <1>1, <2>1, LeastOne
<1>3. PICK j \in 1 .. n : j < k /\ ~ (hi[j] < lo[k])
  OBVIOUS
<1>4. k \in 2 .. n /\ hi[k - 1] < lo[k]
  BY <1>3
<1>5. j # k - 1
  BY <1>3, <1>4
<1>6. k - 1 \in 1 .. n /\ j < k - 1 /\ k - 1 \notin Bad
  <2>1. k - 1 \in 1 .. n /\ j < k - 1
    BY <1>3, <1>4, <1>5
  <2>2. ~ (k <= k - 1)
    BY <1>4
  <2> HIDE DEF Bad
  <2> QED BY <1>2, <2>1, <2>2
<1>7. hi[j] < lo[k - 1]
  BY <1>6
<1>8. /\ hi[j] \in Int /\ lo[k - 1] \in Int /\ hi[k - 1] \in Int /\ lo[k] \in Int
      /\ lo[k - 1] <= hi[k - 1]
  BY <1>4, <1>6
<1> QED BY <1>3, <1>4, <1>7, <1>8

\* Parts that passed _parts: every frame is in one, every chunk in one.
LEMMA PartsTile ==
    ASSUME NEW d, _parts(d), d.frames = OFFLINE_FRAME_COUNT, d.parts \in PlannedParts
    PROVE  /\ \A f \in 0 .. OFFLINE_FRAME_COUNT - 1 :
                Cardinality({k \in DOMAIN d.parts : d.parts[k].from <= f /\ f < d.parts[k].to}) = 1
           /\ \A j, k \in DOMAIN d.parts :
                \A a \in DOMAIN d.parts[j].chunks, b \in DOMAIN d.parts[k].chunks :
                  d.parts[j].chunks[a] = d.parts[k].chunks[b] => <<j, a>> = <<k, b>>
<1> DEFINE p == d.parts
           n == Len(p)
           N == OFFLINE_FRAME_COUNT
           PartSet == [index : Int, count : Int, from : Int, to : Int, chunks : Seq(Int)]
<1>1. /\ p \in Seq(PartSet) /\ n \in Nat /\ DOMAIN p = 1 .. n /\ N \in Nat
      /\ \A k \in 1 .. n : p[k] \in PartSet
  <2>1. p \in Seq(PartSet) /\ N \in Nat
    BY DocumentsAssumption
  <2> HIDE DEF PartSet, p
  <2> QED BY <2>1, LenProperties
<1>2. \A k \in 1 .. n : p[k].from \in Int /\ p[k].to \in Int /\ p[k].chunks \in Seq(Int)
  BY <1>1
<1> HIDE DEF PartSet
<1>3. /\ n > 0 /\ p[1].from = 0 /\ p[n].to = N
      /\ \A k \in 1 .. n : Part(p[k])
      /\ \A k \in 2 .. n : /\ p[k].from = p[k - 1].to
                           /\ p[k - 1].chunks[Len(p[k - 1].chunks)] < p[k].chunks[1]
  BY DEF _parts
<1>4. ASSUME NEW k \in 1 .. n
      PROVE  /\ p[k].from < p[k].to
             /\ Len(p[k].chunks) \in Nat \ {0} /\ DOMAIN p[k].chunks = 1 .. Len(p[k].chunks)
             /\ \A i \in 1 .. Len(p[k].chunks) : p[k].chunks[i] \in Int
             /\ \A a, b \in 1 .. Len(p[k].chunks) : a < b => p[k].chunks[a] < p[k].chunks[b]
  <2> DEFINE c == p[k].chunks
  <2>1. c \in Seq(Int) /\ c # <<>> /\ \A i \in 2 .. Len(c) : c[i - 1] < c[i]
    BY <1>2, <1>3 DEF Part
  <2>2. p[k].from < p[k].to
    BY <1>2, <1>3 DEF Part, FrameInterval
  <2> HIDE DEF c
  <2>3. /\ Len(c) \in Nat /\ DOMAIN c = 1 .. Len(c) /\ c \in [1 .. Len(c) -> Int]
        /\ Len(c) # 0
    BY <2>1, LenProperties, EmptySeq
  <2>4. \A i \in 1 .. Len(c) : c[i] \in Int
    BY <2>3
  <2>5. \A a, b \in 1 .. Len(c) : a < b => c[a] < c[b]
    <3>1. \A i \in 1 .. Len(c) : c[i] \in Int /\ c[i] \in Int /\ c[i] <= c[i]
      BY <2>4
    <3> QED BY <3>1, <2>1, <2>3, EachBehindAllBefore
  <2> QED BY <2>2, <2>3, <2>4, <2>5 DEF c
<1> HIDE DEF p, n, N
<1>5. \A j, k \in 1 .. n : j < k => p[j].to <= p[k].from
  <2> DEFINE lo == [k \in 1 .. n |-> p[k].from]
             hi == [k \in 1 .. n |-> p[k].to - 1]
  <2>1. \A k \in 1 .. n : lo[k] \in Int /\ hi[k] \in Int /\ lo[k] <= hi[k]
    BY <1>2, <1>4
  <2>2. ASSUME NEW k \in 2 .. n PROVE hi[k - 1] < lo[k]
    <3>1. k - 1 \in 1 .. n /\ k \in 1 .. n /\ p[k].from = p[k - 1].to
      BY <1>1, <1>3
    <3>2. hi[k - 1] = p[k - 1].to - 1 /\ lo[k] = p[k - 1].to /\ p[k - 1].to \in Int
      BY <1>2, <3>1
    <3> QED BY <3>2
  <2>3. ASSUME NEW j \in 1 .. n, NEW k \in 1 .. n, j < k PROVE p[j].to <= p[k].from
    <3>1. hi[j] = p[j].to - 1 /\ lo[k] = p[k].from /\ p[j].to \in Int /\ p[k].from \in Int
      BY <1>2
    <3> HIDE DEF lo, hi
    <3>2. hi[j] < lo[k]
      BY <1>1, <2>1, <2>2, <2>3, EachBehindAllBefore
    <3> QED BY <3>1, <3>2
  <2> QED BY <2>3
<1>6. ASSUME NEW f \in 0 .. N - 1
      PROVE  Cardinality({k \in DOMAIN p : p[k].from <= f /\ f < p[k].to}) = 1
  <2> DEFINE T == {k \in 1 .. n : f < p[k].to}
  <2>1. T \in SUBSET Nat /\ n \in T
    <3>1. n \in 1 .. n /\ p[n].to = N /\ f < N
      BY <1>1, <1>3
    <3> QED BY <3>1, <1>1
  <2>2. PICK k \in T : \A m \in T : k <= m
    <3> HIDE DEF T
    <3> QED BY <2>1, LeastOne
  <2>3. k \in 1 .. n /\ f < p[k].to /\ f \in Int
    OBVIOUS
  <2>4. p[k].from <= f
    <3>1. CASE k = 1
      BY <3>1, <1>3
    <3>2. CASE k # 1
      <4>1. k - 1 \in 1 .. n /\ k \in 2 .. n /\ ~ (k <= k - 1)
        BY <3>2, <2>3, <1>1
      <4>2. k - 1 \notin T
        <5> HIDE DEF T
        <5> QED BY <4>1, <2>2
      <4>3. ~ (f < p[k - 1].to) /\ p[k].from = p[k - 1].to /\ p[k - 1].to \in Int
        BY <4>1, <4>2, <1>2, <1>3
      <4> QED BY <4>3, <2>3
    <3> QED BY <3>1, <3>2
  <2>5. ASSUME NEW j \in 1 .. n, p[j].from <= f, f < p[j].to PROVE j = k
    <3>1. /\ p[j].from \in Int /\ p[j].to \in Int /\ p[k].from \in Int /\ p[k].to \in Int
          /\ j \in Int /\ k \in Int
      BY <1>2, <2>3
    <3>2. ~ (j < k)
      BY <3>1, <1>5, <2>3, <2>4, <2>5
    <3>3. ~ (k < j)
      BY <3>1, <1>5, <2>3, <2>4, <2>5
    <3> QED BY <3>1, <3>2, <3>3
  <2>6. {j \in DOMAIN p : p[j].from <= f /\ f < p[j].to} = {k}
    BY <1>1, <2>3, <2>4, <2>5
  <2> QED BY <2>6, FS_Singleton
<1>7. ASSUME NEW j \in 1 .. n, NEW k \in 1 .. n, j < k,
             NEW a \in DOMAIN p[j].chunks, NEW b \in DOMAIN p[k].chunks
      PROVE  p[j].chunks[a] < p[k].chunks[b]
  <2> DEFINE size(i) == Len(p[i].chunks)
             lo == [i \in 1 .. n |-> p[i].chunks[1]]
             hi == [i \in 1 .. n |-> p[i].chunks[size(i)]]
  <2>1. \A i \in 1 .. n : size(i) \in Nat \ {0} /\ 1 \in 1 .. size(i) /\ size(i) \in 1 .. size(i)
    BY <1>4
  <2>2. ASSUME NEW i \in 1 .. n, NEW x \in 1 .. size(i)
        PROVE  lo[i] <= p[i].chunks[x] /\ p[i].chunks[x] <= hi[i]
    <3>1. /\ lo[i] = p[i].chunks[1] /\ hi[i] = p[i].chunks[size(i)]
          /\ lo[i] \in Int /\ hi[i] \in Int /\ p[i].chunks[x] \in Int
      BY <1>4, <2>1
    <3>2. 1 < x => p[i].chunks[1] < p[i].chunks[x]
      BY <1>4, <2>1
    <3>3. x < size(i) => p[i].chunks[x] < p[i].chunks[size(i)]
      BY <1>4, <2>1
    <3>4. (1 < x \/ x = 1) /\ (x < size(i) \/ x = size(i))
      BY <2>1
    <3> QED BY <3>1, <3>2, <3>3, <3>4
  <2>3. \A i \in 1 .. n : lo[i] \in Int /\ hi[i] \in Int /\ lo[i] <= hi[i]
    <3>1. \A i \in 1 .. n : lo[i] \in Int /\ hi[i] \in Int
      BY <1>4, <2>1
    <3>2. \A i \in 1 .. n : lo[i] = p[i].chunks[1]
      OBVIOUS
    <3> HIDE DEF lo, hi
    <3> QED BY <3>1, <3>2, <2>1, <2>2
  <2>4. ASSUME NEW i \in 2 .. n PROVE hi[i - 1] < lo[i]
    <3>1. i - 1 \in 1 .. n /\ i \in 1 .. n
      BY <1>1
    <3> QED BY <3>1, <1>3
  <2>5. a \in 1 .. size(j) /\ b \in 1 .. size(k)
    BY <1>4
  <2>6. p[j].chunks[a] \in Int /\ p[k].chunks[b] \in Int
    BY <1>4, <2>5
  <2> HIDE DEF lo, hi, size
  <2>7. hi[j] < lo[k]
    BY <1>1, <1>7, <2>3, <2>4, EachBehindAllBefore
  <2>8. p[j].chunks[a] <= hi[j] /\ lo[k] <= p[k].chunks[b]
    BY <2>2, <2>5
  <2> QED BY <2>3, <2>6, <2>7, <2>8
<1>8. ASSUME NEW j \in 1 .. n, NEW k \in 1 .. n,
             NEW a \in DOMAIN p[j].chunks, NEW b \in DOMAIN p[k].chunks,
             p[j].chunks[a] = p[k].chunks[b]
      PROVE  j = k /\ a = b
  <2>1. p[j].chunks[a] \in Int /\ j \in Int /\ k \in Int /\ a \in Int /\ b \in Int
    BY <1>4
  <2>2. ~ (j < k) /\ ~ (k < j)
    BY <1>7, <1>8, <2>1
  <2>3. j = k
    BY <2>1, <2>2
  <2>4. ~ (a < b) /\ ~ (b < a)
    BY <1>4, <1>8, <2>1, <2>3
  <2> QED BY <2>1, <2>3, <2>4
<1> QED BY <1>1, <1>6, <1>8 DEF p, N

-----------------------------------------------------------------------------
(* What the parsers' acceptance says of a chain. *)

LEMMA WhatIsAccepted ==
    ASSUME Follow, NEW k \in 2 .. Len(chain)
    PROVE  LET d == chain[k] IN
           /\ k \in 2 .. 8 /\ k \in DOMAIN chain /\ k - 1 \in DOMAIN chain
           /\ _verify_upstream(d, chain[k - 1]) /\ _base(d)
           /\ k \in {2, 3} => _cues(d, FALSE)
           /\ k \in {4, 5, 6} => _cues(d, TRUE)
           /\ k \in {6, 7} => _parts(d)
<1> DEFINE d == chain[k]
           u == chain[k - 1]
<1>1. k \in 2 .. 8 /\ k \in DOMAIN chain /\ k - 1 \in DOMAIN chain /\ k # 1
  BY DEF Follow
<1>2. Accepts(d, u) /\ d.type = Types[k]
  BY <1>1 DEF Follow
<1> HIDE DEF d, u
<1>3. /\ k = 2 => parse_ocr_document_bytes(d, u)
      /\ k = 3 => parse_track_document_bytes(d, u)
      /\ k = 4 => parse_translation_document_bytes(d, u)
      /\ k = 5 => parse_tts_document_bytes(d, u)
      /\ k = 6 => parse_render_plan_document_bytes(d, u)
      /\ k = 7 => parse_publication_document_bytes(d, u)
      /\ k = 8 => parse_checkpoint_document_bytes(d, u)
  BY <1>2, TypesDiffer DEF Accepts
<1>4. k = 2 \/ k = 3 \/ k = 4 \/ k = 5 \/ k = 6 \/ k = 7 \/ k = 8
  BY <1>1
<1>5. /\ _verify_upstream(d, u) /\ _base(d)
      /\ k \in {2, 3} => _cues(d, FALSE)
      /\ k \in {4, 5, 6} => _cues(d, TRUE)
      /\ k \in {6, 7} => _parts(d)
  BY <1>3, <1>4 DEF parse_ocr_document_bytes, parse_track_document_bytes,
     parse_translation_document_bytes, parse_tts_document_bytes,
     parse_render_plan_document_bytes, parse_publication_document_bytes,
     parse_checkpoint_document_bytes, OcrDocument, TrackDocument, TranslationDocument,
     TtsDocument, RenderPlanDocument, RenderRequest, PublicationDocument, CheckpointDocument
<1> QED BY <1>1, <1>5 DEF d, u

\* All are of one job and one medium.
SameMedia(d) == /\ d.job = "job" /\ d.media = "source"
                /\ d.frames = OFFLINE_FRAME_COUNT /\ d.width = Width
LEMMA AllOfOneMedium ==
    ASSUME Follow PROVE \A k \in DOMAIN chain : SameMedia(chain[k])
<1> DEFINE n == Len(chain)
           Bad == {k \in 1 .. n : ~ SameMedia(chain[k])}
<1>1. n \in 1 .. 8 /\ DOMAIN chain = 1 .. n /\ chain[1] = Media
  BY DEF Follow
<1>2. SUFFICES ASSUME Bad # {} PROVE FALSE
  BY <1>1
<1>3. PICK k \in Bad : \A m \in Bad : k <= m
  <2>1. Bad \in SUBSET Nat
    BY <1>1
  <2> HIDE DEF Bad
  <2> QED BY <1>2, <2>1, LeastOne
<1>4. SameMedia(chain[1])
  BY <1>1 DEF Media, SameMedia
<1>5. k \in 2 .. n
  BY <1>1, <1>4
<1>6. k - 1 \in 1 .. n /\ ~ (k <= k - 1)
  BY <1>1, <1>5
<1>7. k - 1 \notin Bad
  <2> HIDE DEF Bad
  <2> QED BY <1>3, <1>6
<1>8. SameMedia(chain[k - 1])
  BY <1>6, <1>7
<1>9. _verify_upstream(chain[k], chain[k - 1])
  BY <1>5, WhatIsAccepted
<1>10. SameMedia(chain[k])
  BY <1>8, <1>9 DEF _verify_upstream, SameMedia
<1> QED BY <1>10

\* Up to the render plan the cues are the ones OCR found, with their text.
LEMMA CuesAreFollowed ==
    ASSUME Follow, Typed, NEW k \in 3 .. 6, k \in DOMAIN chain
    PROVE  /\ DOMAIN chain[k].cues = DOMAIN chain[2].cues
           /\ \A i \in DOMAIN chain[k].cues :
                _source_cue_identity(chain[k].cues[i]) = chain[2].cues[i]
           /\ k = 6 => chain[k].cues = chain[4].cues
<1> DEFINE n == Len(chain)
           c(j) == chain[j].cues
<1>1. n \in 1 .. 8 /\ DOMAIN chain = 1 .. n /\ k <= n
  BY DEF Follow
<1>2. \A j \in 2 .. k : j \in 2 .. n /\ j \in DOMAIN chain
  BY <1>1
<1>3. \A j \in 2 .. k : /\ Len(c(j)) \in Nat /\ DOMAIN c(j) = 1 .. Len(c(j))
                        /\ \A i \in DOMAIN c(j) : IsCue(c(j)[i])
  <2> SUFFICES ASSUME NEW j \in 2 .. k
               PROVE  /\ Len(c(j)) \in Nat /\ DOMAIN c(j) = 1 .. Len(c(j))
                      /\ \A i \in DOMAIN c(j) : IsCue(c(j)[i])
    OBVIOUS
  <2>1. j \in DOMAIN chain /\ j \in WithCues
    BY <1>1, <1>2 DEF WithCues
  <2>2. Listed(c(j))
    BY <2>1 DEF Typed
  <2> HIDE DEF c
  <2> QED BY <2>2, ListedIsSeq
<1>4. \A j \in 2 .. k \ {2} : _verify_upstream(chain[j], chain[j - 1]) /\ chain[j].type = Types[j]
  BY <1>2, WhatIsAccepted DEF Follow
<1>5. _cues(chain[2], FALSE)
  <2>1. 2 \in 2 .. n
    BY <1>1
  <2> QED BY <2>1, WhatIsAccepted
<1>6. \A i \in DOMAIN c(2) : _source_cue_identity(c(2)[i]) = c(2)[i]
  <2> SUFFICES ASSUME NEW i \in DOMAIN c(2) PROVE _source_cue_identity(c(2)[i]) = c(2)[i]
    OBVIOUS
  <2>1. c(2)[i].target = ""
    BY <1>5 DEF _cues
  <2>2. 2 \in 2 .. k
    BY <1>1
  <2>3. IsCue(c(2)[i])
    BY <1>3, <2>2
  <2> HIDE DEF c
  <2> QED BY <2>1, <2>3 DEF _source_cue_identity, IsCue, CueFields
<1>7. c(3) = c(2)
  <2>1. 3 \in 2 .. k \ {2}
    BY <1>1
  <2>2. _verify_upstream(chain[3], chain[2]) /\ chain[3].type = "track"
    BY <1>4, <2>1, TypesDiffer
  <2> QED BY <2>2 DEF _verify_upstream
<1>8. CASE k = 3
  BY <1>6, <1>7, <1>8
<1>9. ASSUME k >= 4
      PROVE  DOMAIN c(4) = DOMAIN c(2) /\ \A i \in DOMAIN c(4) : _source_cue_identity(c(4)[i]) = c(2)[i]
  <2>1. 4 \in 2 .. k \ {2} /\ 3 \in 2 .. k
    BY <1>1, <1>9
  <2>2. _verify_upstream(chain[4], chain[3]) /\ chain[4].type = "translation"
    BY <1>4, <2>1, TypesDiffer
  <2>3. /\ Len(c(4)) = Len(c(3))
        /\ \A i \in DOMAIN c(3) : _source_cue_identity(c(4)[i]) = _source_cue_identity(c(3)[i])
    BY <2>2 DEF _verify_upstream
  <2>4. DOMAIN c(4) = DOMAIN c(3)
    <3> HIDE DEF c
    <3> QED BY <2>1, <2>3, <1>3
  <2> HIDE DEF c
  <2> QED BY <2>3, <2>4, <1>6, <1>7
<1>10. ASSUME k >= 5 PROVE c(5) = c(4)
  <2>1. 5 \in 2 .. k \ {2}
    BY <1>1, <1>10
  <2>2. _verify_upstream(chain[5], chain[4]) /\ chain[5].type = "tts"
    BY <1>4, <2>1, TypesDiffer
  <2> QED BY <2>2 DEF _verify_upstream
<1>11. ASSUME k = 6 PROVE c(6) = c(5)
  <2>1. 6 \in 2 .. k \ {2}
    BY <1>1, <1>11
  <2>2. _verify_upstream(chain[6], chain[5]) /\ chain[6].type = "render_plan"
    BY <1>4, <2>1, TypesDiffer
  <2> QED BY <2>2 DEF _verify_upstream
<1>12. k = 3 \/ k = 4 \/ k = 5 \/ k = 6
  OBVIOUS
<1> QED BY <1>8, <1>9, <1>10, <1>11, <1>12

\* The document of a type is the one at its place.
LEMMA PlaceOfType ==
    ASSUME Follow, NEW k \in 1 .. 8
    PROVE  /\ (\E j \in DOMAIN chain : chain[j].type = Types[k]) <=> k \in DOMAIN chain
           /\ k \in DOMAIN chain => (CHOOSE j \in DOMAIN chain : chain[j].type = Types[k]) = k
<1>1. DOMAIN chain \subseteq 1 .. 8 /\ \A j \in DOMAIN chain : chain[j].type = Types[j]
  BY DEF Follow
<1>2. \A j \in DOMAIN chain : chain[j].type = Types[k] <=> j = k
  BY <1>1, TypesDiffer
<1> QED BY <1>2

LEMMA FollowedIsCoherent == DOCInv => ChainIsCoherent
<1> SUFFICES ASSUME DOCInv PROVE ChainIsCoherent
  OBVIOUS
<1> USE DEF DOCInv
<1> DEFINE n == Len(chain)
           Doc(type) == chain[CHOOSE k \in DOMAIN chain : chain[k].type = type]
           Has(type) == \E k \in DOMAIN chain : chain[k].type = type
           CuesOf(type) == Doc(type).cues
<1>1. n \in 1 .. 8 /\ DOMAIN chain = 1 .. n
  BY DEF Follow
<1>2. ASSUME NEW k \in 1 .. 8
      PROVE  (Has(Types[k]) <=> k \in DOMAIN chain) /\ (Has(Types[k]) => Doc(Types[k]) = chain[k])
  BY PlaceOfType
<1> HIDE DEF Doc, Has
<1>3. \A k \in DOMAIN chain : chain[k].job = "job" /\ chain[k].media = "source"
                              /\ chain[k].frames = OFFLINE_FRAME_COUNT
  BY AllOfOneMedium DEF SameMedia
<1>4. ASSUME NEW type \in {"track", "translation", "tts", "render_plan"}, Has(type)
      PROVE  /\ DOMAIN CuesOf(type) = DOMAIN CuesOf("ocr")
             /\ \A i \in DOMAIN CuesOf(type) :
                  _source_cue_identity(CuesOf(type)[i]) = CuesOf("ocr")[i]
             /\ type = "render_plan" => CuesOf(type) = CuesOf("translation")
  <2>1. PICK k \in 3 .. 6 : type = Types[k]
    BY TypesDiffer
  <2>2. k \in 1 .. 8 /\ 2 \in 1 .. 8 /\ 4 \in 1 .. 8 /\ 6 \in 1 .. 8
    OBVIOUS
  <2>3. k \in DOMAIN chain /\ Doc(type) = chain[k]
    BY <1>2, <1>4, <2>1, <2>2
  <2>4. 2 \in DOMAIN chain /\ (k = 6 => 4 \in DOMAIN chain)
    BY <1>1, <2>3
  <2>5. Doc("ocr") = chain[2] /\ (k = 6 => Doc("translation") = chain[4])
    BY <1>2, <2>2, <2>4, TypesDiffer
  <2>6. type = "render_plan" => k = 6
    BY <2>1, <2>2, TypesDiffer
  <2> QED BY <2>3, <2>5, <2>6, CuesAreFollowed
<1>5. ASSUME NEW k \in DOMAIN chain, "cues" \in DOMAIN chain[k], NEW i \in DOMAIN chain[k].cues
      PROVE  chain[k].cues[i].to <= OFFLINE_FRAME_COUNT /\ chain[k].cues[i].x <= Width
  <2>1. k \in 2 .. 6 /\ k \in 2 .. n
    BY <1>1, <1>5 DEF Typed, WithCues
  <2>2. _cues(chain[k], FALSE) \/ _cues(chain[k], TRUE)
    <3>1. /\ k \in {2, 3} => _cues(chain[k], FALSE)
          /\ k \in {4, 5, 6} => _cues(chain[k], TRUE)
      BY <2>1, WhatIsAccepted, Zenon
    <3>2. k \in {2, 3} \/ k \in {4, 5, 6}
      BY <2>1
    <3> QED BY <3>1, <3>2, Zenon
  <2>3. Inside(chain[k], chain[k].cues[i])
    BY <2>2 DEF _cues
  <2>4. SameMedia(chain[k])
    BY AllOfOneMedium
  <2> QED BY <2>3, <2>4 DEF Inside, BoundingBox, SameMedia
<1>6. ASSUME Has("render_plan") PROVE Doc("render_plan").audio = Doc("tts").audio
  <2>1. 6 \in DOMAIN chain /\ Doc("render_plan") = chain[6]
    BY <1>2, <1>6, TypesDiffer
  <2>2. 5 \in DOMAIN chain /\ 6 \in 2 .. n
    BY <1>1, <2>1
  <2>3. Doc("tts") = chain[5]
    BY <1>2, <2>2, TypesDiffer
  <2>4. _verify_upstream(chain[6], chain[6 - 1]) /\ chain[6].type = "render_plan"
    BY <2>1, <2>2, WhatIsAccepted, TypesDiffer DEF Follow
  <2> QED BY <2>1, <2>3, <2>4 DEF _verify_upstream
<1>7. ASSUME NEW type \in {"render_plan", "publication"}, Has(type)
      PROVE  LET parts == Doc(type).parts IN
             /\ parts = Doc("render_plan").parts
             /\ \A f \in 0 .. OFFLINE_FRAME_COUNT - 1 :
                  Cardinality({k \in DOMAIN parts : parts[k].from <= f /\ f < parts[k].to}) = 1
             /\ \A j, k \in DOMAIN parts :
                  \A a \in DOMAIN parts[j].chunks, b \in DOMAIN parts[k].chunks :
                    parts[j].chunks[a] = parts[k].chunks[b] => <<j, a>> = <<k, b>>
  <2>1. PICK m \in 6 .. 7 : type = Types[m]
    BY TypesDiffer
  <2>2. m \in 1 .. 8 /\ 6 \in 1 .. 8
    OBVIOUS
  <2>3. m \in DOMAIN chain /\ Doc(type) = chain[m]
    BY <1>2, <1>7, <2>1, <2>2
  <2>4. 6 \in DOMAIN chain /\ 6 \in 2 .. n /\ m \in 2 .. n
    BY <1>1, <2>3
  <2>5. Doc("render_plan") = chain[6]
    BY <1>2, <2>2, <2>4, TypesDiffer
  <2>6. chain[6].parts \in PlannedParts /\ _parts(chain[6]) /\ SameMedia(chain[6])
    BY <2>4, WhatIsAccepted, AllOfOneMedium DEF Typed
  <2>7. chain[m].parts = chain[6].parts
    <3>1. CASE m = 6
      BY <3>1
    <3>2. CASE m = 7
      <4>1. _verify_upstream(chain[7], chain[7 - 1]) /\ chain[7].type = "publication"
        BY <2>3, <2>4, <3>2, WhatIsAccepted, TypesDiffer DEF Follow
      <4> QED BY <4>1, <3>2 DEF _verify_upstream
    <3> QED BY <3>1, <3>2
  <2> DEFINE d == chain[6]
  <2>8. /\ \A f \in 0 .. OFFLINE_FRAME_COUNT - 1 :
             Cardinality({k \in DOMAIN d.parts : d.parts[k].from <= f /\ f < d.parts[k].to}) = 1
        /\ \A j, k \in DOMAIN d.parts :
             \A a \in DOMAIN d.parts[j].chunks, b \in DOMAIN d.parts[k].chunks :
               d.parts[j].chunks[a] = d.parts[k].chunks[b] => <<j, a>> = <<k, b>>
    BY <2>6, PartsTile DEF SameMedia
  <2>9. Doc(type).parts = d.parts /\ Doc("render_plan").parts = d.parts
    BY <2>3, <2>5, <2>7
  <2> HIDE DEF d
  <2> QED BY <2>8, <2>9
<1> QED BY <1>3, <1>4, <1>5, <1>6, <1>7 DEF ChainIsCoherent, Doc, Has

\* Documents that the parsers of domain/pipeline.py accept one after another belong
\* together: one job, one medium, the cues of OCR down to the render plan, the spoken text
\* in its audio, every frame in one published part; for any frame count, media, cues and
\* part lists, and whatever is wrong with what a stage makes.
THEOREM ChainsAreCoherent == DOCSpec => []ChainIsCoherent
<1>1. DOCInit => DOCInv
  BY DOCInitInv
<1>2. DOCInv /\ [DOCNext]_chain => DOCInv'
  <2>1. CASE UNCHANGED chain
    BY <2>1 DEF DOCInv, IsSequence, Follow, Typed
  <2> QED BY <2>1, DOCStepInv
<1> QED BY <1>1, <1>2, FollowedIsCoherent, PTL DEF DOCSpec
=============================================================================
