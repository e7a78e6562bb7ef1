----------------------------- MODULE OcrWorker -----------------------------
(***************************************************************************)
(* One OCR worker and the host that reads it: adapters/ocr and the worker  *)
(* of containers/ocr-v2.  The worker takes raw frames from a stream,       *)
(* detects text in those that changed, carries the text of the others      *)
(* over, and either replaces a JSONL file in the end (run_worker_loop) or  *)
(* writes every record to stdout as it goes (run_stdout_worker_loop), with *)
(* DockerOcrChunkDetector on the other side of the pipe.                   *)
(*                                                                         *)
(* A picture is a number, Blank one without text.  A record names its      *)
(* frame, the picture whose text it repeats (in place of text and          *)
(* confidence) and its box.                                                *)
(***************************************************************************)
EXTENDS Integers, Sequences

CONSTANTS
    Pictures,      \* what a frame may show
    Threshold,     \* the largest difference that counts as no change
    MaxFrames,     \* bound: frames of a chunk
    Starts, Steps, \* numbers of the first frame, distances of frames
    Tolerances,    \* frames that may be missing at the end
    Points,        \* boxes a detector reports, in the coordinates of its crop
    Crop,          \* the transform of the detector
    FrameWidth, FrameHeight, \* of a frame
    MaxRecords     \* records the host accepts (max_output_bytes)

Blank == 0
Transforms == [x_offset : Int, y_offset : Int,
               x_scale : Nat \ {0}, y_scale : Nat \ {0}, over : Nat \ {0}]

ASSUME OcrAssumption ==
    /\ Pictures \subseteq Nat /\ Threshold \in Nat /\ MaxFrames \in Nat \ {0}
    /\ Starts \subseteq Nat /\ Steps \subseteq Nat \ {0} /\ Tolerances \subseteq Nat
    /\ FrameWidth \in Nat \ {0} /\ FrameHeight \in Nat \ {0} /\ MaxRecords \in Nat
    /\ \A p \in Points : DOMAIN p = 1 .. 4 /\ \A i \in 1 .. 4 : p[i] \in Int
    /\ Crop \in Transforms

VARIABLES
    chunk,    \* what the worker is asked for, and the box its detector finds
    worker,   \* the loop over the frames
    file,     \* the JSONL file of run_worker_loop
    client      \* the reader of the worker's stdout

ocrVars == <<chunk, worker, file, client>>

-----------------------------------------------------------------------------
\* CoordinateTransform: a crop's coordinates in the frame, cut to the frame.

\* int() of a fraction: towards zero.
Truncated(n, over) == IF n >= 0 THEN n \div over ELSE -((-n) \div over)
Least(a, b) == IF a <= b THEN a ELSE b
Most(a, b) == IF a >= b THEN a ELSE b

Moved(t, p) == <<Truncated(t.x_offset * t.over + t.x_scale * p[1], t.over),
                 Truncated(t.y_offset * t.over + t.y_scale * p[2], t.over),
                 Truncated(t.x_offset * t.over + t.x_scale * p[3], t.over),
                 Truncated(t.y_offset * t.over + t.y_scale * p[4], t.over)>>

CutToFrame(m, width, height) ==
    LET left == Most(0, Least(width - 1, m[1]))
        top == Most(0, Least(height - 1, m[2]))
    IN  <<left, top, Most(left + 1, Least(width, m[3])), Most(top + 1, Least(height, m[4]))>>

box(t, p) == CutToFrame(Moved(t, p), FrameWidth, FrameHeight)

Identity == [x_offset |-> 0, y_offset |-> 0, x_scale |-> 1, y_scale |-> 1, over |-> 1]

-----------------------------------------------------------------------------
\* The frames: iter_raw_frames and iter_processed_frames.

FrameNumber(c, k) == c.start + (k - 1) * c.step

Distance(p, q) == IF p >= q THEN p - q ELSE q - p

\* convert_rapidocr_result, with the frame the detector was called for.
Record(c, k, picture) ==
    [frame |-> FrameNumber(c, k), text |-> picture, box |-> box(Crop, c.points)]
Records(c, k, picture) == IF picture = Blank THEN <<>> ELSE <<Record(c, k, picture)>>

OCRInit ==
    /\ \E sink \in {"file", "stdout"}, start \in Starts, step \in Steps,
          expected \in 1 .. MaxFrames, tolerance \in Tolerances,
          enabled \in BOOLEAN, points \in Points :
            /\ chunk = [sink |-> sink, start |-> start, step |-> step, expected |-> expected,
                        tolerance |-> tolerance, enabled |-> enabled, points |-> points]
            /\ client = [pc |-> IF sink = "stdout" THEN "reading" ELSE "off",
                       got |-> <<>>, timedOut |-> FALSE, result |-> <<>>]
    /\ worker = [pc |-> "reading", seen |-> <<>>, detected |-> Blank, records |-> <<>>]
    /\ file = [kind |-> "old", records |-> <<>>]

Fails == /\ worker' = [worker EXCEPT !.pc = "error"]
         /\ UNCHANGED <<chunk, file, client>>

Emit(p, detected) ==
    LET k == Len(worker.seen) + 1
    IN  /\ worker' = [pc |-> "reading", seen |-> Append(worker.seen, p), detected |-> detected,
                      records |-> worker.records \o Records(chunk, k, detected)]
        /\ UNCHANGED <<chunk, file, client>>

\* SLIP (breaks ResultIsRight): a frame is compared with the one that was
\* detected last, and not with the one before it.
ProcessAgainstDetected(p) ==
    /\ worker.pc = "reading" /\ Len(worker.seen) < chunk.expected
    /\ LET changed == \/ worker.seen = <<>> \/ ~chunk.enabled
                      \/ Distance(worker.detected, p) > Threshold
       IN  Emit(p, IF changed THEN p ELSE worker.detected)

\* A frame is detected when it is the first or differs from the one before
\* it, else it gets the detections of that one with its own number.
iter_processed_frames(p) ==
    /\ worker.pc = "reading" /\ Len(worker.seen) < chunk.expected
    /\ LET changed == \/ worker.seen = <<>> \/ ~chunk.enabled
                      \/ Distance(worker.seen[Len(worker.seen)], p) > Threshold
       IN  Emit(p, IF changed THEN p ELSE worker.detected)

\* A frame cut short, a byte after the last frame, a detector that raises.
StreamIsBad == worker.pc = "reading" /\ Fails

\* The stream ends, early or in time.
iter_raw_frames ==
    /\ worker.pc = "reading"
    /\ IF Len(worker.seen) < chunk.expected - chunk.tolerance THEN Fails
       ELSE /\ worker' = [worker EXCEPT !.pc = IF chunk.sink = "file" THEN "write" ELSE "zero"]
            /\ UNCHANGED <<chunk, file, client>>

\* write_canonical_jsonl: a temporary file is written and synchronized, and
\* then it replaces the destination.
WriteTemporary ==
    /\ worker.pc = "write"
    /\ \/ /\ worker' = [worker EXCEPT !.pc = "replace"]
          /\ UNCHANGED <<chunk, file, client>>
       \/ Fails

ReplaceFile ==
    /\ worker.pc = "replace"
    /\ file' = [kind |-> "new", records |-> worker.records]
    /\ worker' = [worker EXCEPT !.pc = "zero"]
    /\ UNCHANGED <<chunk, client>>

Running == worker.pc \in {"reading", "write", "replace"}

WorkerDies ==
    /\ Running
    /\ worker' = [worker EXCEPT !.pc = "killed"]
    /\ UNCHANGED <<chunk, file, client>>

run_worker_loop ==
    \/ \E p \in Pictures : iter_processed_frames(p)
    \/ StreamIsBad \/ iter_raw_frames \/ WriteTemporary \/ ReplaceFile

-----------------------------------------------------------------------------
\* The host: DockerOcrChunkDetector._run and run_chunk.

HostGoto(pc) == client' = [client EXCEPT !.pc = pc]
Armed == client.pc \in {"reading", "reap"}

HostReads ==
    /\ client.pc = "reading" /\ Len(client.got) < Len(worker.records)
    /\ IF Len(client.got) = MaxRecords
       THEN /\ HostGoto("raised")
            /\ worker' = [worker EXCEPT !.pc = IF Running THEN "killed" ELSE @]
       ELSE /\ client' = [client EXCEPT !.got = Append(@, worker.records[Len(@) + 1])]
            /\ UNCHANGED worker
    /\ UNCHANGED <<chunk, file>>

\* The end of the pipe.  A worker that was killed takes what it buffered along.
HostSeesEnd ==
    /\ client.pc = "reading" /\ ~Running
    /\ worker.pc = "killed" \/ client.got = worker.records
    /\ HostGoto("reap")
    /\ UNCHANGED <<chunk, worker, file>>

\* The timer: it notes that the time is up, and then kills.
WatchdogFires ==
    /\ Armed /\ ~client.timedOut
    /\ client' = [client EXCEPT !.timedOut = TRUE]
    /\ UNCHANGED <<chunk, worker, file>>
WatchdogKills ==
    /\ client.timedOut /\ Running
    /\ worker' = [worker EXCEPT !.pc = "killed"]
    /\ UNCHANGED <<chunk, file, client>>

\* parse_worker_jsonl: the worker's frame is taken for one relative to the
\* chunk, and the box goes through the host's transform.
Parsed(r) == [r EXCEPT !.frame = chunk.start + @ * chunk.step, !.box = box(Identity, @)]
Parses(got) == \A i \in DOMAIN got : got[i].frame < chunk.expected

Conclude(ok) ==
    /\ client.pc = "reap"
    /\ client' = IF ok
               THEN [client EXCEPT !.pc = "returned",
                                 !.result = [i \in DOMAIN client.got |-> Parsed(client.got[i])]]
               ELSE [client EXCEPT !.pc = "raised"]
    /\ UNCHANGED <<chunk, worker, file>>

\* SLIP: the status of the worker is not looked at.
ConcludeUnchecked == Conclude(~client.timedOut /\ Parses(client.got))

run_chunk == Conclude(~client.timedOut /\ worker.pc = "zero" /\ Parses(client.got))

Host == HostReads \/ HostSeesEnd \/ WatchdogFires \/ WatchdogKills \/ run_chunk

OCRNext == run_worker_loop \/ WorkerDies \/ Host

OCRSpec == OCRInit /\ [][OCRNext]_ocrVars

-----------------------------------------------------------------------------
\* What the detections of the frames seen of a chunk are, told without the loop: a frame
\* shows the text of the last frame up to it that differed from the one
\* before it.
Changed(c, seen, k) ==
    k = 1 \/ ~c.enabled \/ Distance(seen[k - 1], seen[k]) > Threshold
Shown(c, seen, k) ==
    LET j == CHOOSE j \in 1 .. k : Changed(c, seen, j) /\ \A i \in j + 1 .. k : ~Changed(c, seen, i)
    IN  seen[j]
Detections(c, seen) ==
    {Record(c, k, Shown(c, seen, k)) : k \in {k \in DOMAIN seen : Shown(c, seen, k) # Blank}}

AllOf(records) == {records[i] : i \in DOMAIN records}
Enough == Len(worker.seen) \in chunk.expected - chunk.tolerance .. chunk.expected

\* Whatever ends, dies or is killed on the way, a result is complete and
\* right: the file is the old one or holds the detections of all the frames
\* of the chunk, and a chunk that the host returns holds them too.  (Of a
\* chunk that starts at frame zero and takes every frame: of the others the
\* parser refuses or renumbers frames that already have their number.)
ResultIsRight ==
    /\ file.kind = "new" => Enough /\ AllOf(file.records) = Detections(chunk, worker.seen)
    /\ client.pc = "returned" /\ chunk.start = 0 /\ chunk.step = 1 =>
           Enough /\ AllOf(client.result) = Detections(chunk, worker.seen)
=============================================================================
