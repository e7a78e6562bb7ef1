----------------------------- MODULE Documents -----------------------------
(***************************************************************************)
(* The documents the stages of the media pipeline leave for one another    *)
(* (src/ytb_vps_v2/domain/pipeline.py, models.py, timeline.py): what each  *)
(* may hold, and what a parser accepts as following the one before.        *)
(*                                                                         *)
(* A document is a record.  Its digest is the record: canonical bytes tell *)
(* documents apart, and a file that is not the canonical bytes of what it  *)
(* holds, or misses or adds a field, is a document with canonical FALSE.   *)
(* Fields that no check reads are left out.  A cue's box is the corner     *)
(* that must stay inside the media, [x, y]; a path is safe or "unsafe".    *)
(*                                                                         *)
(* The chain is built document by document: each is what its stage makes   *)
(* of the one before, or that with one thing wrong.                        *)
(***************************************************************************)
EXTENDS Integers, Sequences, FiniteSets

CONSTANTS
    OFFLINE_FRAME_COUNT,   \* 900 in the code
    Width, Height,         \* of the media
    MediaCues,             \* the cues OCR may find: sequences of source cues
    PlannedParts           \* the part lists a renderer may plan

SourceCues == [index : Int, from : Int, to : Int, x : Int, y : Int,
               source : STRING, target : STRING]
ASSUME DocumentsAssumption ==
    /\ OFFLINE_FRAME_COUNT \in Nat
    /\ MediaCues \subseteq Seq(SourceCues)
    /\ PlannedParts \subseteq
         Seq([index : Int, count : Int, from : Int, to : Int, chunks : Seq(Int)])

VARIABLE chain    \* the documents accepted so far, from media to checkpoint

Types == <<"media", "ocr", "track", "translation", "tts", "render_plan",
           "publication", "checkpoint">>
PIPELINE_ARTIFACT_PATHS(type) == type
Upstream(type) == LET k == CHOOSE k \in DOMAIN Types : Types[k] = type IN Types[k - 1]

\* The bytes of a document tell it apart; bytes that a parser reads are those of
\* what it read, with every field once and no other.
canonical_document_bytes(d) == d
_decode(d) == d.canonical

-----------------------------------------------------------------------------
\* FrameInterval, BoundingBox and Cue as their constructors leave them.
FrameInterval(i) == i.from >= 0 /\ i.to > i.from
BoundingBox(d, item) == item.x \in 1 .. d.width /\ item.y \in 1 .. d.height
Inside(d, item) == FrameInterval(item) /\ item.to <= d.frames /\ BoundingBox(d, item)

_dimensions(d) == d.frames = OFFLINE_FRAME_COUNT /\ d.width >= 1 /\ d.height >= 1

_base(d) == /\ d.schema = 1 /\ _decode(d)
            /\ _dimensions(d)
            /\ d.path = PIPELINE_ARTIFACT_PATHS(Upstream(d.type))

_cues(d, target_required) ==
    /\ \A i, j \in DOMAIN d.cues : i < j => d.cues[i].index < d.cues[j].index
    /\ \A i \in DOMAIN d.cues :
         /\ d.cues[i].index >= 1 /\ d.cues[i].source # ""
         /\ Inside(d, d.cues[i])
         /\ (d.cues[i].target # "") = target_required

_blur_regions(d) == \A region \in d.blur : Inside(d, region)

Part(p) == /\ p.index \in 1 .. p.count
           /\ p.chunks # <<>>
           /\ \A i \in 2 .. Len(p.chunks) : p.chunks[i - 1] < p.chunks[i]
           /\ FrameInterval(p)

\* Parts tile the media and their chunks never go back.
_parts(d) ==
    LET n == Len(d.parts)
        last(p) == p.chunks[Len(p.chunks)] IN
    /\ n > 0
    /\ \A k \in 1 .. n : /\ Part(d.parts[k])
                         /\ d.parts[k].index = k /\ d.parts[k].count = n
                         /\ d.parts[k].to <= d.frames
    /\ d.parts[1].from = 0 /\ d.parts[n].to = d.frames
    /\ \A k \in 2 .. n : /\ d.parts[k].from = d.parts[k - 1].to
                         /\ last(d.parts[k - 1]) < d.parts[k].chunks[1]

-----------------------------------------------------------------------------
MediaDocument(d) == d.schema = 1 /\ _decode(d) /\ _dimensions(d)
OcrDocument(d) == _base(d) /\ _cues(d, FALSE)
TrackDocument(d) == _base(d) /\ _cues(d, FALSE) /\ _blur_regions(d)
TranslationDocument(d) == _base(d) /\ _cues(d, TRUE)
TtsDocument(d) == _base(d) /\ _cues(d, TRUE) /\ d.audio # "unsafe"
RenderRequest(d) ==
    _base(d) /\ _cues(d, TRUE) /\ _blur_regions(d) /\ _parts(d) /\ d.audio # "unsafe"
RenderPlanDocument(d) == RenderRequest(d) /\ d.rendered # "unsafe"
PublicationDocument(d) ==
    /\ _base(d) /\ _parts(d)
    /\ Len(d.files) = Len(d.parts)
    /\ \A i, j \in DOMAIN d.files : i # j => d.files[i] # d.files[j]
CheckpointDocument(d) == _base(d) /\ d.manifest # d.snapshot

_source_cue_identity(cue) == [cue EXCEPT !.target = ""]

\* SLIP (breaks ChainIsCoherent): the render plan's cues are not compared.
VerifyNeighbour(d, u) ==
    /\ u.type = Upstream(d.type)
    /\ \A field \in {"job", "media", "frames", "width", "height"} : d[field] = u[field]
    /\ d.dependency = canonical_document_bytes(u)
    /\ d.type \in {"track", "tts"} => d.cues = u.cues
    /\ d.type = "translation" => Len(d.cues) = Len(u.cues)
    /\ d.type = "render_plan" => d.audio = u.audio
    /\ d.type = "publication" => d.parts = u.parts

\* What a document must share with the one it was made from.
_verify_upstream(d, u) ==
    /\ u.type = Upstream(d.type)
    /\ \A field \in {"job", "media", "frames", "width", "height"} : d[field] = u[field]
    /\ d.dependency = canonical_document_bytes(u)
    /\ d.type \in {"track", "tts", "render_plan"} => d.cues = u.cues
    /\ d.type = "translation" =>
         /\ Len(d.cues) = Len(u.cues)
         /\ \A i \in DOMAIN u.cues :
              _source_cue_identity(d.cues[i]) = _source_cue_identity(u.cues[i])
    /\ d.type = "render_plan" => d.audio = u.audio
    /\ d.type = "publication" => d.parts = u.parts

parse_media_document_bytes(d) == MediaDocument(d)
parse_ocr_document_bytes(d, u) == OcrDocument(d) /\ _verify_upstream(d, u)
parse_track_document_bytes(d, u) == TrackDocument(d) /\ _verify_upstream(d, u)
parse_translation_document_bytes(d, u) == TranslationDocument(d) /\ _verify_upstream(d, u)
parse_tts_document_bytes(d, u) == TtsDocument(d) /\ _verify_upstream(d, u)
parse_render_plan_document_bytes(d, u) == RenderPlanDocument(d) /\ _verify_upstream(d, u)
parse_publication_document_bytes(d, u) == PublicationDocument(d) /\ _verify_upstream(d, u)
parse_checkpoint_document_bytes(d, u) == CheckpointDocument(d) /\ _verify_upstream(d, u)

Accepts(d, u) ==
    \/ d.type = "ocr" /\ parse_ocr_document_bytes(d, u)
    \/ d.type = "track" /\ parse_track_document_bytes(d, u)
    \/ d.type = "translation" /\ parse_translation_document_bytes(d, u)
    \/ d.type = "tts" /\ parse_tts_document_bytes(d, u)
    \/ d.type = "render_plan" /\ parse_render_plan_document_bytes(d, u)
    \/ d.type = "publication" /\ parse_publication_document_bytes(d, u)
    \/ d.type = "checkpoint" /\ parse_checkpoint_document_bytes(d, u)

-----------------------------------------------------------------------------
\* What a stage adds to the identity it copies from the document before.
Media == [type |-> "media", schema |-> 1, canonical |-> TRUE, job |-> "job", media |-> "source",
          frames |-> OFFLINE_FRAME_COUNT, width |-> Width, height |-> Height]

Header(u, type) ==
    [type |-> type, schema |-> 1, canonical |-> TRUE, job |-> u.job, media |-> u.media,
     frames |-> u.frames, width |-> u.width, height |-> u.height,
     path |-> u.type, dependency |-> canonical_document_bytes(u)]

With(header, fields) ==
    [f \in DOMAIN header \union DOMAIN fields |->
        IF f \in DOMAIN fields THEN fields[f] ELSE header[f]]

Spoken(cues) == [i \in DOMAIN cues |-> [cues[i] EXCEPT !.target = "spoken"]]
Region == [from |-> 0, to |-> 1, x |-> 1, y |-> 1]
Covers(cues) == {[from |-> cues[i].from, to |-> cues[i].to, x |-> cues[i].x, y |-> cues[i].y] :
                    i \in DOMAIN cues}

detect(u) == {With(Header(u, "ocr"), [cues |-> cues]) : cues \in MediaCues}
track(u) == {With(Header(u, "track"), [cues |-> u.cues, blur |-> {Region} \union Covers(u.cues)])}
translate(u) == {With(Header(u, "translation"), [cues |-> Spoken(u.cues)])}
synthesize(u) == {With(Header(u, "tts"), [cues |-> u.cues, audio |-> "voice"])}
render(u) ==
    {With(Header(u, "render_plan"),
          [cues |-> u.cues, blur |-> u.dependency.dependency.blur, audio |-> u.audio,
           parts |-> parts, rendered |-> "video"]) : parts \in PlannedParts}
publication(u) ==
    {With(Header(u, "publication"),
          [parts |-> u.parts, files |-> [k \in DOMAIN u.parts |-> k]])}
checkpoint(u) ==
    {With(Header(u, "checkpoint"), [manifest |-> "manifest", snapshot |-> "state"])}

Made(u) ==
    CASE u.type = "media" -> detect(u)
      [] u.type = "ocr" -> track(u)
      [] u.type = "track" -> translate(u)
      [] u.type = "translation" -> synthesize(u)
      [] u.type = "tts" -> render(u)
      [] u.type = "render_plan" -> publication(u)
      [] u.type = "publication" -> checkpoint(u)

\* One thing wrong: of another job, other media or another age, damaged, of a
\* stage that lost, moved, renamed or silenced a cue, or planned other parts.
OtherCue(cue) == {[cue EXCEPT !.source = "other"], [cue EXCEPT !.target = ""],
                  [cue EXCEPT !.target = "other"], [cue EXCEPT !.to = @ + 1],
                  [cue EXCEPT !.x = Width + 1], [cue EXCEPT !.index = @ + 1]}
OtherCues(cues) ==
    {[cues EXCEPT ![i] = other] : i \in DOMAIN cues, other \in
        UNION {OtherCue(cues[i]) : i \in DOMAIN cues}}
    \union IF cues = <<>> THEN {} ELSE {Tail(cues)}

Wrong(d) ==
    {[d EXCEPT !.schema = 2], [d EXCEPT !.canonical = FALSE], [d EXCEPT !.job = "other"],
     [d EXCEPT !.media = "other"], [d EXCEPT !.frames = @ + 1], [d EXCEPT !.width = @ + 1],
     [d EXCEPT !.path = "other"], [d EXCEPT !.dependency.job = "other"]}
    \union (IF "cues" \in DOMAIN d THEN {[d EXCEPT !.cues = c] : c \in OtherCues(d.cues)} ELSE {})
    \union (IF "blur" \in DOMAIN d
            THEN {[d EXCEPT !.blur = {[Region EXCEPT !.to = d.frames + 1]}]} ELSE {})
    \union (IF "audio" \in DOMAIN d THEN {[d EXCEPT !.audio = "other"]} ELSE {})
    \union (IF d.type = "publication"
            THEN {[d EXCEPT !.parts = p] : p \in PlannedParts}
                 \union {[d EXCEPT !.files = [k \in DOMAIN @ |-> 1]]}
            ELSE {})

DOCInit == chain = <<Media>>
DOCNext ==
    LET last == chain[Len(chain)] IN
    /\ last.type # "checkpoint"
    /\ \E made \in Made(last) : \E d \in {made} \union Wrong(made) :
         /\ Accepts(d, last)
         /\ chain' = Append(chain, d)

DOCSpec == DOCInit /\ [][DOCNext]_chain

-----------------------------------------------------------------------------
\* Documents that were accepted one after another belong together, however each
\* of them was made: they are of one job and one medium, every cue down to the
\* render plan is the one OCR found at its place and lies inside the media, the
\* text that is rendered is the text that was spoken, in the audio that was
\* made, and every frame is in exactly one published part, every chunk in one.
ChainIsCoherent ==
    LET Doc(type) == chain[CHOOSE k \in DOMAIN chain : chain[k].type = type]
        Has(type) == \E k \in DOMAIN chain : chain[k].type = type
        CuesOf(type) == Doc(type).cues IN
    /\ \A k \in DOMAIN chain : chain[k].job = "job" /\ chain[k].media = "source"
                               /\ chain[k].frames = OFFLINE_FRAME_COUNT
    /\ \A type \in {"track", "translation", "tts", "render_plan"} : Has(type) =>
         /\ DOMAIN CuesOf(type) = DOMAIN CuesOf("ocr")
         /\ \A i \in DOMAIN CuesOf(type) :
              _source_cue_identity(CuesOf(type)[i]) = CuesOf("ocr")[i]
    /\ \A k \in DOMAIN chain : "cues" \in DOMAIN chain[k] =>
         \A i \in DOMAIN chain[k].cues :
            chain[k].cues[i].to <= OFFLINE_FRAME_COUNT /\ chain[k].cues[i].x <= Width
    /\ Has("render_plan") => /\ CuesOf("render_plan") = CuesOf("translation")
                             /\ Doc("render_plan").audio = Doc("tts").audio
    /\ \A type \in {"render_plan", "publication"} : Has(type) =>
         LET parts == Doc(type).parts IN
         /\ parts = Doc("render_plan").parts
         /\ \A f \in 0 .. OFFLINE_FRAME_COUNT - 1 :
              Cardinality({k \in DOMAIN parts : parts[k].from <= f /\ f < parts[k].to}) = 1
         /\ \A j, k \in DOMAIN parts : \A a \in DOMAIN parts[j].chunks, b \in DOMAIN parts[k].chunks :
              parts[j].chunks[a] = parts[k].chunks[b] => <<j, a>> = <<k, b>>
=============================================================================
