--------------------------- MODULE BrowserUpload ---------------------------
(***************************************************************************)
(* The browser's upload of one source: an item of the upload queue         *)
(* (web/src/components/use-upload-queue.ts), the resumable uploader it     *)
(* drives (lib/browser/resumable-uploader.ts) and the one record it keeps  *)
(* in IndexedDB (lib/browser/upload-store.ts), against Drive and the       *)
(* control plane.                                                          *)
(*                                                                         *)
(* Everything between two awaits is one step.  run() of the uploader,      *)
(* cancel(), the user, the page and the other side are the actors.  A      *)
(* page that is left goes on with what it was at: its uploader is          *)
(* disposed, but an item that had none yet still gets one.  The control    *)
(* plane decides in one step here; SourceUpload has its inside.            *)
(***************************************************************************)
EXTENDS Naturals

CONSTANTS
    Size,           \* the bytes of the file, in units
    ChunkUnits,     \* CHUNK_BYTES, in the same units
    MaxAttempts,    \* the failures after which nextRetry gives up
    MaxSessions,    \* bound: resumable sessions that are opened
    MaxPages,       \* bound: times the dashboard is opened
    MaxBreaks,      \* bound: lost answers, odd answers, failed writes, expiries
    NoRecord        \* no record in the store, no answer yet

Sessions == 1 .. MaxSessions
Pages == 1 .. MaxPages
Sizes == 0 .. Size

ASSUME BrowserUploadAssumption ==
    /\ Size \in Nat \ {0} /\ ChunkUnits \in Nat \ {0} /\ MaxAttempts \in Nat \ {0}
    /\ MaxSessions \in Nat \ {0} /\ MaxPages \in Nat \ {0} /\ MaxBreaks \in Nat
    /\ NoRecord \notin [session : Sessions, next : Sizes]

VARIABLES
    sent,       \* the source at the control plane: NONE, UPLOADING, READY, DELETED
    arrived,    \* the bytes Drive holds of each session
    grants,     \* resumable sessions, opened: how many; live: those of the present file; expired
    whole,      \* the present Drive file has all its bytes
    stored,     \* the record in IndexedDB
    page,       \* the page that is open
    item,       \* of each page, the queue item and runItem
    up,         \* of each page, the uploader
    asked,      \* of each page, the cancellation that is under way
    breaks      \* what is left of MaxBreaks

buVars == <<sent, arrived, grants, whole, stored, page, item, up, asked, breaks>>

\* What is answered: "session" with its number, or one word.
Answer(kind, s) == [kind |-> kind, session |-> s]
NoAnswer == Answer("none", 0)
Results == [kind : {"ready", "error", "session"}, session : 0 .. MaxSessions]
Rec(s, n) == [session |-> s, next |-> n]
NoItem == [state |-> "NONE", pc |-> "rest", known |-> FALSE, pending |-> FALSE,
           attached |-> FALSE, recovery |-> NoRecord, found |-> NoRecord, reply |-> NoAnswer]
NoUploader == [pc |-> "rest", action |-> "QUERY", session |-> 1, next |-> 0,
               verifying |-> FALSE, fails |-> 0, outcome |-> "none", phase |-> "IDLE",
               pause |-> FALSE, cancel |-> FALSE, disposed |-> FALSE, current |-> FALSE,
               reply |-> NoAnswer, deleted |-> "nobody"]
NoCancel == [by |-> "nobody", pc |-> "none"]

BUInit ==
    /\ sent = "NONE" /\ arrived = [s \in Sessions |-> 0] /\ whole = FALSE
    /\ grants = [opened |-> 0, live |-> {}, expired |-> {}]
    /\ stored = NoRecord /\ page = 1 /\ breaks = MaxBreaks
    /\ item = [p \in Pages |-> IF p = 1 THEN [NoItem EXCEPT !.state = "QUEUED"] ELSE NoItem]
    /\ up = [p \in Pages |-> NoUploader]
    /\ asked = [p \in Pages |-> NoCancel]

-----------------------------------------------------------------------------
KeepRemote == UNCHANGED <<sent, arrived, grants, whole>>
KeepPage == UNCHANGED page
Break == breaks > 0 /\ breaks' = breaks - 1
Unbroken == UNCHANGED breaks

AtUp(p, pc) == up[p].pc = pc
SetUp(p, r) == up' = [up EXCEPT ![p] = r]
SetItem(p, i) == item' = [item EXCEPT ![p] = i]
SetCancel(p, by, pc) == asked' = [asked EXCEPT ![p] = [by |-> by, pc |-> pc]]
OnlyUp(p, r) == SetUp(p, r) /\ UNCHANGED <<stored, item, asked>> /\ KeepPage

Expired(s) == s \in grants.expired
Refused(s) == s \notin grants.live \/ Expired(s)
UploadEnd(r) == IF r.next + ChunkUnits < Size THEN r.next + ChunkUnits ELSE Size
IsFinalChunk(r) == UploadEnd(r) = Size

\* publish: an uploader that ended READY or CANCELLED shows nothing else.
Publish(r, phase) ==
    IF r.outcome \in {"none", phase} THEN [r EXCEPT !.phase = phase] ELSE r

\* run() is over; what it knew of the transfer is gone with it.
Halt(r) == [r EXCEPT !.pc = "rest", !.action = "QUERY", !.session = 1, !.next = 0,
                     !.verifying = FALSE, !.fails = 0, !.reply = NoAnswer]
PausedPhase(r, else) == IF r.verifying THEN "PAUSED_VERIFYING" ELSE else

\* The head of run's loop: the request of the action is sent.
Loop(r) ==
    IF r.cancel THEN Halt(r)
    ELSE IF r.pause THEN Halt(Publish(r, PausedPhase(r, "PAUSED")))
    ELSE [(IF r.action = "COMPLETE" THEN Publish(r, "VERIFYING") ELSE r)
             EXCEPT !.pc = r.action, !.reply = NoAnswer]

\* recordFailure, and the action after it.
Failure(r, action) ==
    LET later == [r EXCEPT !.fails = @ + 1, !.action = action] IN
    IF later.fails >= MaxAttempts THEN Halt(Publish(r, PausedPhase(r, "PAUSED_ERROR")))
    ELSE IF r.pause THEN Loop(later)
    ELSE [later EXCEPT !.pc = "sleep"]

\* The catch of run.
Throw(r) ==
    IF (r.disposed \/ r.cancel) /\ r.outcome = "none" THEN Halt(r)
    ELSE IF r.phase \in {"PAUSED_ERROR", "PAUSED_VERIFYING"} THEN Halt(r)
    ELSE Halt(Publish(r, "PAUSED_ERROR"))

\* persist is called: of an expired record the store wants nothing.
Persist(r) == IF Expired(r.session) THEN Throw(r) ELSE [r EXCEPT !.pc = "put"]
Advance(r, next, fails) ==
    LET action == IF next = Size THEN "COMPLETE" ELSE "UPLOAD" IN
    Persist([r EXCEPT !.next = next, !.fails = fails, !.action = action,
                      !.verifying = (action = "COMPLETE")])
Verify(r) == Loop([r EXCEPT !.verifying = TRUE, !.action = "COMPLETE"])
IsReady(r) == [Publish([r EXCEPT !.outcome = "READY", !.current = FALSE], "READY")
                 EXCEPT !.pc = "delete"]

\* start and resume.
StartRun(r, rec, recovering) ==
    LET action == IF rec.next = Size THEN "COMPLETE"
                  ELSE IF Expired(rec.session) THEN "RENEW"
                  ELSE IF recovering THEN "QUERY" ELSE "UPLOAD"
        first == [Publish(r, "UPLOADING") EXCEPT
                    !.pause = FALSE, !.cancel = FALSE, !.current = TRUE, !.action = action,
                    !.session = rec.session, !.next = rec.next, !.fails = 0,
                    !.verifying = (action = "COMPLETE")]
    IN  IF ~Expired(rec.session) THEN Persist(first)
        ELSE IF action = "RENEW" THEN Failure(first, "RENEW") ELSE Loop(first)

-----------------------------------------------------------------------------
\* A chunk arrives at Drive, which may keep it and lose the answer.
Kept(s, n) ==
    /\ arrived' = [arrived EXCEPT ![s] = n]
    /\ whole' = (whole \/ n = Size)
    /\ UNCHANGED <<sent, grants>>
Arrives(r, n) ==
    /\ ~Refused(r.session) /\ r.next <= arrived[r.session]
    /\ n \in arrived[r.session] .. (IF UploadEnd(r) > arrived[r.session]
                                 THEN UploadEnd(r) ELSE arrived[r.session])

\* run makes of a 308, or a 200, what the uploader should hold next.
AfterChunk(r, n) ==
    IF n = Size THEN IF IsFinalChunk(r) THEN Verify(r) ELSE Throw(r)
    ELSE IF n < r.next \/ n > UploadEnd(r) THEN Throw(r)
    ELSE IF n = r.next THEN Failure(r, "QUERY")
    ELSE Advance(r, n, 0)

UploadChunk(p) ==
    LET r == up[p] IN
    /\ AtUp(p, "UPLOAD")
    /\ \/ \E n \in Sizes : /\ Arrives(r, n) /\ Kept(r.session, n)
                           /\ IF n >= UploadEnd(r) THEN Unbroken ELSE Break
                           /\ OnlyUp(p, AfterChunk(r, n))
       \/ /\ Refused(r.session) \/ (r.next > arrived[r.session])
          /\ KeepRemote /\ Unbroken /\ OnlyUp(p, Failure(r, "RENEW"))
       \/ /\ Break
          /\ KeepRemote \/ (Arrives(r, UploadEnd(r)) /\ Kept(r.session, UploadEnd(r)))
          /\ \/ OnlyUp(p, IF IsFinalChunk(r) THEN Verify(r) ELSE Failure(r, "QUERY"))
             \/ \E action \in {"QUERY", "UPLOAD", "RENEW"} : OnlyUp(p, Failure(r, action))

\* The status query; a Range the browser may not read counts as nothing arrived.
QueryStatus(p) ==
    LET r == up[p]
        Told(n) == Advance(r, n, IF n > r.next THEN 0 ELSE r.fails) IN
    /\ AtUp(p, "QUERY") /\ KeepRemote
    /\ \/ /\ ~Refused(r.session) /\ Unbroken
          /\ OnlyUp(p, IF arrived[r.session] = Size THEN Verify(r) ELSE Told(arrived[r.session]))
       \/ ~Refused(r.session) /\ arrived[r.session] < Size /\ Break /\ OnlyUp(p, Told(0))
       \/ Refused(r.session) /\ Unbroken /\ OnlyUp(p, Failure(r, "RENEW"))
       \/ /\ Break
          /\ \E action \in {"QUERY", "RENEW", IF r.verifying THEN "COMPLETE" ELSE "QUERY"} :
                OnlyUp(p, Failure(r, action))

-----------------------------------------------------------------------------
\* upload-session of the control plane: an unfinished source gets a session more,
\* one that was DELETED a file of its own again.
Serve(a) ==
    IF sent = "READY" \/ (sent = "UPLOADING" /\ whole)
    THEN a = Answer("ready", 0) /\ sent' = "READY" /\ UNCHANGED <<arrived, grants, whole>>
    ELSE IF grants.opened = MaxSessions THEN a = Answer("error", 0) /\ KeepRemote
    ELSE /\ a = Answer("session", grants.opened + 1)
         /\ sent' = "UPLOADING" /\ UNCHANGED <<arrived, whole>>
         /\ grants' = [grants EXCEPT !.opened = @ + 1, !.live = @ \union {grants.opened + 1}]

\* The request is served, or its answer lost.
CreateSession(a) ==
    \/ Serve(a) /\ Unbroken
    \/ a = Answer("error", 0) /\ Break /\ (KeepRemote \/ \E lost \in Results : Serve(lost))

Renew(p) ==
    /\ AtUp(p, "RENEW") /\ up[p].reply = NoAnswer
    /\ \E a \in Results : CreateSession(a) /\ OnlyUp(p, [up[p] EXCEPT !.reply = a])

\* SLIP (breaks ResumableWhileUnfinished): only the session is replaced.
OffsetStays(r) ==
    [r EXCEPT !.session = r.reply.session, !.action = "UPLOAD", !.verifying = FALSE,
              !.reply = NoAnswer]

\* A new session holds nothing yet.
NewSession(r) ==
    [r EXCEPT !.session = r.reply.session, !.next = 0, !.action = "UPLOAD",
              !.verifying = FALSE, !.reply = NoAnswer]

\* Whatever became of the uploader since, it is only asked whether it is cancelled.
RenewAnswered(p) ==
    LET r == up[p] IN
    /\ AtUp(p, "RENEW") /\ r.reply # NoAnswer /\ KeepRemote /\ Unbroken
    /\ OnlyUp(p,
         IF r.reply.kind = "error"
         THEN IF r.disposed \/ r.cancel THEN Halt(r) ELSE Failure(r, "RENEW")
         ELSE IF r.cancel THEN Halt(r)
         ELSE IF r.reply.kind = "ready" THEN IsReady(r)
         ELSE IF Expired(r.reply.session) THEN Throw(r)
         ELSE Persist(NewSession(r)))

\* upload-complete; Drive may be slow to show the whole file.
Complete(p) ==
    LET Tell(a) == OnlyUp(p, [up[p] EXCEPT !.reply = Answer(a, 0)])
        Ready == sent' = "READY" /\ UNCHANGED <<arrived, grants, whole>> IN
    /\ AtUp(p, "COMPLETE") /\ up[p].reply = NoAnswer
    /\ \/ (sent = "READY" \/ (sent = "UPLOADING" /\ whole)) /\ Ready /\ Unbroken /\ Tell("ready")
       \/ sent = "UPLOADING" /\ whole /\ KeepRemote /\ Break /\ Tell("pending")
       \/ sent = "UPLOADING" /\ ~whole /\ KeepRemote /\ Unbroken /\ Tell("pending")
       \/ sent = "DELETED" /\ KeepRemote /\ Unbroken /\ Tell("error")
       \/ Break /\ Tell("error") /\ (KeepRemote \/ (sent = "UPLOADING" /\ whole /\ Ready))

CompleteAnswered(p) ==
    LET r == up[p] IN
    /\ AtUp(p, "COMPLETE") /\ r.reply # NoAnswer /\ KeepRemote /\ Unbroken
    /\ OnlyUp(p,
         IF r.reply.kind = "ready" THEN IF r.outcome = "CANCELLED" THEN Halt(r) ELSE IsReady(r)
         ELSE IF r.cancel \/ (r.disposed /\ r.reply.kind = "error") THEN Halt(r)
         ELSE Failure(r, IF r.reply.kind = "pending" THEN "QUERY" ELSE "COMPLETE"))

Wake(p) == AtUp(p, "sleep") /\ KeepRemote /\ Unbroken /\ OnlyUp(p, Loop(up[p]))

-----------------------------------------------------------------------------
\* The record is in the store, or the write failed.
PutDone(p) ==
    LET r == up[p] IN
    /\ AtUp(p, "put") /\ KeepRemote /\ KeepPage /\ UNCHANGED <<item, asked>>
    /\ \/ /\ stored' = Rec(r.session, r.next) /\ Unbroken
          /\ SetUp(p, IF r.disposed \/ r.cancel THEN Halt(r)
                      ELSE Loop(Publish(r, IF r.verifying THEN "VERIFYING" ELSE "UPLOADING")))
       \/ UNCHANGED stored /\ Break /\ SetUp(p, Throw(r))

\* The source is READY and the record goes, or stays behind by a failure.
DeleteDone(p) ==
    /\ AtUp(p, "delete") /\ KeepRemote /\ KeepPage /\ UNCHANGED <<item, asked>>
    /\ \/ stored' = NoRecord /\ Unbroken /\ SetUp(p, [Halt(up[p]) EXCEPT !.deleted = "uploader"])
       \/ UNCHANGED stored /\ Break /\ SetUp(p, Halt(up[p]))

-----------------------------------------------------------------------------
\* The queue.  A page lists the records when it opens, and deletes expired ones.
Valid(rec) == rec # NoRecord /\ ~Expired(rec.session)
List == IF Valid(stored) THEN stored ELSE NoRecord

\* attachUploader, then start or resume.
Attach(p, i, rec, recovering) ==
    /\ SetItem(p, [i EXCEPT !.pc = "run", !.known = TRUE, !.attached = TRUE,
                            !.recovery = NoRecord, !.reply = NoAnswer])
    /\ SetUp(p, StartRun(NoUploader, rec, recovering))

\* runItem; an item waits while another one is ACTIVE.
RunItem(p) ==
    LET i == [item[p] EXCEPT !.state = "ACTIVE"] IN
    /\ item[p].state = "QUEUED" /\ item[p].pc = "rest"
    /\ IF i.recovery # NoRecord THEN Attach(p, i, i.recovery, TRUE)
       ELSE SetItem(p, [i EXCEPT !.pc = "ask"]) /\ UNCHANGED up
    /\ KeepRemote /\ Unbroken /\ KeepPage /\ UNCHANGED <<stored, asked>>

Provision(p) ==
    /\ item[p].pc = "ask" /\ item[p].reply = NoAnswer
    /\ \E a \in Results : CreateSession(a) /\ SetItem(p, [item[p] EXCEPT !.reply = a])
    /\ KeepPage /\ UNCHANGED <<stored, up, asked>>

\* settleProvisioningCancellation, as far as its request.
SettleCancel(p, i) ==
    IF i.known THEN SetItem(p, [i EXCEPT !.pc = "settle"]) /\ SetCancel(p, "settle", "asked")
    ELSE SetItem(p, [i EXCEPT !.pc = "rest", !.state = "CANCELLED", !.pending = FALSE])
         /\ UNCHANGED asked
\* The end of runItem by an error.
FailItem(p, i) ==
    IF i.pending THEN SettleCancel(p, i)
    ELSE SetItem(p, [i EXCEPT !.pc = "rest", !.state = "FAILED"]) /\ UNCHANGED asked

Provisioned(p) ==
    LET i == [item[p] EXCEPT !.known = @ \/ item[p].reply.kind # "error", !.reply = NoAnswer]
        a == item[p].reply IN
    /\ item[p].pc = "ask" /\ a # NoAnswer
    /\ IF a.kind = "error" THEN FailItem(p, i) /\ UNCHANGED up
       ELSE IF i.pending THEN SettleCancel(p, i) /\ UNCHANGED up
       ELSE IF a.kind = "ready"
       THEN /\ SetItem(p, [i EXCEPT !.pc = "rest", !.state = "DONE", !.known = item[p].known])
            /\ SetUp(p, [up[p] EXCEPT !.phase = "READY"]) /\ UNCHANGED asked
       ELSE SetItem(p, [i EXCEPT !.pc = "put", !.reply = a]) /\ UNCHANGED <<up, asked>>
    /\ KeepRemote /\ Unbroken /\ KeepPage /\ UNCHANGED stored

StoreRecord(p) ==
    LET s == item[p].reply.session
        i == [item[p] EXCEPT !.reply = NoAnswer] IN
    /\ item[p].pc = "put" /\ KeepRemote /\ KeepPage
    /\ \/ /\ ~Expired(s) /\ Unbroken /\ stored' = Rec(s, 0)
          /\ IF i.pending THEN SettleCancel(p, i) /\ UNCHANGED up
             ELSE Attach(p, i, Rec(s, 0), FALSE) /\ UNCHANGED asked
       \/ /\ IF Expired(s) THEN Unbroken ELSE Break
          /\ FailItem(p, i) /\ UNCHANGED <<up, stored>>

\* settleItem, once the run it waits for is over.
SettleItem(p) ==
    LET i == [item[p] EXCEPT !.pc = "rest"] IN
    /\ item[p].pc = "run" /\ AtUp(p, "rest")
    /\ SetItem(p, IF up[p].phase = "READY" THEN [i EXCEPT !.state = "DONE"]
                  ELSE IF up[p].phase = "CANCELLED" /\ asked[p] = NoCancel
                       /\ up[p].deleted # "nobody"
                  THEN [i EXCEPT !.state = "CANCELLED"] ELSE i)
    /\ KeepRemote /\ Unbroken /\ KeepPage /\ UNCHANGED <<stored, up, asked>>

-----------------------------------------------------------------------------
\* The user, on the page that is open.
Pause(p) ==
    LET r == [up[p] EXCEPT !.pause = TRUE] IN
    /\ item[p].state = "ACTIVE" /\ item[p].attached /\ ~up[p].pause
    /\ up[p].phase \in {"UPLOADING", "VERIFYING"}
    /\ OnlyUp(p, IF r.pc = "sleep" THEN Loop(r) ELSE r) /\ KeepRemote /\ Unbroken

\* resume reads the record, and a resumption in the wrong moment is refused.
Resume(p) ==
    /\ item[p].state = "ACTIVE" /\ item[p].attached /\ item[p].pc = "rest"
    /\ up[p].phase \in {"PAUSED", "PAUSED_ERROR", "PAUSED_VERIFYING"}
    /\ item[p].found = NoRecord
    /\ stored' = List /\ SetItem(p, [item[p] EXCEPT !.found = List])
    /\ KeepRemote /\ Unbroken /\ KeepPage /\ UNCHANGED <<up, asked>>
ResumeRun(p) ==
    LET r == up[p]
        i == [item[p] EXCEPT !.found = NoRecord] IN
    /\ item[p].pc = "rest" /\ item[p].found # NoRecord
    /\ IF r.disposed \/ r.pc # "rest" \/ asked[p] # NoCancel \/ r.outcome # "none"
       THEN SetItem(p, i) /\ UNCHANGED up
       ELSE SetItem(p, [i EXCEPT !.pc = "run"]) /\ SetUp(p, StartRun(r, item[p].found, TRUE))
    /\ KeepRemote /\ Unbroken /\ KeepPage /\ UNCHANGED <<stored, asked>>

Retry(p) ==
    /\ item[p].state = "FAILED" /\ SetItem(p, [item[p] EXCEPT !.state = "QUEUED"])
    /\ KeepRemote /\ Unbroken /\ KeepPage /\ UNCHANGED <<stored, up, asked>>

\* A request to Drive is aborted, kept or not; a sleeper wakes.
Interrupt(p, r) ==
    /\ IF r.pc \in {"UPLOAD", "QUERY"} THEN SetUp(p, Halt(r))
       ELSE IF r.pc = "sleep" THEN SetUp(p, Loop(r)) ELSE SetUp(p, r)
    /\ \/ KeepRemote
       \/ r.pc = "UPLOAD" /\ Arrives(r, UploadEnd(r)) /\ Kept(r.session, UploadEnd(r))

Give(p, state) == SetItem(p, [item[p] EXCEPT !.state = state])

\* cancel of the queue, up to its first request.
CancelItem(p) ==
    LET i == item[p]
        r == up[p] IN
    /\ i.state \in {"QUEUED", "ACTIVE", "FAILED"} /\ asked[p] = NoCancel /\ ~i.pending
    /\ \/ /\ i.state = "QUEUED" \/ (i.state = "FAILED" /\ ~i.known)
          /\ Give(p, "CANCELLED") /\ KeepRemote /\ UNCHANGED <<up, asked>>
       \/ /\ i.state = "ACTIVE" /\ ~(i.known /\ (i.attached \/ r.phase = "CANCELLED"))
          /\ SetItem(p, [i EXCEPT !.pending = TRUE]) /\ KeepRemote /\ UNCHANGED <<up, asked>>
       \/ /\ i.state = "FAILED" /\ i.known /\ ~i.attached
          /\ SetCancel(p, "queue", "asked") /\ KeepRemote /\ UNCHANGED <<up, item>>
       \/ /\ i.state # "QUEUED" /\ i.attached /\ r.current /\ ~r.disposed /\ r.outcome = "none"
          /\ SetCancel(p, "uploader", "asked") /\ UNCHANGED item
          /\ Interrupt(p, [r EXCEPT !.pause = TRUE, !.cancel = TRUE])
    /\ Unbroken /\ KeepPage /\ UNCHANGED stored

\* What is left of a confirmed cancellation whose record could not be deleted.
CleanUp(p) ==
    /\ item[p].state = "ACTIVE" /\ up[p].phase = "CANCELLED" /\ asked[p] = NoCancel
    /\ stored' = NoRecord /\ Give(p, "CANCELLED") /\ SetUp(p, [up[p] EXCEPT !.deleted = "uploader"])
    /\ KeepRemote /\ Unbroken /\ KeepPage /\ UNCHANGED asked

-----------------------------------------------------------------------------
\* upload-cancel of the control plane.
Delete ==
    /\ sent' = "DELETED" /\ whole' = FALSE /\ UNCHANGED arrived
    /\ grants' = [grants EXCEPT !.live = {}]
ServeCancel(p) ==
    /\ asked[p].pc = "asked"
    /\ \/ sent = "READY" /\ KeepRemote /\ Unbroken /\ SetCancel(p, asked[p].by, "refused")
       \/ sent # "READY" /\ Delete /\ Unbroken /\ SetCancel(p, asked[p].by, "confirmed")
       \/ /\ Break /\ SetCancel(p, asked[p].by, "refused")
          /\ KeepRemote \/ (sent # "READY" /\ Delete)
    /\ KeepPage /\ UNCHANGED <<stored, item, up>>

\* An uploader that became READY in the meantime returns as if it had cancelled.
CancelRefused(p) ==
    /\ asked[p].pc = "refused" /\ asked' = [asked EXCEPT ![p] = NoCancel]
    /\ CASE asked[p].by = "uploader" ->
              IF up[p].outcome # "none" THEN Give(p, "CANCELLED") /\ UNCHANGED up
              ELSE SetUp(p, Publish(up[p], "PAUSED_ERROR")) /\ UNCHANGED item
         [] asked[p].by = "settle" ->
              /\ SetItem(p, [item[p] EXCEPT !.pc = "rest", !.state = "FAILED", !.pending = FALSE])
              /\ UNCHANGED up
         [] asked[p].by = "queue" -> UNCHANGED <<item, up>>
    /\ KeepRemote /\ Unbroken /\ KeepPage /\ UNCHANGED stored

CancelConfirmed(p) ==
    /\ asked[p].pc = "confirmed"
    /\ IF asked[p].by = "uploader" /\ up[p].outcome # "none"
       THEN /\ asked' = [asked EXCEPT ![p] = NoCancel]
            /\ Give(p, "CANCELLED") /\ UNCHANGED up
       ELSE /\ SetCancel(p, asked[p].by, "delete") /\ UNCHANGED item
            /\ IF asked[p].by = "uploader"
               THEN SetUp(p, Publish([up[p] EXCEPT !.outcome = "CANCELLED", !.current = FALSE],
                                     "CANCELLED"))
               ELSE UNCHANGED up
    /\ KeepRemote /\ Unbroken /\ KeepPage /\ UNCHANGED stored

\* SLIP (breaks NothingLeftBehind): a write that is under way is not waited for.
DoesNotWait(p) == TRUE

\* The cancellation waits for a write of its own run, then deletes the record.
WriteIsOver(p) == ~AtUp(p, "put")

CancelDelete(p) ==
    LET gone == [item[p] EXCEPT !.pc = IF @ = "settle" THEN "rest" ELSE @, !.pending = FALSE] IN
    /\ asked[p].pc = "delete" /\ WriteIsOver(p)
    /\ asked' = [asked EXCEPT ![p] = NoCancel]
    /\ \/ /\ stored' = NoRecord /\ Unbroken
          /\ SetItem(p, [gone EXCEPT !.state = "CANCELLED"])
          /\ SetUp(p, [up[p] EXCEPT !.deleted = asked[p].by])
       \/ /\ UNCHANGED stored /\ Break /\ SetItem(p, gone)
          /\ SetUp(p, IF asked[p].by = "settle" THEN [up[p] EXCEPT !.phase = "CANCELLED"]
                      ELSE up[p])
    /\ KeepRemote /\ KeepPage

-----------------------------------------------------------------------------
\* The dashboard is left and opened again: the uploader is disposed, the rest
\* of the old page goes on.  Where no record is found, the file chosen again is
\* another upload.
OpenedPage(p) ==
    [NoItem EXCEPT !.state = IF List # NoRecord THEN "QUEUED" ELSE "NONE", !.recovery = List]

Navigate(p) ==
    /\ p < MaxPages /\ page' = p + 1 /\ stored' = List
    /\ item' = [item EXCEPT ![p + 1] = OpenedPage(p + 1)]
    /\ IF item[p].attached
       THEN Interrupt(p, [up[p] EXCEPT !.disposed = TRUE, !.pause = TRUE])
       ELSE KeepRemote /\ UNCHANGED up
    /\ Unbroken /\ UNCHANGED asked

\* The browser is closed or the page loaded anew: what ran in it is gone.
Reload(p) ==
    /\ p < MaxPages /\ page' = p + 1 /\ stored' = List
    /\ item' = [q \in Pages |-> IF q = p + 1 THEN OpenedPage(q) ELSE NoItem]
    /\ up' = [q \in Pages |-> NoUploader] /\ asked' = [q \in Pages |-> NoCancel]
    /\ KeepRemote /\ Unbroken

\* A session's week is over.
Expire ==
    /\ Break
    /\ \E s \in 1 .. grants.opened :
          /\ ~Expired(s)
          /\ grants' = [grants EXCEPT !.expired = @ \union {s}]
    /\ UNCHANGED <<sent, arrived, whole, stored, page, item, up, asked>>

OfUploader(p) ==
    \/ UploadChunk(p) \/ QueryStatus(p) \/ Renew(p) \/ RenewAnswered(p) \/ Complete(p)
    \/ CompleteAnswered(p) \/ Wake(p) \/ PutDone(p) \/ DeleteDone(p)
OfQueue(p) ==
    \/ RunItem(p) \/ Provision(p) \/ Provisioned(p) \/ StoreRecord(p) \/ SettleItem(p)
    \/ ResumeRun(p) \/ ServeCancel(p) \/ CancelRefused(p) \/ CancelConfirmed(p)
    \/ CancelDelete(p)
OfUser(p) ==
    Pause(p) \/ Resume(p) \/ Retry(p) \/ CancelItem(p) \/ CleanUp(p) \/ Navigate(p) \/ Reload(p)

BUNext == Expire \/ OfUser(page) \/ \E p \in Pages : OfUploader(p) \/ OfQueue(p)

BUSpec == BUInit /\ [][BUNext]_buVars

-----------------------------------------------------------------------------
TypeOKBrowserUpload ==
    /\ sent \in {"NONE", "UPLOADING", "READY", "DELETED"} /\ whole \in BOOLEAN
    /\ arrived \in [Sessions -> Sizes] /\ page \in Pages /\ breaks \in 0 .. MaxBreaks
    /\ stored = NoRecord \/ stored \in [session : Sessions, next : Sizes]

\* An upload that is not over can be resumed: while the control plane waits for
\* the file and nobody cancelled, the store has a record, and no record ever
\* names more bytes than Drive holds of its session, whichever of two
\* uploaders, a renewal, a pause, a lost answer or a reload came in between.
ResumableWhileUnfinished ==
    /\ stored # NoRecord => stored.next <= arrived[stored.session]
    /\ /\ \E p \in Pages : item[p].attached
       /\ sent = "UPLOADING" /\ grants.expired = {}
       /\ \A p \in Pages : up[p].deleted = "nobody" /\ asked[p] = NoCancel
       => stored # NoRecord

\* Where a cancellation or a finished upload deleted its record, no write that
\* was under way brings it back, as long as no other page is at the same upload.
NothingLeftBehind ==
    \A p \in Pages :
        /\ up[p].deleted \in {"uploader", "settle"}
        /\ \A q \in Pages \ {p} : item[q].state = "NONE"
        => stored = NoRecord
=============================================================================
