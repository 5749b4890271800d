--------------------------- MODULE PublisherProofs ---------------------------
(***************************************************************************)
(* Proofs about Publisher: the page given out has its assets, and what the *)
(* publisher answers is true, for any number of requests and builds,       *)
(* whichever step fails and wherever the worker dies.                      *)
(*                                                                         *)
(* The invariant says where the worker may be by how far each half of the  *)
(* release, the API and the web files, has been moved, copied or taken     *)
(* back (ApiIsWhere, WebIsWhere), and what the worker's place tells of     *)
(* that (Progress, ProgressOfRestart, ProgressOfUndo): a completed         *)
(* publication has everything in, and a rollback has brought back what was *)
(* there before.                                                           *)
(***************************************************************************)
EXTENDS Publisher, TLAPS

Contents == Builds \cup {Source, None}
Webs == [assets: SUBSET Contents, page: Contents, manifest: Contents]
Apis == Builds \cup {None}
Files == [api: Apis, web: Webs]
Releases == {ReleaseWeb(b) : b \in Builds}
Prepared == [api: Apis, web: {NoWeb} \cup Releases]
Outcomes == {None, "completed", "failed", "rolled back", "needs attention", "interrupted"}

PublishJobs ==
    [request: Requests \cup {None}, mode: {"none", "publish", "restart", "undo"},
     release: Apis, api: {"untouched", "away", "in", "restored"},
     web: {"untouched", "away", "in", "files", "restored"}, backup: Files,
     added: SUBSET Contents, paused: BOOLEAN, wrong: BOOLEAN, before: Files \X Files]

Resting == {"idle", "down", "recovering"}
CopySteps == {"copy assets", "copy page", "copy manifest"}
MoveSteps == {"pause", "move api", "put api", "move web", "put web"}
UndoSteps == {"undo pause", "undo web", "undo page", "undo manifest", "undo added",
              "undo api", "undo resume"}
LastSteps == {"resume", "restart", "await", "verify"}
Underway == {"check"} \cup MoveSteps \cup CopySteps \cup LastSteps \cup UndoSteps

PublisherShape ==
    /\ live \in Files /\ candidate \in Prepared
    /\ running \in Contents
    /\ serving \in BOOLEAN
    /\ asked \in [Requests -> {"publish", "restart"}]
    /\ queue \in [Requests -> {"none", "inbox", "processing", "answered"}]
    /\ result \in [Requests -> Outcomes]
    /\ worker \in Resting \cup {"unlink"} \cup Underway
    /\ job \in PublishJobs
    /\ deaths \in Nat

\* What the worker works on has been taken by it, and is not answered.
TakenOnce ==
    /\ worker \in Resting => job = NoJob
    /\ worker \notin Resting => job.request \in Requests /\ queue[job.request] = "processing"
    /\ worker \in Underway =>
          result[job.request] = None
          /\ (job.mode = "restart" => asked[job.request] = "restart")

Whole(web) == web = NoWeb \/ web.page \in web.assets

WebKept(web) == web = job.before[1].web \/ (job.before[1].web = NoWeb /\ web = SourceWeb)

ApiIsWhere ==
    /\ job.api \in {"untouched", "restored"} =>
          live.api = job.before[1].api /\ candidate.api = job.before[2].api
    /\ job.api = "away" => live.api = None /\ candidate.api = job.before[2].api
    /\ job.api = "in" => live.api = job.before[2].api /\ candidate.api = None
    /\ job.api \in {"away", "in"} => job.backup.api = job.before[1].api

WebIsWhere ==
    /\ job.web \in {"untouched", "restored"} =>
          WebKept(live.web) /\ candidate.web = job.before[2].web
    /\ job.web = "away" => live.web \in {NoWeb, SourceWeb} /\ candidate.web = job.before[2].web
    /\ job.web = "in" => live.web = job.before[2].web /\ live.web # NoWeb /\ candidate.web = NoWeb
    /\ job.web = "files" =>
          /\ candidate.web = job.before[2].web
          /\ live.web.page \in live.web.assets
          /\ job.backup.web.page \in job.backup.web.assets
          /\ job.added \cap job.backup.web.assets = {}
          /\ live.web.assets \cup candidate.web.assets \subseteq job.backup.web.assets \cup job.added
    /\ job.web \in {"away", "in", "files"} => WebKept(job.backup.web) /\ Whole(job.backup.web)
    /\ job.web # "untouched" => job.api # "untouched"

ApiUndone == job.api \in {"untouched", "restored"}
WebUndone == job.web \in {"untouched", "restored"}
             \/ (job.web = "files" /\ live.web = job.backup.web)

\* What is published: all of it has been in the candidate.
ReleaseKnown ==
    /\ job.release \in Builds
    /\ job.before[2] = [api |-> job.release, web |-> ReleaseWeb(job.release)]

IsLive ==
    /\ live.api = job.release
    /\ live.web.page = job.release /\ live.web.manifest = job.release

\* Where the worker is tells how far each part has been moved.
Progress ==
    /\ worker \in {"check"} \cup MoveSteps \cup CopySteps => job.mode \in {"publish", "restart"}
    /\ worker \in {"check", "pause", "move api"} => job.api = "untouched"
    /\ worker \in {"check"} \cup (MoveSteps \ {"put web"}) => job.web = "untouched"
    /\ worker = "put api" => job.api = "away"
    /\ worker \in {"move web", "put web", "resume", "verify"} \cup CopySteps => job.api = "in"
    /\ worker = "put web" => job.web = "away"
    /\ worker \in CopySteps => job.web = "files"
    /\ worker \in {"copy page", "copy manifest"} => candidate.web.assets \subseteq live.web.assets
    /\ worker = "copy manifest" => live.web.page = job.release
    /\ worker \in MoveSteps \cup CopySteps \cup {"resume", "verify"} =>
          job.mode = "publish" /\ ReleaseKnown
    /\ worker \in {"resume", "verify"} => job.web \in {"in", "files"} /\ IsLive
    /\ worker = "verify" => running = job.release

ProgressOfRestart ==
    worker \in {"restart", "await"} =>
       /\ job.mode \in {"publish", "restart", "undo"}
       /\ job.mode = "publish" =>
             /\ ReleaseKnown /\ IsLive
             /\ job.api = "in" /\ job.web \in {"in", "files"}
             /\ worker = "await" => running \in {None, job.release}
       /\ job.mode = "restart" => job.api = "untouched" /\ job.web = "untouched"
       /\ job.mode = "undo" => ~job.wrong /\ ApiUndone /\ WebUndone

ProgressOfUndo ==
    /\ worker \in UndoSteps => job.mode = "undo"
    /\ worker \in {"undo pause", "undo web"} => job.web \in {"away", "in", "files"}
    /\ worker \in {"undo page", "undo manifest", "undo added"} =>
          job.web = "files" /\ job.backup.web.assets \subseteq live.web.assets
    /\ worker \in {"undo manifest", "undo added"} => live.web.page = job.backup.web.page
    /\ worker = "undo added" => live.web.manifest = job.backup.web.manifest
    /\ worker \in UndoSteps \ {"undo api", "undo resume"} => job.api = "in"
    /\ worker = "undo api" => job.api \in {"away", "in"}
    /\ worker \in {"undo api", "undo resume"} /\ ~job.wrong => WebUndone
    /\ worker = "undo resume" /\ ~job.wrong => ApiUndone

Parts == /\ job.before[2] \in Prepared /\ ApiIsWhere /\ WebIsWhere
         /\ Progress /\ ProgressOfRestart /\ ProgressOfUndo

PublisherInv ==
    /\ PublisherShape /\ TakenOnce /\ Whole(live.web)
    /\ worker \in Underway => Parts

-----------------------------------------------------------------------------
LEMMA WebFacts ==
    /\ NoWeb \in Webs /\ SourceWeb \in Webs /\ NoWeb # SourceWeb
    /\ NoWeb.page \notin NoWeb.assets /\ SourceWeb.page \in SourceWeb.assets
    /\ NoWeb.manifest = None
    /\ \A b \in Builds : /\ ReleaseWeb(b) \in Webs /\ ReleaseWeb(b) # NoWeb
                         /\ ReleaseWeb(b).page = b /\ ReleaseWeb(b).manifest = b
                         /\ ReleaseWeb(b).assets = {b}
    /\ Nowhere.api = None /\ Nowhere.web = NoWeb
<1>1. NoWeb.assets = {} /\ SourceWeb.assets = {Source}
  BY DEF NoWeb, SourceWeb
<1>2. NoWeb # SourceWeb
  BY <1>1
<1>3. \A b \in Builds : ReleaseWeb(b).assets = {b}
  BY DEF ReleaseWeb
<1>4. \A b \in Builds : ReleaseWeb(b) # NoWeb
  BY <1>1, <1>3
<1>5. \A b \in Builds : ReleaseWeb(b) \in Webs
  BY DEF ReleaseWeb, Webs, Contents
<1> QED
  BY <1>1, <1>2, <1>3, <1>4, <1>5
     DEF NoWeb, SourceWeb, ReleaseWeb, Nowhere, Webs, Contents

LEMMA FileFacts ==
    /\ Nowhere \in Files /\ Nowhere \in Prepared
    /\ Prepared \subseteq Files
    /\ \A f \in Prepared : Whole(f.web)
<1>1. Nowhere \in Files /\ Nowhere \in Prepared
  BY WebFacts DEF Nowhere, Files, Prepared, Apis
<1>2. {NoWeb} \cup Releases \subseteq Webs
  BY WebFacts DEF Releases
<1>3. Prepared \subseteq Files
  BY <1>2 DEF Prepared, Files
<1>4. \A f \in Prepared : Whole(f.web)
  BY WebFacts DEF Prepared, Releases, Whole
<1> QED
  BY <1>1, <1>3, <1>4

LEMMA NoJobShape ==
    /\ NoJob \in PublishJobs
    /\ NoJob.api = "untouched" /\ NoJob.web = "untouched" /\ NoJob.request = None
<1>1. <<Nowhere, Nowhere>> \in Files \X Files
  BY FileFacts
<1>2. None \in Apis /\ Nowhere \in Files
  BY FileFacts DEF Apis
<1> QED
  BY <1>1, <1>2 DEF NoJob, PublishJobs

LEMMA PublisherStarts == ASSUME PublisherInit PROVE PublisherInv
<1>1. PICK b \in Builds : live = [api |-> b, web |-> ReleaseWeb(b)] /\ running = b
  BY DEF PublisherInit
<1>2. live \in Files /\ Whole(live.web)
  <2> DEFINE w == ReleaseWeb(b)
  <2>1. w \in Webs /\ Whole(w)
    BY WebFacts DEF Whole
  <2>2. live = [api |-> b, web |-> w]
    BY <1>1
  <2> HIDE DEF w
  <2> QED
    BY <2>1, <2>2 DEF Files, Apis
<1>3. PublisherShape
  BY <1>1, <1>2, FileFacts, NoJobShape
     DEF PublisherInit, PublisherShape, Contents, Resting, Outcomes
<1> QED
  BY <1>2, <1>3 DEF PublisherInit, PublisherInv, TakenOnce, Resting, Underway, MoveSteps,
     CopySteps, LastSteps, UndoSteps

LEMMA StepSets ==
    Resting \cap Underway = {} /\ "unlink" \notin Resting \cup Underway
  BY DEF Resting, Underway, MoveSteps, CopySteps, LastSteps, UndoSteps

\* A step of the worker at its work, which answers nothing.
LEMMA GoesOn ==
    ASSUME PublisherInv, worker \in Underway, worker' \in Underway, UNCHANGED requests,
           job' \in PublishJobs, job'.request = job.request,
           job'.mode = "restart" => job.mode = "restart",
           live' \in Files, Whole(live'.web), candidate' \in Prepared,
           running' \in Contents, serving' \in BOOLEAN, Parts'
    PROVE  PublisherInv'
<1>1. PublisherShape'
  BY DEF PublisherInv, PublisherShape, requests
<1>2. TakenOnce'
  BY StepSets DEF PublisherInv, TakenOnce, requests
<1>3. Whole(live.web)'
  BY DEF Whole
<1> QED
  BY <1>1, <1>2, <1>3 DEF PublisherInv

LEMMA AnswerKeeps ==
    ASSUME PublisherInv, worker \in Underway, NEW o \in Outcomes, Answer(o), UNCHANGED files,
           running' \in Contents, serving' \in BOOLEAN
    PROVE  PublisherInv'
<1>1. PublisherShape'
  BY DEF PublisherInv, PublisherShape, Answer, files
<1>2. TakenOnce'
  BY StepSets DEF PublisherInv, TakenOnce, Answer
<1>3. Whole(live.web)'
  BY DEF PublisherInv, Whole, files
<1>4. worker' \notin Underway
  BY StepSets DEF Answer
<1> QED
  BY <1>1, <1>2, <1>3, <1>4 DEF PublisherInv

-----------------------------------------------------------------------------
\* Facts a step of the worker starts from.
LEMMA AtWork ==
    ASSUME PublisherInv, worker \in Underway
    PROVE  /\ PublisherShape /\ Whole(live.web) /\ Parts
           /\ live \in Files /\ candidate \in Prepared /\ job \in PublishJobs
           /\ live.web \in Webs /\ job.backup \in Files /\ job.before[1] \in Files
           /\ job.before[2] \in Prepared
  BY DEF PublisherInv, PublisherShape, PublishJobs, Files, Parts

\* Undoing starts where the parts are.
LEMMA FailsGoOn ==
    ASSUME PublisherInv, worker \in Underway, UNCHANGED files, UNCHANGED requests,
           running' \in Contents, serving' \in BOOLEAN,
           NEW j \in PublishJobs, Fails(j),
           j.request = job.request, j.before = job.before, j.backup = job.backup,
           j.api = job.api, j.web = job.web, j.added = job.added,
           job.api # "restored", job.web # "restored", job.web # "untouched" => job.api = "in"
    PROVE  PublisherInv'
<1> USE AtWork
<1>1. /\ job' \in PublishJobs /\ job'.mode = "undo"
      /\ job'.request = job.request /\ job'.before = job.before /\ job'.backup = job.backup
      /\ job'.api = job.api /\ job'.web = job.web /\ job'.added = job.added
  BY DEF Fails, PublishJobs
<1>2. /\ worker' \in {"undo pause", "undo web", "undo api", "undo resume"}
      /\ worker' \in {"undo pause", "undo web"} => job.web # "untouched"
      /\ worker' = "undo api" => job.web = "untouched" /\ job.api # "untouched"
      /\ worker' = "undo resume" => job.web = "untouched" /\ job.api = "untouched"
  BY DEF Fails, UndoFrom
<1>3. live' = live /\ candidate' = candidate
  BY DEF files
<1>4. ApiIsWhere' /\ WebIsWhere'
  BY <1>1, <1>3 DEF Parts, ApiIsWhere, WebIsWhere, WebKept, Whole
<1>5. Progress' /\ ProgressOfRestart'
  BY <1>1, <1>2 DEF Progress, ProgressOfRestart, MoveSteps, CopySteps
<1>6. job.api \in {"untouched", "away", "in"} /\ job.web \in {"untouched", "away", "in", "files"}
  BY DEF PublishJobs
<1>7. ProgressOfUndo'
  BY <1>1, <1>2, <1>6 DEF ProgressOfUndo, UndoSteps, ApiUndone, WebUndone
<1>8. worker' \in Underway
  BY <1>2 DEF Underway, UndoSteps
<1> QED
  BY <1>1, <1>3, <1>4, <1>5, <1>7, <1>8, GoesOn DEF Parts

-----------------------------------------------------------------------------
\* Requests, deaths and recovery.
LEMMA PrepareKeeps == ASSUME PublisherInv, Prepare PROVE PublisherInv'
<1>1. worker \in Resting
  BY DEF PublisherInv, TakenOnce, Prepare
<1>2. PICK b \in Builds : \/ candidate' = [candidate EXCEPT !.api = b]
                          \/ candidate' = [candidate EXCEPT !.web = ReleaseWeb(b)]
  BY DEF Prepare
<1>3. ReleaseWeb(b) \in Releases
  BY DEF Releases
<1>4. candidate' \in Prepared
  <2> DEFINE w == ReleaseWeb(b)
  <2>1. w \in {NoWeb} \cup Releases /\ candidate \in Prepared
    BY <1>3 DEF PublisherInv, PublisherShape
  <2>2. candidate' = [candidate EXCEPT !.api = b] \/ candidate' = [candidate EXCEPT !.web = w]
    BY <1>2
  <2> HIDE DEF w
  <2> QED
    BY <2>1, <2>2 DEF Prepared, Apis
<1>5. PublisherShape' /\ TakenOnce' /\ Whole(live.web)'
  BY <1>4 DEF Prepare, PublisherInv, PublisherShape, TakenOnce, Whole, requests
<1> QED
  BY <1>1, <1>5, StepSets DEF Prepare, PublisherInv

LEMMA SubmitKeeps ==
    ASSUME PublisherInv, NEW r \in Requests, Submit(r) PROVE PublisherInv'
<1>1. PublisherShape' /\ Whole(live.web)'
  BY DEF Submit, PublisherInv, PublisherShape, Whole, files
<1>2. TakenOnce'
  BY DEF Submit, PublisherInv, PublisherShape, TakenOnce
<1>3. Parts' <=> Parts
  BY DEF Submit, files, Parts, ApiIsWhere, WebIsWhere, WebKept, Whole, Progress,
     ProgressOfRestart, ProgressOfUndo, ApiUndone, WebUndone, ReleaseKnown, IsLive
<1> QED
  BY <1>1, <1>2, <1>3 DEF Submit, PublisherInv

LEMMA DuplicateKeeps ==
    ASSUME PublisherInv, NEW r \in Requests, TakeDuplicate(r) PROVE PublisherInv'
<1>1. PublisherShape' /\ TakenOnce' /\ Whole(live.web)'
  BY StepSets DEF TakeDuplicate, PublisherInv, PublisherShape, TakenOnce, Whole, files, Resting
<1> QED
  BY <1>1, StepSets DEF TakeDuplicate, PublisherInv, Resting

LEMMA TakeKeeps ==
    ASSUME PublisherInv, NEW r \in Requests, Take(r) PROVE PublisherInv'
<1> DEFINE b == <<live, candidate>>
<1>1. b \in Files \X Files /\ b[1] = live /\ b[2] = candidate
  BY FileFacts DEF PublisherInv, PublisherShape
<1>2. job' = [NoJob EXCEPT !.request = r, !.mode = asked[r], !.before = b]
  BY DEF Take, files
<1>3. asked[r] \in {"publish", "restart"}
  BY DEF PublisherInv, PublisherShape
<1> HIDE DEF b
<1>4. /\ job' \in PublishJobs
      /\ job'.request = r /\ job'.mode = asked[r] /\ job'.before = b
      /\ job'.api = "untouched" /\ job'.web = "untouched"
  BY <1>1, <1>2, <1>3, NoJobShape DEF PublishJobs
<1>5. PublisherShape' /\ Whole(live.web)'
  BY <1>4 DEF Take, PublisherInv, PublisherShape, Whole, Underway, files
<1>6. TakenOnce'
  BY <1>3, <1>4 DEF Take, PublisherInv, PublisherShape, TakenOnce, Resting
<1>7. live' = live /\ candidate' = candidate /\ worker' = "check"
  BY DEF Take, files
<1>8. ApiIsWhere' /\ WebIsWhere' /\ job'.before[2] \in Prepared
  BY <1>1, <1>4, <1>7 DEF ApiIsWhere, WebIsWhere, WebKept, PublisherInv, PublisherShape
<1>9. Progress' /\ ProgressOfRestart' /\ ProgressOfUndo'
  BY <1>3, <1>4, <1>7 DEF Progress, ProgressOfRestart, ProgressOfUndo, MoveSteps, CopySteps,
     UndoSteps
<1> QED
  BY <1>5, <1>6, <1>8, <1>9 DEF PublisherInv, Parts

LEMMA UnlinkKeeps == ASSUME PublisherInv, Unlink PROVE PublisherInv'
<1>1. worker' \in Resting /\ worker' = "idle"
  BY DEF Unlink, Resting
<1>2. PublisherShape' /\ TakenOnce' /\ Whole(live.web)'
  BY <1>1, NoJobShape, StepSets
     DEF Unlink, PublisherInv, PublisherShape, TakenOnce, Whole, files
<1> QED
  BY <1>1, <1>2, StepSets DEF PublisherInv

LEMMA DieKeeps == ASSUME PublisherInv, Die PROVE PublisherInv'
<1>1. worker' \in Resting /\ worker' = "down" /\ job' = NoJob
  BY DEF Die, Resting
<1>2. deaths' \in Nat
  BY DEF Die, PublisherInv, PublisherShape
<1>3. running' \in Contents
  BY DEF Die, PublisherInv, PublisherShape, Contents
<1>4. serving' \in BOOLEAN
  BY DEF Die, PublisherInv, PublisherShape
<1>5. PublisherShape'
  BY <1>1, <1>2, <1>3, <1>4, NoJobShape DEF Die, PublisherInv, PublisherShape, files
<1>6. TakenOnce' /\ Whole(live.web)'
  BY <1>1, StepSets DEF Die, PublisherInv, TakenOnce, Whole, files
<1> QED
  BY <1>1, <1>5, <1>6, StepSets DEF PublisherInv

\* Steps of a worker that has no job.
LEMMA RecoveryKeeps ==
    ASSUME PublisherInv,
           Start \/ Recovered \/ \E r \in Requests : RecoverAnswers(r) \/ RecoverUnlinks(r)
    PROVE  PublisherInv'
<1>1. worker \in Resting /\ worker' \in Resting /\ job' = job
  BY DEF Start, Recovered, RecoverAnswers, RecoverUnlinks, Resting
<1>2. PublisherShape' /\ Whole(live.web)'
  BY <1>1 DEF Start, Recovered, RecoverAnswers, RecoverUnlinks, PublisherInv, PublisherShape,
     Whole, files, requests, Outcomes
<1>3. TakenOnce'
  BY <1>1, StepSets DEF PublisherInv, TakenOnce
<1> QED
  BY <1>1, <1>2, <1>3, StepSets DEF PublisherInv

-----------------------------------------------------------------------------
\* The keepers of the processes.
LEMMA StartsApiKeeps == ASSUME PublisherInv, KeepersStartApi PROVE PublisherInv'
<1>1. PublisherShape'
  BY DEF KeepersStartApi, PublisherInv, PublisherShape, Files, Apis, Contents, files, requests
<1>2. TakenOnce' /\ Whole(live.web)'
  BY DEF KeepersStartApi, PublisherInv, TakenOnce, Whole, files, requests
<1>3. ASSUME worker \in Underway PROVE Parts'
  <2>1. live' = live /\ candidate' = candidate /\ worker' = worker /\ job' = job
    BY DEF KeepersStartApi, files
  <2>2. running = None
    BY DEF KeepersStartApi
  <2>3. live.api # None /\ live.api = live.web.manifest => running' = live.api
    BY DEF KeepersStartApi
  <2>4. ApiIsWhere'
    BY <1>3, <2>1, AtWork DEF Parts, ApiIsWhere
  <2>5. WebIsWhere'
    BY <1>3, <2>1, AtWork DEF Parts, WebIsWhere, WebKept, Whole
  <2>6. ProgressOfUndo'
    BY <1>3, <2>1, AtWork DEF Parts, ProgressOfUndo, ApiUndone, WebUndone
  <2>7. worker # "verify"
    <3> SUFFICES ASSUME worker = "verify" PROVE FALSE
      OBVIOUS
    <3>1. running = job.release /\ job.release \in Builds
      BY <1>3, AtWork DEF Parts, Progress, ReleaseKnown
    <3> QED
      BY <2>2, <3>1, PublisherAssumption
  <2>8. Progress'
    BY <1>3, <2>1, <2>7, AtWork DEF Parts, Progress, ReleaseKnown, IsLive
  <2>9. ProgressOfRestart'
    BY <1>3, <2>1, <2>3, AtWork, PublisherAssumption DEF Parts, ProgressOfRestart, ReleaseKnown, IsLive,
       ApiUndone, WebUndone
  <2> QED
    BY <1>3, <2>1, <2>4, <2>5, <2>6, <2>8, <2>9, AtWork DEF Parts
<1> QED
  BY <1>1, <1>2, <1>3 DEF KeepersStartApi, PublisherInv

LEMMA StartsWebKeeps == ASSUME PublisherInv, SupervisorStartsWeb PROVE PublisherInv'
<1>1. PublisherShape' /\ TakenOnce' /\ Whole(live.web)'
  BY DEF SupervisorStartsWeb, PublisherInv, PublisherShape, TakenOnce, Whole, files, requests
<1>2. Parts' <=> Parts
  BY DEF SupervisorStartsWeb, files, Parts, ApiIsWhere, WebIsWhere, WebKept, Whole, Progress,
     ProgressOfRestart, ProgressOfUndo, ApiUndone, WebUndone, ReleaseKnown, IsLive
<1> QED
  BY <1>1, <1>2 DEF SupervisorStartsWeb, PublisherInv

LEMMA BuildsWebKeeps == ASSUME PublisherInv, SupervisorBuildsWeb PROVE PublisherInv'
<1>1. live.web = NoWeb /\ live' \in Files /\ live'.web = SourceWeb /\ live'.api = live.api
  <2> DEFINE w == SourceWeb
  <2>1. w \in Webs /\ live \in Files /\ live' = [live EXCEPT !.web = w] /\ live.web = NoWeb
    BY WebFacts DEF SupervisorBuildsWeb, PublisherInv, PublisherShape
  <2> HIDE DEF w
  <2>2. live' \in Files /\ live'.web = w /\ live'.api = live.api
    BY <2>1 DEF Files
  <2> QED
    BY <2>1, <2>2 DEF w
<1>2. PublisherShape' /\ TakenOnce'
  BY <1>1 DEF SupervisorBuildsWeb, PublisherInv, PublisherShape, TakenOnce, requests
<1>3. Whole(live.web)'
  BY <1>1, WebFacts DEF Whole
<1>4. ASSUME worker \in Underway PROVE Parts'
  <2>1. job.web \in {"untouched", "restored", "away"}
    BY <1>1, <1>4, AtWork, WebFacts DEF Parts, WebIsWhere, PublishJobs
  <2>2. candidate' = candidate /\ worker' = worker /\ job' = job /\ running' = running
    BY DEF SupervisorBuildsWeb
  <2>3. ApiIsWhere' /\ WebIsWhere'
    BY <1>1, <1>4, <2>1, <2>2, AtWork, WebFacts
       DEF Parts, ApiIsWhere, WebIsWhere, WebKept, Whole
  <2>4. Progress'
    BY <1>1, <1>4, <2>1, <2>2, AtWork DEF Parts, Progress, ReleaseKnown, CopySteps
  <2>5. ProgressOfRestart'
    BY <1>1, <1>4, <2>1, <2>2, AtWork DEF Parts, ProgressOfRestart, ApiUndone, WebUndone
  <2>6. ProgressOfUndo'
    BY <1>1, <1>4, <2>1, <2>2, AtWork DEF Parts, ProgressOfUndo, ApiUndone, WebUndone
  <2> QED
    BY <1>4, <2>2, <2>3, <2>4, <2>5, <2>6, AtWork DEF Parts
<1> QED
  BY <1>2, <1>3, <1>4 DEF SupervisorBuildsWeb, PublisherInv

-----------------------------------------------------------------------------
\* Activation.
LEMMA CheckKeeps == ASSUME PublisherInv, Check PROVE PublisherInv'
<1>1. worker = "check" /\ worker \in Underway /\ worker' \in {"restart", "pause"}
  BY DEF Check, Underway
<1>2. live' = live /\ candidate' = candidate /\ running' = running /\ serving' = serving
      /\ UNCHANGED requests
  BY DEF Check, files
<1>3. job.api = "untouched" /\ job.web = "untouched"
  BY <1>1, AtWork DEF Parts, Progress
<1>4. ApiIsWhere /\ WebIsWhere /\ PublisherShape
  BY <1>1, AtWork DEF Parts
<1>5. CASE job.mode = "restart" /\ worker' = "restart" /\ UNCHANGED job
  <2>1. ApiIsWhere' /\ WebIsWhere'
    BY <1>2, <1>4, <1>5 DEF ApiIsWhere, WebIsWhere, WebKept, Whole
  <2>2. Progress' /\ ProgressOfRestart' /\ ProgressOfUndo'
    BY <1>3, <1>5 DEF Progress, ProgressOfRestart, ProgressOfUndo, MoveSteps, CopySteps,
       UndoSteps
  <2> QED
    BY <1>1, <1>2, <1>5, <2>1, <2>2, AtWork, GoesOn DEF Parts, PublisherShape, Underway, LastSteps
<1>6. CASE /\ job.mode = "publish" /\ Releasable /\ worker' = "pause"
           /\ job' = [job EXCEPT !.release = candidate.web.manifest]
  <2>1. candidate.api # None /\ candidate.web # NoWeb /\ candidate.api = candidate.web.manifest
    BY <1>6 DEF Releasable
  <2>2. PICK b \in Builds : candidate.web = ReleaseWeb(b)
    BY <1>4, <2>1 DEF PublisherShape, Prepared, Releases
  <2>3. candidate = [api |-> b, web |-> ReleaseWeb(b)] /\ candidate.web.manifest = b
    <3>1. candidate.web.manifest = b
      BY <2>2, WebFacts
    <3>2. candidate = [api |-> candidate.api, web |-> candidate.web]
      BY <1>4 DEF PublisherShape, Prepared
    <3> QED
      BY <2>1, <2>2, <3>1, <3>2
  <2>4. /\ job' \in PublishJobs /\ job'.release = b /\ job'.mode = "publish"
        /\ job'.request = job.request /\ job'.before = job.before /\ job'.backup = job.backup
        /\ job'.api = "untouched" /\ job'.web = "untouched" /\ job'.added = job.added
    BY <1>3, <1>4, <1>6, <2>3 DEF PublisherShape, PublishJobs, Apis
  <2>5. job.before[2] = candidate
    <3>1. candidate.api = job.before[2].api /\ candidate.web = job.before[2].web
      BY <1>3, <1>4 DEF ApiIsWhere, WebIsWhere
    <3>2. candidate \in Prepared /\ job.before[2] \in Prepared
      BY <1>1, AtWork
    <3> QED
      BY <3>1, <3>2 DEF Prepared
  <2>6. ApiIsWhere' /\ WebIsWhere'
    BY <1>2, <1>3, <1>4, <2>4 DEF ApiIsWhere, WebIsWhere, WebKept, Whole
  <2>7. ReleaseKnown'
    BY <2>3, <2>4, <2>5 DEF ReleaseKnown
  <2>8. Progress' /\ ProgressOfRestart' /\ ProgressOfUndo'
    BY <1>6, <2>4, <2>7 DEF Progress, ProgressOfRestart, ProgressOfUndo, MoveSteps, CopySteps,
       UndoSteps
  <2>9. (job.before[2] \in Prepared)'
    BY <1>1, <2>4, AtWork
  <2> QED
    BY <1>1, <1>2, <1>4, <1>6, <2>4, <2>6, <2>8, <2>9, AtWork, GoesOn
       DEF Parts, PublisherShape, Underway, MoveSteps
<1> QED
  BY <1>5, <1>6 DEF Check

LEMMA PauseKeeps == ASSUME PublisherInv, Pause PROVE PublisherInv'
<1>1. /\ worker = "pause" /\ worker \in Underway /\ worker \in MoveSteps
      /\ serving' \in BOOLEAN /\ running' = running /\ live' = live /\ candidate' = candidate
      /\ UNCHANGED requests /\ UNCHANGED files
  BY DEF Pause, Underway, MoveSteps, files, PublisherInv, PublisherShape
<1>2. job.api = "untouched" /\ job.web = "untouched" /\ job.mode = "publish" /\ ReleaseKnown
  BY <1>1, AtWork DEF Parts, Progress, MoveSteps
<1>3. ApiIsWhere /\ WebIsWhere /\ PublisherShape
  BY <1>1, AtWork DEF Parts
<1> DEFINE j == [job EXCEPT !.paused = TRUE]
<1>4. /\ j \in PublishJobs /\ j.release = job.release /\ j.mode = job.mode
      /\ j.request = job.request /\ j.before = job.before /\ j.backup = job.backup
      /\ j.api = job.api /\ j.web = job.web /\ j.added = job.added
  BY <1>3 DEF PublisherShape, PublishJobs
<1>5. \/ job' = j /\ worker' = "move api"
      \/ Fails(j)
  BY DEF Pause
<1> HIDE DEF j
<1>6. CASE job' = j /\ worker' = "move api"
  <2>1. ApiIsWhere' /\ WebIsWhere'
    BY <1>1, <1>2, <1>3, <1>4, <1>6 DEF ApiIsWhere, WebIsWhere, WebKept, Whole
  <2>2. Progress' /\ ProgressOfRestart' /\ ProgressOfUndo'
    BY <1>2, <1>4, <1>6 DEF Progress, ProgressOfRestart, ProgressOfUndo, MoveSteps, CopySteps,
       UndoSteps, ReleaseKnown
  <2> QED
    BY <1>1, <1>3, <1>4, <1>6, <2>1, <2>2, AtWork, GoesOn
       DEF Parts, PublisherShape, Underway, MoveSteps
<1>7. CASE Fails(j)
  BY <1>1, <1>2, <1>3, <1>4, <1>7, FailsGoOn DEF PublisherShape
<1> QED
  BY <1>5, <1>6, <1>7

\* A step that may fail without having done anything.
LEMMA StepFailsKeeps == ASSUME PublisherInv, StepFails PROVE PublisherInv'
<1>1. /\ worker \in Underway /\ worker \in (MoveSteps \ {"pause"}) \cup CopySteps
      /\ Fails(job) /\ UNCHANGED files /\ UNCHANGED requests
      /\ running' = running /\ serving' = serving
  BY DEF StepFails, Underway, MoveSteps, CopySteps
<1>2. job.api # "restored" /\ job.web # "restored" /\ (job.web # "untouched" => job.api = "in")
  BY <1>1, AtWork DEF Parts, Progress, MoveSteps, CopySteps
<1> QED
  BY <1>1, <1>2, AtWork, FailsGoOn DEF PublisherShape

LEMMA MoveApiKeeps == ASSUME PublisherInv, MoveApiAway PROVE PublisherInv'
<1>1. /\ worker = "move api" /\ worker' = "put api" /\ worker \in Underway /\ worker' \in Underway
      /\ job' = [job EXCEPT !.backup["api"] = live["api"], !["api"] = "away"]
      /\ live' = [live EXCEPT !["api"] = Nowhere["api"]]
      /\ candidate' = candidate /\ running' = running /\ serving' = serving
      /\ UNCHANGED requests
  BY DEF MoveApiAway, MoveAway, Underway, MoveSteps
<1>2. /\ job.api = "untouched" /\ job.web = "untouched" /\ job.mode = "publish" /\ ReleaseKnown
      /\ ApiIsWhere /\ WebIsWhere /\ PublisherShape /\ Whole(live.web)
  BY <1>1, AtWork DEF Parts, Progress, MoveSteps
<1>3. live' \in Files /\ live'.api = None /\ live'.web = live.web
  BY <1>1, <1>2, WebFacts DEF PublisherShape, Files, Apis
<1>4. /\ job' \in PublishJobs /\ job'.release = job.release /\ job'.mode = job.mode
      /\ job'.request = job.request /\ job'.before = job.before /\ job'.backup.api = live.api
      /\ job'.api = "away" /\ job'.web = job.web /\ job'.added = job.added
  BY <1>1, <1>2 DEF PublisherShape, PublishJobs, Files
<1>5. ApiIsWhere' /\ WebIsWhere'
  BY <1>1, <1>2, <1>3, <1>4 DEF ApiIsWhere, WebIsWhere, WebKept, Whole
<1>6. Progress' /\ ProgressOfRestart' /\ ProgressOfUndo'
  BY <1>1, <1>2, <1>4 DEF Progress, ProgressOfRestart, ProgressOfUndo, MoveSteps, CopySteps,
     UndoSteps, ReleaseKnown
<1> QED
  BY <1>1, <1>2, <1>3, <1>4, <1>5, <1>6, AtWork, GoesOn DEF Parts, PublisherShape, Whole

LEMMA PutApiKeeps == ASSUME PublisherInv, PutApi PROVE PublisherInv'
<1>1. /\ worker = "put api" /\ worker' = "move web" /\ worker \in Underway /\ worker' \in Underway
      /\ job' = [job EXCEPT !["api"] = "in"]
      /\ live' = [live EXCEPT !["api"] = candidate["api"]]
      /\ candidate' = [candidate EXCEPT !["api"] = Nowhere["api"]]
      /\ running' = running /\ serving' = serving
      /\ UNCHANGED requests
  BY DEF PutApi, PutInPlace, Underway, MoveSteps
<1>2. /\ job.api = "away" /\ job.web = "untouched" /\ job.mode = "publish" /\ ReleaseKnown
      /\ ApiIsWhere /\ WebIsWhere /\ PublisherShape /\ Whole(live.web)
  BY <1>1, AtWork DEF Parts, Progress, MoveSteps
<1>3. live' \in Files /\ live'.api = candidate.api /\ live'.web = live.web
  BY <1>1, <1>2 DEF PublisherShape, Files, Prepared
<1>4. candidate' \in Prepared /\ candidate'.api = None /\ candidate'.web = candidate.web
  BY <1>1, <1>2, WebFacts DEF PublisherShape, Prepared, Apis
<1>5. /\ job' \in PublishJobs /\ job'.release = job.release /\ job'.mode = job.mode
      /\ job'.request = job.request /\ job'.before = job.before /\ job'.backup = job.backup
      /\ job'.api = "in" /\ job'.web = job.web /\ job'.added = job.added
  BY <1>1, <1>2 DEF PublisherShape, PublishJobs
<1>6. ApiIsWhere' /\ WebIsWhere'
  BY <1>1, <1>2, <1>3, <1>4, <1>5 DEF ApiIsWhere, WebIsWhere, WebKept, Whole
<1>7. Progress' /\ ProgressOfRestart' /\ ProgressOfUndo'
  BY <1>1, <1>2, <1>5 DEF Progress, ProgressOfRestart, ProgressOfUndo, MoveSteps, CopySteps,
     UndoSteps, ReleaseKnown
<1> QED
  BY <1>1, <1>2, <1>3, <1>4, <1>5, <1>6, <1>7, AtWork, GoesOn DEF Parts, PublisherShape, Whole

LEMMA MoveWebKeeps == ASSUME PublisherInv, MoveWebAway PROVE PublisherInv'
<1>1. /\ worker = "move web" /\ worker' = "put web" /\ worker \in Underway /\ worker' \in Underway
      /\ live.web # NoWeb
      /\ job' = [job EXCEPT !.backup["web"] = live["web"], !["web"] = "away"]
      /\ live' = [live EXCEPT !["web"] = Nowhere["web"]]
      /\ candidate' = candidate /\ running' = running /\ serving' = serving
      /\ UNCHANGED requests
  BY WebFacts DEF MoveWebAway, MoveAway, Underway, MoveSteps
<1>2. /\ job.api = "in" /\ job.web = "untouched" /\ job.mode = "publish" /\ ReleaseKnown
      /\ ApiIsWhere /\ WebIsWhere /\ PublisherShape /\ Whole(live.web)
  BY <1>1, AtWork DEF Parts, Progress, MoveSteps
<1>3. live' \in Files /\ live'.web = NoWeb /\ live'.api = live.api
  BY <1>1, <1>2, WebFacts DEF PublisherShape, Files
<1>4. /\ job' \in PublishJobs /\ job'.release = job.release /\ job'.mode = job.mode
      /\ job'.request = job.request /\ job'.before = job.before /\ job'.backup.web = live.web
      /\ job'.backup.api = job.backup.api
      /\ job'.api = job.api /\ job'.web = "away" /\ job'.added = job.added
  BY <1>1, <1>2 DEF PublisherShape, PublishJobs, Files
<1>5. ApiIsWhere' /\ WebIsWhere'
  BY <1>1, <1>2, <1>3, <1>4 DEF ApiIsWhere, WebIsWhere, WebKept, Whole
<1>6. Progress' /\ ProgressOfRestart' /\ ProgressOfUndo'
  BY <1>1, <1>2, <1>4 DEF Progress, ProgressOfRestart, ProgressOfUndo, MoveSteps, CopySteps,
     UndoSteps, ReleaseKnown
<1> QED
  BY <1>1, <1>2, <1>3, <1>4, <1>5, <1>6, AtWork, GoesOn DEF Parts, PublisherShape, Whole

LEMMA PutWebKeeps == ASSUME PublisherInv, PutWeb PROVE PublisherInv'
<1>1. /\ worker = "put web" /\ worker' = "resume" /\ worker \in Underway /\ worker' \in Underway
      /\ job' = [job EXCEPT !["web"] = "in"]
      /\ live' = [live EXCEPT !["web"] = candidate["web"]]
      /\ candidate' = [candidate EXCEPT !["web"] = Nowhere["web"]]
      /\ running' = running /\ serving' = serving
      /\ UNCHANGED requests
  BY DEF PutWeb, PutInPlace, Underway, MoveSteps, LastSteps
<1>2. /\ job.api = "in" /\ job.web = "away" /\ job.mode = "publish" /\ ReleaseKnown
      /\ ApiIsWhere /\ WebIsWhere /\ PublisherShape /\ Whole(live.web)
  BY <1>1, AtWork DEF Parts, Progress, MoveSteps
<1>3. /\ candidate.web = ReleaseWeb(job.release) /\ candidate.web # NoWeb
      /\ candidate.web \in Webs /\ Whole(candidate.web) /\ live.api = job.release
      /\ candidate.web.page = job.release /\ candidate.web.manifest = job.release
  BY <1>2, WebFacts DEF ReleaseKnown, WebIsWhere, ApiIsWhere, Whole
<1>4. live' \in Files /\ live'.web = candidate.web /\ live'.api = live.api
  BY <1>1, <1>2, <1>3 DEF PublisherShape, Files
<1>5. candidate' \in Prepared /\ candidate'.web = NoWeb /\ candidate'.api = candidate.api
  BY <1>1, <1>2, WebFacts DEF PublisherShape, Prepared
<1>6. /\ job' \in PublishJobs /\ job'.release = job.release /\ job'.mode = job.mode
      /\ job'.request = job.request /\ job'.before = job.before /\ job'.backup = job.backup
      /\ job'.api = job.api /\ job'.web = "in" /\ job'.added = job.added
  BY <1>1, <1>2 DEF PublisherShape, PublishJobs
<1>7. ApiIsWhere' /\ WebIsWhere'
  BY <1>2, <1>3, <1>4, <1>5, <1>6 DEF ApiIsWhere, WebIsWhere, WebKept, Whole
<1>8. Progress' /\ ProgressOfRestart' /\ ProgressOfUndo'
  BY <1>1, <1>2, <1>3, <1>4, <1>6 DEF Progress, ProgressOfRestart, ProgressOfUndo, MoveSteps,
     CopySteps, UndoSteps, ReleaseKnown, IsLive
<1> QED
  BY <1>1, <1>2, <1>3, <1>4, <1>5, <1>6, <1>7, <1>8, AtWork, GoesOn DEF Parts, PublisherShape

LEMMA CopyAwayKeeps == ASSUME PublisherInv, CopyWebAway PROVE PublisherInv'
<1> DEFINE new == candidate.web.assets \ live.web.assets
<1>1. /\ worker = "move web" /\ worker' = "copy assets"
      /\ worker \in Underway /\ worker' \in Underway
      /\ live.web # NoWeb /\ live' = live
      /\ job' = [job EXCEPT !.backup.web = live.web, !.web = "files", !.added = new]
      /\ candidate' = candidate /\ running' = running /\ serving' = serving
      /\ UNCHANGED requests
  BY DEF CopyWebAway, Underway, MoveSteps, CopySteps, files
<1>2. /\ job.api = "in" /\ job.web = "untouched" /\ job.mode = "publish" /\ ReleaseKnown
      /\ ApiIsWhere /\ WebIsWhere /\ PublisherShape /\ Whole(live.web)
  BY <1>1, AtWork DEF Parts, Progress, MoveSteps
<1>3. new \in SUBSET Contents /\ live.web \in Webs
  BY <1>1, AtWork, FileFacts DEF Files, Webs
<1>4. new \cap live.web.assets = {} /\ candidate.web.assets \subseteq live.web.assets \cup new
  OBVIOUS
<1> HIDE DEF new
<1>5. /\ job' \in PublishJobs /\ job'.release = job.release /\ job'.mode = job.mode
      /\ job'.request = job.request /\ job'.before = job.before /\ job'.backup.web = live.web
      /\ job'.backup.api = job.backup.api
      /\ job'.api = job.api /\ job'.web = "files" /\ job'.added = new
  BY <1>1, <1>2, <1>3 DEF PublisherShape, PublishJobs, Files
<1>6. live.web.page \in live.web.assets
  BY <1>1, <1>2 DEF Whole
<1>7. ApiIsWhere' /\ WebIsWhere'
  BY <1>1, <1>2, <1>4, <1>5, <1>6 DEF ApiIsWhere, WebIsWhere, WebKept, Whole
<1>8. Progress' /\ ProgressOfRestart' /\ ProgressOfUndo'
  BY <1>1, <1>2, <1>5 DEF Progress, ProgressOfRestart, ProgressOfUndo, MoveSteps, CopySteps,
     UndoSteps, ReleaseKnown
<1> QED
  BY <1>1, <1>2, <1>5, <1>7, <1>8, AtWork, GoesOn DEF Parts, PublisherShape, Whole

-----------------------------------------------------------------------------
\* The live web directory is written file by file, on the way and on the way back.
LEMMA Copied ==
    ASSUME PublisherInv, NEW step, NEW next, NEW w \in Webs, CopyFile(step, next, w)
    PROVE  /\ worker = step /\ worker' = next
           /\ live' \in Files /\ live'.web = w /\ live'.api = live.api
           /\ candidate' = candidate /\ running' = running /\ serving' = serving /\ job' = job
           /\ UNCHANGED requests
  BY DEF CopyFile, PublisherInv, PublisherShape, Files

LEMMA CopyAssetsKeeps == ASSUME PublisherInv, CopyAssets PROVE PublisherInv'
<1> DEFINE assets == live.web.assets \cup candidate.web.assets
           w == [live.web EXCEPT !.assets = assets]
<1>1. worker = "copy assets" /\ worker \in Underway
  BY DEF CopyAssets, CopyFile, Underway, CopySteps
<1>2. /\ job.api = "in" /\ job.web = "files" /\ job.mode = "publish" /\ ReleaseKnown
      /\ ApiIsWhere /\ WebIsWhere /\ PublisherShape
  BY <1>1, AtWork DEF Parts, Progress, CopySteps
<1>3. assets \in SUBSET Contents /\ live.web \in Webs
  BY <1>1, AtWork, FileFacts DEF Files, Webs
<1>4. live.web.assets \subseteq assets /\ candidate.web.assets \subseteq assets
  OBVIOUS
<1>5. assets \cup candidate.web.assets \subseteq job.backup.web.assets \cup job.added
  BY <1>2 DEF WebIsWhere
<1>6. CopyFile("copy assets", "copy page", w)
  BY DEF CopyAssets
<1> HIDE DEF assets
<1>7. /\ w \in Webs /\ w.assets = assets /\ w.page = live.web.page
      /\ w.manifest = live.web.manifest
  BY <1>3 DEF Webs
<1> HIDE DEF w
<1>8. /\ worker' = "copy page" /\ live' \in Files /\ live'.web = w /\ live'.api = live.api
      /\ candidate' = candidate /\ running' = running /\ serving' = serving /\ job' = job
      /\ UNCHANGED requests
  BY <1>6, <1>7, Copied
<1>9. w.page \in w.assets
  BY <1>2, <1>4, <1>7 DEF WebIsWhere
<1>10. ApiIsWhere' /\ WebIsWhere'
  BY <1>2, <1>5, <1>7, <1>8, <1>9 DEF ApiIsWhere, WebIsWhere, WebKept, Whole
<1>11. Progress' /\ ProgressOfRestart' /\ ProgressOfUndo'
  BY <1>2, <1>4, <1>7, <1>8 DEF Progress, ProgressOfRestart, ProgressOfUndo, MoveSteps, CopySteps,
     UndoSteps, ReleaseKnown
<1> QED
  BY <1>1, <1>2, <1>8, <1>9, <1>10, <1>11, AtWork, GoesOn
     DEF Parts, PublisherShape, Whole, Underway, CopySteps

LEMMA CopyPageKeeps == ASSUME PublisherInv, CopyPage PROVE PublisherInv'
<1> DEFINE page == candidate.web.page
           w == [live.web EXCEPT !.page = page]
<1>1. worker = "copy page" /\ worker \in Underway
  BY DEF CopyPage, CopyFile, Underway, CopySteps
<1>2. /\ job.api = "in" /\ job.web = "files" /\ job.mode = "publish" /\ ReleaseKnown
      /\ ApiIsWhere /\ WebIsWhere /\ PublisherShape
      /\ candidate.web.assets \subseteq live.web.assets
  BY <1>1, AtWork DEF Parts, Progress, CopySteps
<1>3. page = job.release /\ page \in candidate.web.assets /\ page \in Contents
  BY <1>2, WebFacts DEF ReleaseKnown, WebIsWhere, Contents
<1>4. live.web \in Webs
  BY <1>1, AtWork
<1>5. CopyFile("copy page", "copy manifest", w)
  BY DEF CopyPage
<1> HIDE DEF page
<1>6. /\ w \in Webs /\ w.assets = live.web.assets /\ w.page = page
      /\ w.manifest = live.web.manifest
  BY <1>3, <1>4 DEF Webs
<1> HIDE DEF w
<1>7. /\ worker' = "copy manifest" /\ live' \in Files /\ live'.web = w /\ live'.api = live.api
      /\ candidate' = candidate /\ running' = running /\ serving' = serving /\ job' = job
      /\ UNCHANGED requests
  BY <1>5, <1>6, Copied
<1>8. w.page \in w.assets
  BY <1>2, <1>3, <1>6
<1>9. ApiIsWhere' /\ WebIsWhere'
  BY <1>2, <1>6, <1>7, <1>8 DEF ApiIsWhere, WebIsWhere, WebKept, Whole
<1>10. Progress' /\ ProgressOfRestart' /\ ProgressOfUndo'
  BY <1>2, <1>3, <1>6, <1>7 DEF Progress, ProgressOfRestart, ProgressOfUndo, MoveSteps, CopySteps,
     UndoSteps, ReleaseKnown
<1> QED
  BY <1>1, <1>2, <1>7, <1>8, <1>9, <1>10, AtWork, GoesOn
     DEF Parts, PublisherShape, Whole, Underway, CopySteps

LEMMA CopyManifestKeeps == ASSUME PublisherInv, CopyManifest PROVE PublisherInv'
<1> DEFINE manifest == candidate.web.manifest
           w == [live.web EXCEPT !.manifest = manifest]
<1>1. worker = "copy manifest" /\ worker \in Underway
  BY DEF CopyManifest, CopyFile, Underway, CopySteps
<1>2. /\ job.api = "in" /\ job.web = "files" /\ job.mode = "publish" /\ ReleaseKnown
      /\ ApiIsWhere /\ WebIsWhere /\ PublisherShape /\ live.web.page = job.release
  BY <1>1, AtWork DEF Parts, Progress, CopySteps
<1>3. manifest = job.release /\ manifest \in Contents /\ live.api = job.release
  BY <1>2, WebFacts DEF ReleaseKnown, WebIsWhere, ApiIsWhere, Contents
<1>4. live.web \in Webs
  BY <1>1, AtWork
<1>5. CopyFile("copy manifest", "resume", w)
  BY DEF CopyManifest
<1> HIDE DEF manifest
<1>6. /\ w \in Webs /\ w.assets = live.web.assets /\ w.page = live.web.page
      /\ w.manifest = manifest
  BY <1>3, <1>4 DEF Webs
<1> HIDE DEF w
<1>7. /\ worker' = "resume" /\ live' \in Files /\ live'.web = w /\ live'.api = live.api
      /\ candidate' = candidate /\ running' = running /\ serving' = serving /\ job' = job
      /\ UNCHANGED requests
  BY <1>5, <1>6, Copied
<1>8. w.page \in w.assets
  BY <1>2, <1>6 DEF WebIsWhere
<1>9. ApiIsWhere' /\ WebIsWhere'
  BY <1>2, <1>6, <1>7, <1>8 DEF ApiIsWhere, WebIsWhere, WebKept, Whole
<1>10. Progress' /\ ProgressOfRestart' /\ ProgressOfUndo'
  BY <1>2, <1>3, <1>6, <1>7 DEF Progress, ProgressOfRestart, ProgressOfUndo, MoveSteps, CopySteps,
     UndoSteps, ReleaseKnown, IsLive
<1> QED
  BY <1>1, <1>2, <1>7, <1>8, <1>9, <1>10, AtWork, GoesOn
     DEF Parts, PublisherShape, Whole, Underway, LastSteps

-----------------------------------------------------------------------------
\* Restart and verification.
LEMMA ResumeKeeps == ASSUME PublisherInv, Resume PROVE PublisherInv'
<1>1. /\ worker = "resume" /\ worker \in Underway
      /\ live' = live /\ candidate' = candidate /\ UNCHANGED files
      /\ running' = running /\ UNCHANGED requests
  BY DEF Resume, Underway, LastSteps, files
<1>2. serving' \in BOOLEAN
  BY DEF Resume, PublisherInv, PublisherShape
<1>3. /\ job.api = "in" /\ job.web \in {"in", "files"} /\ job.mode = "publish"
      /\ ReleaseKnown /\ IsLive /\ ApiIsWhere /\ WebIsWhere /\ PublisherShape
  BY <1>1, AtWork DEF Parts, Progress
<1> DEFINE j == [job EXCEPT !.paused = FALSE]
<1>4. /\ j \in PublishJobs /\ j.release = job.release /\ j.mode = job.mode
      /\ j.request = job.request /\ j.before = job.before /\ j.backup = job.backup
      /\ j.api = job.api /\ j.web = job.web /\ j.added = job.added
  BY <1>3 DEF PublisherShape, PublishJobs
<1>5. (job' = j /\ worker' = "restart") \/ Fails(job)
  BY DEF Resume
<1> HIDE DEF j
<1>6. CASE job' = j /\ worker' = "restart"
  <2>1. ApiIsWhere' /\ WebIsWhere'
    BY <1>1, <1>3, <1>4, <1>6 DEF ApiIsWhere, WebIsWhere, WebKept, Whole
  <2>2. Progress' /\ ProgressOfRestart' /\ ProgressOfUndo'
    BY <1>1, <1>3, <1>4, <1>6 DEF Progress, ProgressOfRestart, ProgressOfUndo, MoveSteps,
       CopySteps, UndoSteps, ReleaseKnown, IsLive
  <2> QED
    BY <1>1, <1>2, <1>3, <1>4, <1>6, <2>1, <2>2, AtWork, GoesOn
       DEF Parts, PublisherShape, Underway, LastSteps
<1>7. CASE Fails(job)
  BY <1>1, <1>2, <1>3, <1>7, FailsGoOn DEF PublisherShape
<1> QED
  BY <1>5, <1>6, <1>7

LEMMA RestartKillsKeeps == ASSUME PublisherInv, RestartKills PROVE PublisherInv'
<1>1. /\ worker = "restart" /\ worker' = "await" /\ worker \in Underway /\ worker' \in Underway
      /\ live' = live /\ candidate' = candidate /\ job' = job /\ running' = None
      /\ serving' = serving /\ UNCHANGED requests
  BY DEF RestartKills, Underway, LastSteps, files
<1>2. ApiIsWhere /\ WebIsWhere /\ PublisherShape /\ ProgressOfRestart /\ Whole(live.web)
  BY <1>1, AtWork DEF Parts
<1>3. ApiIsWhere' /\ WebIsWhere'
  BY <1>1, <1>2 DEF ApiIsWhere, WebIsWhere, WebKept, Whole
<1>4. ProgressOfRestart'
  BY <1>1, <1>2 DEF ProgressOfRestart, ReleaseKnown, IsLive, ApiUndone, WebUndone
<1>5. Progress' /\ ProgressOfUndo'
  BY <1>1 DEF Progress, ProgressOfUndo, MoveSteps, CopySteps, UndoSteps
<1> QED
  BY <1>1, <1>2, <1>3, <1>4, <1>5, AtWork, GoesOn DEF Parts, PublisherShape, Contents

LEMMA RestartDoneKeeps == ASSUME PublisherInv, RestartDone PROVE PublisherInv'
<1>1. /\ worker = "await" /\ worker \in Underway /\ running # None
      /\ live' = live /\ candidate' = candidate /\ UNCHANGED files
      /\ running' = running /\ serving' = serving
  BY DEF RestartDone, Underway, LastSteps, files
<1>2. ApiIsWhere /\ WebIsWhere /\ PublisherShape /\ ProgressOfRestart /\ Whole(live.web)
  BY <1>1, AtWork DEF Parts
<1>3. CASE job.mode = "publish" /\ worker' = "verify" /\ UNCHANGED requests /\ UNCHANGED job
  <2>1. ApiIsWhere' /\ WebIsWhere'
    BY <1>1, <1>2, <1>3 DEF ApiIsWhere, WebIsWhere, WebKept, Whole
  <2>2. Progress'
    BY <1>1, <1>2, <1>3 DEF Progress, ProgressOfRestart, ReleaseKnown, IsLive, MoveSteps, CopySteps
  <2>3. ProgressOfRestart' /\ ProgressOfUndo'
    BY <1>3 DEF ProgressOfRestart, ProgressOfUndo, UndoSteps
  <2> QED
    BY <1>1, <1>2, <1>3, <2>1, <2>2, <2>3, AtWork, GoesOn
       DEF Parts, PublisherShape, Underway, LastSteps
<1>4. CASE Answer("completed") \/ Answer("rolled back")
  BY <1>1, <1>2, <1>4, AnswerKeeps DEF PublisherShape, Outcomes
<1> QED
  BY <1>3, <1>4 DEF RestartDone

LEMMA RestartFailsKeeps == ASSUME PublisherInv, RestartFails PROVE PublisherInv'
<1>1. /\ worker \in {"restart", "await"} /\ worker \in Underway
      /\ UNCHANGED files /\ running' = running /\ serving' = serving
  BY DEF RestartFails, Underway, LastSteps
<1>2. PublisherShape /\ ProgressOfRestart
  BY <1>1, AtWork DEF Parts
<1>3. CASE job.mode = "publish" /\ Fails(job) /\ UNCHANGED requests
  <2>1. job.api = "in" /\ job.web \in {"in", "files"}
    BY <1>1, <1>2, <1>3 DEF ProgressOfRestart
  <2> QED
    BY <1>1, <1>2, <1>3, <2>1, FailsGoOn DEF PublisherShape
<1>4. CASE Answer("failed") \/ Answer("needs attention")
  BY <1>1, <1>2, <1>4, AnswerKeeps DEF PublisherShape, Outcomes
<1> QED
  BY <1>3, <1>4 DEF RestartFails

LEMMA VerifyKeeps == ASSUME PublisherInv, Verify PROVE PublisherInv'
<1>1. /\ worker = "verify" /\ worker \in Underway
      /\ UNCHANGED files /\ running' = running /\ serving' = serving
  BY DEF Verify, Underway, LastSteps
<1>2. PublisherShape /\ job.api = "in" /\ job.web \in {"in", "files"}
  BY <1>1, AtWork DEF Parts, Progress
<1>3. CASE Fails(job) /\ UNCHANGED requests
  BY <1>1, <1>2, <1>3, FailsGoOn DEF PublisherShape
<1>4. CASE Answer("completed")
  BY <1>1, <1>2, <1>4, AnswerKeeps DEF PublisherShape, Outcomes
<1> QED
  BY <1>3, <1>4 DEF Verify

LEMMA RefuseKeeps == ASSUME PublisherInv, Refuse PROVE PublisherInv'
<1>1. /\ worker \in Underway /\ UNCHANGED files /\ running' = running /\ serving' = serving
      /\ Answer("failed")
  BY DEF Refuse, Underway
<1> QED
  BY <1>1, AtWork, AnswerKeeps DEF PublisherShape, Outcomes

-----------------------------------------------------------------------------
\* Undoing.
LEMMA UndoPauseKeeps == ASSUME PublisherInv, UndoPause PROVE PublisherInv'
<1>1. /\ worker = "undo pause" /\ worker' = "undo web" /\ worker \in Underway /\ worker' \in Underway
      /\ live' = live /\ candidate' = candidate /\ running' = running /\ UNCHANGED requests
  BY DEF UndoPause, Underway, UndoSteps, files
<1>2. serving' \in BOOLEAN
  BY DEF UndoPause, PublisherInv, PublisherShape
<1>3. /\ job.mode = "undo" /\ job.web \in {"away", "in", "files"} /\ job.api = "in"
      /\ ApiIsWhere /\ WebIsWhere /\ PublisherShape /\ Whole(live.web)
  BY <1>1, AtWork DEF Parts, ProgressOfUndo, UndoSteps
<1>4. /\ job' \in PublishJobs /\ job'.release = job.release /\ job'.mode = job.mode
      /\ job'.request = job.request /\ job'.before = job.before /\ job'.backup = job.backup
      /\ job'.api = job.api /\ job'.web = job.web /\ job'.added = job.added
  BY <1>3 DEF UndoPause, PublisherShape, PublishJobs
<1>5. ApiIsWhere' /\ WebIsWhere'
  BY <1>1, <1>3, <1>4 DEF ApiIsWhere, WebIsWhere, WebKept, Whole
<1>6. Progress' /\ ProgressOfRestart' /\ ProgressOfUndo'
  BY <1>1, <1>3, <1>4 DEF Progress, ProgressOfRestart, ProgressOfUndo, MoveSteps, CopySteps,
     UndoSteps
<1> QED
  BY <1>1, <1>2, <1>3, <1>4, <1>5, <1>6, AtWork, GoesOn DEF Parts, PublisherShape, Whole

LEMMA TakeWebOutKeeps == ASSUME PublisherInv, TakeOut("web", "undo web") PROVE PublisherInv'
<1>1. /\ worker = "undo web" /\ worker' = worker /\ worker \in Underway /\ job.web = "in"
      /\ candidate' = [candidate EXCEPT !["web"] = live["web"]]
      /\ live' = [live EXCEPT !["web"] = Nowhere["web"]]
      /\ job' = [job EXCEPT !["web"] = "away"]
      /\ running' = running /\ serving' = serving /\ UNCHANGED requests
  BY DEF TakeOut, Underway, UndoSteps
<1>2. /\ job.mode = "undo" /\ job.api = "in" /\ job.before[2] \in Prepared
      /\ ApiIsWhere /\ WebIsWhere /\ PublisherShape /\ Whole(live.web)
  BY <1>1, AtWork DEF Parts, ProgressOfUndo, UndoSteps
<1>3. live.web = job.before[2].web /\ live.web \in {NoWeb} \cup Releases
  BY <1>1, <1>2 DEF WebIsWhere, Prepared
<1>4. live' \in Files /\ live'.web = NoWeb /\ live'.api = live.api
  BY <1>1, <1>2, WebFacts DEF PublisherShape, Files
<1>5. candidate' \in Prepared /\ candidate'.web = live.web /\ candidate'.api = candidate.api
  BY <1>1, <1>2, <1>3 DEF PublisherShape, Prepared
<1>6. /\ job' \in PublishJobs /\ job'.release = job.release /\ job'.mode = job.mode
      /\ job'.request = job.request /\ job'.before = job.before /\ job'.backup = job.backup
      /\ job'.api = job.api /\ job'.web = "away" /\ job'.added = job.added
  BY <1>1, <1>2 DEF PublisherShape, PublishJobs
<1>7. ApiIsWhere' /\ WebIsWhere'
  BY <1>1, <1>2, <1>3, <1>4, <1>5, <1>6 DEF ApiIsWhere, WebIsWhere, WebKept, Whole
<1>8. Progress' /\ ProgressOfRestart' /\ ProgressOfUndo'
  BY <1>1, <1>2, <1>6 DEF Progress, ProgressOfRestart, ProgressOfUndo, MoveSteps, CopySteps,
     UndoSteps
<1> QED
  BY <1>1, <1>2, <1>4, <1>5, <1>6, <1>7, <1>8, AtWork, GoesOn DEF Parts, PublisherShape, Whole

LEMMA TakeApiOutKeeps == ASSUME PublisherInv, TakeOut("api", "undo api") PROVE PublisherInv'
<1>1. /\ worker = "undo api" /\ worker' = worker /\ worker \in Underway /\ job.api = "in"
      /\ candidate' = [candidate EXCEPT !["api"] = live["api"]]
      /\ live' = [live EXCEPT !["api"] = Nowhere["api"]]
      /\ job' = [job EXCEPT !["api"] = "away"]
      /\ running' = running /\ serving' = serving /\ UNCHANGED requests
  BY DEF TakeOut, Underway, UndoSteps
<1>2. /\ job.mode = "undo" /\ (~job.wrong => WebUndone)
      /\ ApiIsWhere /\ WebIsWhere /\ PublisherShape /\ Whole(live.web)
  BY <1>1, AtWork DEF Parts, ProgressOfUndo, UndoSteps
<1>3. live' \in Files /\ live'.api = None /\ live'.web = live.web
  BY <1>1, <1>2, WebFacts DEF PublisherShape, Files, Apis
<1>4. candidate' \in Prepared /\ candidate'.api = live.api /\ candidate'.web = candidate.web
  BY <1>1, <1>2 DEF PublisherShape, Prepared, Files
<1>5. /\ job' \in PublishJobs /\ job'.release = job.release /\ job'.mode = job.mode
      /\ job'.request = job.request /\ job'.before = job.before /\ job'.backup = job.backup
      /\ job'.api = "away" /\ job'.web = job.web /\ job'.added = job.added
      /\ job'.wrong = job.wrong
  BY <1>1, <1>2 DEF PublisherShape, PublishJobs
<1>6. ApiIsWhere' /\ WebIsWhere'
  BY <1>1, <1>2, <1>3, <1>4, <1>5 DEF ApiIsWhere, WebIsWhere, WebKept, Whole
<1>7. Progress' /\ ProgressOfRestart' /\ ProgressOfUndo'
  BY <1>1, <1>2, <1>3, <1>5 DEF Progress, ProgressOfRestart, ProgressOfUndo, MoveSteps, CopySteps,
     UndoSteps, WebUndone
<1> QED
  BY <1>1, <1>2, <1>3, <1>4, <1>5, <1>6, <1>7, AtWork, GoesOn DEF Parts, PublisherShape, Whole

LEMMA PutWebBackKeeps == ASSUME PublisherInv, PutBack("web", "undo web") PROVE PublisherInv'
<1>1. /\ worker = "undo web" /\ worker' = "undo api" /\ worker \in Underway /\ worker' \in Underway
      /\ job.web = "away"
      /\ live' = [live EXCEPT !["web"] = job.backup["web"]]
      /\ job' = [job EXCEPT !["web"] = "restored"]
      /\ candidate' = candidate
      /\ running' = running /\ serving' = serving /\ UNCHANGED requests
  BY DEF PutBack, AfterPart, Underway, UndoSteps
<1>2. /\ job.mode = "undo" /\ job.api = "in"
      /\ ApiIsWhere /\ WebIsWhere /\ PublisherShape
  BY <1>1, AtWork DEF Parts, ProgressOfUndo, UndoSteps
<1>3. job.backup.web \in Webs /\ WebKept(job.backup.web) /\ Whole(job.backup.web)
  BY <1>1, <1>2, AtWork DEF WebIsWhere, Files
<1>4. live' \in Files /\ live'.web = job.backup.web /\ live'.api = live.api
  BY <1>1, <1>2, <1>3 DEF PublisherShape, Files
<1>5. /\ job' \in PublishJobs /\ job'.release = job.release /\ job'.mode = job.mode
      /\ job'.request = job.request /\ job'.before = job.before /\ job'.backup = job.backup
      /\ job'.api = job.api /\ job'.web = "restored" /\ job'.added = job.added
  BY <1>1, <1>2 DEF PublisherShape, PublishJobs
<1>6. ApiIsWhere' /\ WebIsWhere'
  BY <1>1, <1>2, <1>3, <1>4, <1>5 DEF ApiIsWhere, WebIsWhere, WebKept, Whole
<1>7. Progress' /\ ProgressOfRestart' /\ ProgressOfUndo'
  BY <1>1, <1>2, <1>5 DEF Progress, ProgressOfRestart, ProgressOfUndo, MoveSteps, CopySteps,
     UndoSteps, WebUndone
<1> QED
  BY <1>1, <1>2, <1>3, <1>4, <1>5, <1>6, <1>7, AtWork, GoesOn DEF Parts, PublisherShape

LEMMA PutApiBackKeeps == ASSUME PublisherInv, PutBack("api", "undo api") PROVE PublisherInv'
<1>1. /\ worker = "undo api" /\ worker' = "undo resume"
      /\ worker \in Underway /\ worker' \in Underway
      /\ job.api = "away"
      /\ live' = [live EXCEPT !["api"] = job.backup["api"]]
      /\ job' = [job EXCEPT !["api"] = "restored"]
      /\ candidate' = candidate
      /\ running' = running /\ serving' = serving /\ UNCHANGED requests
  BY DEF PutBack, AfterPart, Underway, UndoSteps
<1>2. /\ job.mode = "undo" /\ (~job.wrong => WebUndone)
      /\ ApiIsWhere /\ WebIsWhere /\ PublisherShape /\ Whole(live.web)
  BY <1>1, AtWork DEF Parts, ProgressOfUndo, UndoSteps
<1>3. job.backup.api \in Apis
  BY <1>1, AtWork DEF Files
<1>4. live' \in Files /\ live'.api = job.backup.api /\ live'.web = live.web
  BY <1>1, <1>2, <1>3 DEF PublisherShape, Files
<1>5. /\ job' \in PublishJobs /\ job'.release = job.release /\ job'.mode = job.mode
      /\ job'.request = job.request /\ job'.before = job.before /\ job'.backup = job.backup
      /\ job'.api = "restored" /\ job'.web = job.web /\ job'.added = job.added
      /\ job'.wrong = job.wrong
  BY <1>1, <1>2 DEF PublisherShape, PublishJobs
<1>6. ApiIsWhere' /\ WebIsWhere'
  BY <1>1, <1>2, <1>4, <1>5 DEF ApiIsWhere, WebIsWhere, WebKept, Whole
<1>7. Progress' /\ ProgressOfRestart' /\ ProgressOfUndo'
  BY <1>1, <1>2, <1>4, <1>5 DEF Progress, ProgressOfRestart, ProgressOfUndo, MoveSteps, CopySteps,
     UndoSteps, WebUndone, ApiUndone
<1> QED
  BY <1>1, <1>2, <1>4, <1>5, <1>6, <1>7, AtWork, GoesOn DEF Parts, PublisherShape, Whole

\* Facts about a web directory that is being restored file by file.
LEMMA Restoring ==
    ASSUME PublisherInv, worker \in UndoSteps, job.web = "files"
    PROVE  /\ worker \in Underway /\ job.mode = "undo"
           /\ ApiIsWhere /\ WebIsWhere /\ PublisherShape
           /\ live.web \in Webs /\ job.backup.web \in Webs
  BY AtWork DEF Underway, Parts, ProgressOfUndo, Files

LEMMA RestoreAssetsKeeps == ASSUME PublisherInv, RestoreAssets PROVE PublisherInv'
<1> DEFINE assets == live.web.assets \cup job.backup.web.assets
           w == [live.web EXCEPT !.assets = assets]
<1>1. /\ worker = "undo web" /\ worker \in UndoSteps /\ job.web = "files"
      /\ CopyFile("undo web", "undo page", w)
  BY DEF RestoreAssets, CopyFile, UndoSteps
<1>2. /\ worker \in Underway /\ job.mode = "undo" /\ job.api = "in"
      /\ ApiIsWhere /\ WebIsWhere /\ PublisherShape
      /\ live.web \in Webs /\ job.backup.web \in Webs
  BY <1>1, Restoring, AtWork DEF Parts, ProgressOfUndo, UndoSteps
<1>3. assets \in SUBSET Contents
  BY <1>2 DEF Webs
<1>4. live.web.assets \subseteq assets /\ job.backup.web.assets \subseteq assets
  OBVIOUS
<1>5. assets \cup candidate.web.assets \subseteq job.backup.web.assets \cup job.added
  BY <1>1, <1>2 DEF WebIsWhere
<1> HIDE DEF assets
<1>6. w \in Webs /\ w.assets = assets /\ w.page = live.web.page /\ w.manifest = live.web.manifest
  BY <1>2, <1>3 DEF Webs
<1> HIDE DEF w
<1>7. /\ worker' = "undo page" /\ live' \in Files /\ live'.web = w /\ live'.api = live.api
      /\ candidate' = candidate /\ running' = running /\ serving' = serving /\ job' = job
      /\ UNCHANGED requests
  BY <1>1, <1>6, Copied
<1>8. w.page \in w.assets
  BY <1>1, <1>2, <1>4, <1>6 DEF WebIsWhere
<1>9. ApiIsWhere' /\ WebIsWhere'
  BY <1>1, <1>2, <1>5, <1>6, <1>7, <1>8 DEF ApiIsWhere, WebIsWhere, WebKept, Whole
<1>10. Progress' /\ ProgressOfRestart' /\ ProgressOfUndo'
  BY <1>1, <1>2, <1>4, <1>6, <1>7 DEF Progress, ProgressOfRestart, ProgressOfUndo, MoveSteps,
     CopySteps, UndoSteps
<1> QED
  BY <1>2, <1>7, <1>8, <1>9, <1>10, AtWork, GoesOn
     DEF Parts, PublisherShape, Whole, Underway, UndoSteps

LEMMA RestorePageKeeps == ASSUME PublisherInv, RestorePage PROVE PublisherInv'
<1> DEFINE page == job.backup.web.page
           w == [live.web EXCEPT !.page = page]
<1>1. worker = "undo page" /\ worker \in UndoSteps /\ CopyFile("undo page", "undo manifest", w)
  BY DEF RestorePage, CopyFile, UndoSteps
<1>2. worker \in Underway /\ job.web = "files" /\ job.backup.web.assets \subseteq live.web.assets
      /\ job.api = "in"
  BY <1>1, AtWork DEF Underway, Parts, ProgressOfUndo, UndoSteps
<1>3. /\ job.mode = "undo" /\ ApiIsWhere /\ WebIsWhere /\ PublisherShape
      /\ live.web \in Webs /\ job.backup.web \in Webs
  BY <1>1, <1>2, Restoring
<1>4. page \in Contents /\ page \in live.web.assets
  BY <1>2, <1>3 DEF Webs, WebIsWhere
<1>5. page = job.backup.web.page
  OBVIOUS
<1> HIDE DEF page
<1>6. w \in Webs /\ w.assets = live.web.assets /\ w.page = page /\ w.manifest = live.web.manifest
  BY <1>3, <1>4 DEF Webs
<1> HIDE DEF w
<1>7. /\ worker' = "undo manifest" /\ live' \in Files /\ live'.web = w /\ live'.api = live.api
      /\ candidate' = candidate /\ running' = running /\ serving' = serving /\ job' = job
      /\ UNCHANGED requests
  BY <1>1, <1>6, Copied
<1>8. w.page \in w.assets
  BY <1>4, <1>6
<1>9. ApiIsWhere' /\ WebIsWhere'
  BY <1>2, <1>3, <1>6, <1>7, <1>8 DEF ApiIsWhere, WebIsWhere, WebKept, Whole
<1>10. Progress' /\ ProgressOfRestart' /\ ProgressOfUndo'
  BY <1>2, <1>3, <1>5, <1>6, <1>7 DEF Progress, ProgressOfRestart, ProgressOfUndo, MoveSteps,
     CopySteps, UndoSteps
<1> QED
  BY <1>2, <1>3, <1>7, <1>8, <1>9, <1>10, AtWork, GoesOn
     DEF Parts, PublisherShape, Whole, Underway, UndoSteps

LEMMA RestoreManifestKeeps == ASSUME PublisherInv, RestoreManifest PROVE PublisherInv'
<1> DEFINE manifest == job.backup.web.manifest
           w == [live.web EXCEPT !.manifest = manifest]
<1>1. /\ worker = "undo manifest" /\ worker \in UndoSteps
      /\ CopyFile("undo manifest", "undo added", w)
  BY DEF RestoreManifest, CopyFile, UndoSteps
<1>2. /\ worker \in Underway /\ job.web = "files" /\ job.api = "in"
      /\ job.backup.web.assets \subseteq live.web.assets
      /\ live.web.page = job.backup.web.page
  BY <1>1, AtWork DEF Underway, Parts, ProgressOfUndo, UndoSteps
<1>3. /\ job.mode = "undo" /\ ApiIsWhere /\ WebIsWhere /\ PublisherShape
      /\ live.web \in Webs /\ job.backup.web \in Webs
  BY <1>1, <1>2, Restoring
<1>4. manifest \in Contents
  BY <1>3 DEF Webs
<1>5. manifest = job.backup.web.manifest
  OBVIOUS
<1> HIDE DEF manifest
<1>6. w \in Webs /\ w.assets = live.web.assets /\ w.page = live.web.page /\ w.manifest = manifest
  BY <1>3, <1>4 DEF Webs
<1> HIDE DEF w
<1>7. /\ worker' = "undo added" /\ live' \in Files /\ live'.web = w /\ live'.api = live.api
      /\ candidate' = candidate /\ running' = running /\ serving' = serving /\ job' = job
      /\ UNCHANGED requests
  BY <1>1, <1>6, Copied
<1>8. w.page \in w.assets
  BY <1>2, <1>3, <1>6 DEF WebIsWhere
<1>9. ApiIsWhere' /\ WebIsWhere'
  BY <1>2, <1>3, <1>6, <1>7, <1>8 DEF ApiIsWhere, WebIsWhere, WebKept, Whole
<1>10. Progress' /\ ProgressOfRestart' /\ ProgressOfUndo'
  BY <1>2, <1>3, <1>5, <1>6, <1>7 DEF Progress, ProgressOfRestart, ProgressOfUndo, MoveSteps,
     CopySteps, UndoSteps
<1> QED
  BY <1>2, <1>3, <1>7, <1>8, <1>9, <1>10, AtWork, GoesOn
     DEF Parts, PublisherShape, Whole, Underway, UndoSteps

\* With the added files gone, what is live is the backup, whatever of the release
\* had been written.
LEMMA RemoveAddedKeeps == ASSUME PublisherInv, RemoveAdded PROVE PublisherInv'
<1> DEFINE assets == live.web.assets \ job.added
           w == [live.web EXCEPT !.assets = assets]
<1>1. worker = "undo added" /\ worker \in UndoSteps /\ CopyFile("undo added", "undo api", w)
  BY DEF RemoveAdded, CopyFile, UndoSteps
<1>2. /\ worker \in Underway /\ job.web = "files" /\ job.api = "in"
      /\ job.backup.web.assets \subseteq live.web.assets
      /\ live.web.page = job.backup.web.page /\ live.web.manifest = job.backup.web.manifest
  BY <1>1, AtWork DEF Underway, Parts, ProgressOfUndo, UndoSteps
<1>3. /\ job.mode = "undo" /\ ApiIsWhere /\ WebIsWhere /\ PublisherShape
      /\ live.web \in Webs /\ job.backup.web \in Webs
  BY <1>1, <1>2, Restoring
<1>4. assets = job.backup.web.assets
  <2>1. /\ live.web.assets \subseteq job.backup.web.assets \cup job.added
        /\ job.added \cap job.backup.web.assets = {}
    BY <1>2, <1>3 DEF WebIsWhere
  <2> QED
    BY <1>2, <2>1
<1>5. assets \in SUBSET Contents
  BY <1>3, <1>4 DEF Webs
<1> HIDE DEF assets
<1>6. w \in Webs /\ w.assets = assets /\ w.page = live.web.page /\ w.manifest = live.web.manifest
  BY <1>3, <1>5 DEF Webs
<1> HIDE DEF w
<1>7. w = job.backup.web
  BY <1>2, <1>3, <1>4, <1>6 DEF Webs
<1>8. /\ worker' = "undo api" /\ live' \in Files /\ live'.web = w /\ live'.api = live.api
      /\ candidate' = candidate /\ running' = running /\ serving' = serving /\ job' = job
      /\ UNCHANGED requests
  BY <1>1, <1>6, Copied
<1>9. w.page \in w.assets
  BY <1>2, <1>3, <1>7 DEF WebIsWhere
<1>10. w.assets \cup candidate.web.assets \subseteq job.backup.web.assets \cup job.added
  BY <1>2, <1>3, <1>7 DEF WebIsWhere
<1>11. ApiIsWhere' /\ WebIsWhere'
  BY <1>2, <1>3, <1>8, <1>9, <1>10 DEF ApiIsWhere, WebIsWhere, WebKept, Whole
<1>12. Progress' /\ ProgressOfRestart' /\ ProgressOfUndo'
  BY <1>2, <1>3, <1>7, <1>8 DEF Progress, ProgressOfRestart, ProgressOfUndo, MoveSteps,
     CopySteps, UndoSteps, WebUndone
<1> QED
  BY <1>2, <1>3, <1>8, <1>9, <1>11, <1>12, AtWork, GoesOn
     DEF Parts, PublisherShape, Whole, Underway, UndoSteps

LEMMA UndoFailsKeeps == ASSUME PublisherInv, UndoFails PROVE PublisherInv'
<1>1. /\ worker \in {"undo web", "undo page", "undo manifest", "undo added", "undo api"}
      /\ worker' = IF worker = "undo api" THEN "undo resume" ELSE "undo api"
      /\ job' = [job EXCEPT !.wrong = TRUE]
      /\ worker \in Underway /\ worker' \in Underway
      /\ live' = live /\ candidate' = candidate /\ running' = running /\ serving' = serving
      /\ UNCHANGED requests
  BY DEF UndoFails, Underway, UndoSteps, files
<1>2. /\ job.mode = "undo" /\ (worker # "undo api" => job.api = "in")
      /\ ApiIsWhere /\ WebIsWhere /\ PublisherShape /\ Whole(live.web)
  BY <1>1, AtWork DEF Parts, ProgressOfUndo, UndoSteps
<1>3. /\ job' \in PublishJobs /\ job'.release = job.release /\ job'.mode = job.mode
      /\ job'.request = job.request /\ job'.before = job.before /\ job'.backup = job.backup
      /\ job'.api = job.api /\ job'.web = job.web /\ job'.added = job.added /\ job'.wrong
  BY <1>1, <1>2 DEF PublisherShape, PublishJobs
<1>4. ApiIsWhere' /\ WebIsWhere'
  BY <1>1, <1>2, <1>3 DEF ApiIsWhere, WebIsWhere, WebKept, Whole
<1>5. Progress' /\ ProgressOfRestart' /\ ProgressOfUndo'
  BY <1>1, <1>2, <1>3 DEF Progress, ProgressOfRestart, ProgressOfUndo, MoveSteps, CopySteps,
     UndoSteps
<1> QED
  BY <1>1, <1>2, <1>3, <1>4, <1>5, AtWork, GoesOn DEF Parts, PublisherShape, Whole

LEMMA UndoResumeKeeps == ASSUME PublisherInv, UndoResume PROVE PublisherInv'
<1>1. /\ worker = "undo resume" /\ worker \in Underway
      /\ live' = live /\ candidate' = candidate /\ running' = running /\ UNCHANGED files
  BY DEF UndoResume, Underway, UndoSteps, files
<1>2. serving' \in BOOLEAN
  BY DEF UndoResume, PublisherInv, PublisherShape
<1>3. /\ job.mode = "undo" /\ (~job.wrong => ApiUndone /\ WebUndone)
      /\ ApiIsWhere /\ WebIsWhere /\ PublisherShape /\ Whole(live.web)
  BY <1>1, AtWork DEF Parts, ProgressOfUndo, UndoSteps
<1> DEFINE j == [job EXCEPT !.wrong = TRUE]
<1>4. j.wrong
  BY <1>3 DEF PublisherShape, PublishJobs
<1>5. Conclude(job) \/ Conclude(j)
  BY DEF UndoResume
<1> HIDE DEF j
<1>6. \/ ~job.wrong /\ worker' = "restart" /\ job' = job /\ UNCHANGED requests
      \/ Answer("needs attention") \/ Answer("rolled back")
  BY <1>4, <1>5 DEF Conclude
<1>7. CASE ~job.wrong /\ worker' = "restart" /\ job' = job /\ UNCHANGED requests
  <2>1. ApiIsWhere' /\ WebIsWhere'
    BY <1>1, <1>3, <1>7 DEF ApiIsWhere, WebIsWhere, WebKept, Whole
  <2>2. Progress' /\ ProgressOfRestart' /\ ProgressOfUndo'
    BY <1>1, <1>3, <1>7 DEF Progress, ProgressOfRestart, ProgressOfUndo, MoveSteps, CopySteps,
       UndoSteps, ApiUndone, WebUndone
  <2> QED
    BY <1>1, <1>2, <1>3, <1>7, <2>1, <2>2, AtWork, GoesOn
       DEF Parts, PublisherShape, Underway, LastSteps, Whole
<1>8. CASE Answer("needs attention") \/ Answer("rolled back")
  BY <1>1, <1>2, <1>3, <1>8, AnswerKeeps DEF PublisherShape, Outcomes
<1> QED
  BY <1>6, <1>7, <1>8

-----------------------------------------------------------------------------
LEMMA UndoKeeps == ASSUME PublisherInv, Undo PROVE PublisherInv'
  BY UndoPauseKeeps, TakeWebOutKeeps, TakeApiOutKeeps, PutWebBackKeeps, PutApiBackKeeps,
     RestoreAssetsKeeps, RestorePageKeeps, RestoreManifestKeeps, RemoveAddedKeeps,
     UndoFailsKeeps, UndoResumeKeeps
     DEF Undo, UndoDirectories

LEMMA ActivateKeeps == ASSUME PublisherInv, Activate PROVE PublisherInv'
  BY PauseKeeps, MoveApiKeeps, PutApiKeeps, MoveWebKeeps, PutWebKeeps, CopyAwayKeeps,
     CopyAssetsKeeps, CopyPageKeeps, CopyManifestKeeps, StepFailsKeeps, ResumeKeeps DEF Activate

LEMMA WorkerKeeps == ASSUME PublisherInv, WorkerNext PROVE PublisherInv'
  BY RefuseKeeps, CheckKeeps, ActivateKeeps, RestartKillsKeeps, RestartDoneKeeps,
     RestartFailsKeeps, VerifyKeeps, UndoKeeps, UnlinkKeeps, RecoveryKeeps
     DEF WorkerNext, Restart

LEMMA PublisherStep ==
    ASSUME PublisherInv, [PublisherNext]_publisherVars PROVE PublisherInv'
<1>1. CASE PublisherNext
  BY <1>1, PrepareKeeps, WorkerKeeps, DieKeeps, StartsApiKeeps, StartsWebKeeps, BuildsWebKeeps,
     SubmitKeeps, DuplicateKeeps, TakeKeeps DEF PublisherNext
<1>2. CASE UNCHANGED publisherVars
  <2>1. PublisherShape' /\ TakenOnce' /\ Whole(live.web)'
    BY <1>2 DEF publisherVars, PublisherInv, PublisherShape, TakenOnce, Whole
  <2>2. Parts' <=> Parts
    BY <1>2 DEF publisherVars, Parts, ApiIsWhere, WebIsWhere, WebKept, Whole, Progress,
       ProgressOfRestart, ProgressOfUndo, ApiUndone, WebUndone, ReleaseKnown, IsLive
  <2> QED
    BY <1>2, <2>1, <2>2 DEF publisherVars, PublisherInv
<1> QED
  BY <1>1, <1>2

\* For any number of requests, builds and deaths of the worker, the page the server
\* gives out has its assets, whichever step of moving, copying or undoing fails
\* (core.cjs, PagesHaveTheirAssets).
THEOREM LivePagesAreWhole == PublisherSpec => []PagesHaveTheirAssets
<1>1. PublisherInv => PagesHaveTheirAssets
  BY DEF PublisherInv, Whole, PagesHaveTheirAssets
<1> QED
  BY <1>1, PublisherStarts, PublisherStep, PTL DEF PublisherSpec

-----------------------------------------------------------------------------
\* What has been undone is as it was.
LEMMA UndoneIsUntouched ==
    ASSUME PublisherInv, worker \in Underway, ApiUndone, WebUndone, UNCHANGED files
    PROVE  Untouched
<1>1. /\ ApiIsWhere /\ WebIsWhere /\ live \in Files /\ candidate \in Files
      /\ job.before \in Files \X Files /\ live' = live /\ candidate' = candidate
  BY AtWork, FileFacts DEF Parts, PublishJobs, files
<1>2. live.api = job.before[1].api /\ candidate.api = job.before[2].api
  BY <1>1 DEF ApiIsWhere, ApiUndone
<1>3. WebKept(live.web) /\ candidate.web = job.before[2].web
  BY <1>1 DEF WebIsWhere, WebUndone
<1>4. job.before = <<job.before[1], job.before[2]>> /\ job.before[1] \in Files
      /\ job.before[2] \in Files
  BY <1>1
<1>5. candidate = job.before[2]
  BY <1>1, <1>2, <1>3, <1>4 DEF Files
<1>6. CASE live.web = job.before[1].web
  <2>1. live = job.before[1]
    BY <1>1, <1>2, <1>4, <1>6 DEF Files
  <2> QED
    BY <1>1, <1>4, <1>5, <2>1 DEF Untouched
<1>7. CASE job.before[1].web = NoWeb /\ live.web = SourceWeb
  <2>1. [live EXCEPT !.web = NoWeb] = job.before[1]
    BY <1>1, <1>2, <1>4, <1>7 DEF Files
  <2> QED
    BY <1>1, <1>4, <1>5, <1>7, <2>1 DEF Untouched
<1> QED
  BY <1>3, <1>6, <1>7 DEF WebKept

LEMMA AnswersOnce ==
    ASSUME PublisherInv, worker \in Underway, NEW o, Answer(o),
           NEW r \in Requests, result'[r] # result[r]
    PROVE  r = job.request /\ result'[r] = o /\ result[r] = None
  BY StepSets DEF Answer, PublisherInv, PublisherShape, TakenOnce

\* What each answer of the worker claims.
Claims(o) ==
    /\ o # "interrupted"
    /\ o = "completed" /\ asked[job.request] = "publish" =>
          /\ live'.api = job.release /\ running' = job.release /\ serving'
          /\ live'.web.page = job.release /\ live'.web.manifest = job.release
    /\ o \in {"failed", "rolled back"} => Untouched

LEMMA AnswerClaims ==
    ASSUME PublisherInv, worker \in Underway, NEW o, Answer(o), Claims(o),
           NEW r \in Requests, result'[r] # result[r]
    PROVE  AnswerIsTrue(r)
<1>1. r = job.request /\ result'[r] = o /\ result[r] = None
  BY AnswersOnce
<1> QED
  BY <1>1 DEF AnswerIsTrue, Claims

LEMMA NeedsAttentionClaims == Claims("needs attention")
  BY DEF Claims

LEMMA UntouchedClaims ==
    ASSUME Untouched PROVE Claims("failed") /\ Claims("rolled back")
  BY DEF Claims

LEMMA RefuseIsTrue ==
    ASSUME PublisherInv, Refuse, NEW r \in Requests, result'[r] # result[r]
    PROVE  AnswerIsTrue(r)
<1>1. worker \in Underway /\ worker = "check" /\ Answer("failed") /\ UNCHANGED files
  BY DEF Refuse, Underway
<1>2. ApiUndone /\ WebUndone
  BY <1>1, AtWork DEF Parts, Progress, ApiUndone, WebUndone
<1>3. Untouched
  BY <1>1, <1>2, UndoneIsUntouched
<1> QED
  BY <1>1, <1>3, UntouchedClaims, AnswerClaims

LEMMA RestartIsTrue ==
    ASSUME PublisherInv, RestartDone \/ RestartFails,
           NEW r \in Requests, result'[r] # result[r]
    PROVE  AnswerIsTrue(r)
<1>1. worker \in {"restart", "await"} /\ worker \in Underway /\ UNCHANGED files
  BY DEF RestartDone, RestartFails, Underway, LastSteps
<1>2. ~ UNCHANGED requests
  BY DEF requests
<1>3. ProgressOfRestart
  BY <1>1, AtWork DEF Parts
<1>4. CASE job.mode = "restart" /\ Answer("completed")
  <2>1. asked[job.request] # "publish"
    BY <1>1, <1>4 DEF PublisherInv, TakenOnce
  <2>2. Claims("completed")
    BY <2>1 DEF Claims
  <2> QED
    BY <1>1, <1>4, <2>2, AnswerClaims
<1>5. CASE job.mode \in {"restart", "undo"} /\ (Answer("failed") \/ Answer("rolled back"))
  <2>1. ApiUndone /\ WebUndone
    BY <1>1, <1>3, <1>5 DEF ProgressOfRestart, ApiUndone, WebUndone
  <2>2. Untouched
    BY <1>1, <2>1, UndoneIsUntouched
  <2>3. ASSUME Answer("failed") PROVE AnswerIsTrue(r)
    BY <1>1, <2>2, <2>3, UntouchedClaims, AnswerClaims
  <2>4. ASSUME Answer("rolled back") PROVE AnswerIsTrue(r)
    BY <1>1, <2>2, <2>4, UntouchedClaims, AnswerClaims
  <2> QED
    BY <1>5, <2>3, <2>4
<1>6. CASE Answer("needs attention")
  BY <1>1, <1>6, NeedsAttentionClaims, AnswerClaims
<1> QED
  BY <1>2, <1>4, <1>5, <1>6 DEF RestartDone, RestartFails

LEMMA VerifyIsTrue ==
    ASSUME PublisherInv, Verify, NEW r \in Requests, result'[r] # result[r]
    PROVE  AnswerIsTrue(r)
<1>1. /\ worker = "verify" /\ worker \in Underway
      /\ live' = live /\ running' = running /\ serving' = serving
  BY DEF Verify, Underway, LastSteps, files
<1>2. Answer("completed") /\ serving
  BY DEF Verify, requests
<1>3. running = job.release /\ IsLive
  BY <1>1, AtWork DEF Parts, Progress
<1>4. /\ live'.api = job.release /\ running' = job.release /\ serving'
      /\ live'.web.page = job.release /\ live'.web.manifest = job.release
  BY <1>1, <1>2, <1>3 DEF IsLive
<1>5. Claims("completed")
  BY <1>4 DEF Claims
<1> QED
  BY <1>1, <1>2, <1>5, AnswerClaims

LEMMA ConclusionIsTrue ==
    ASSUME PublisherInv, UndoResume, NEW r \in Requests, result'[r] # result[r]
    PROVE  AnswerIsTrue(r)
<1>1. worker = "undo resume" /\ worker \in Underway /\ UNCHANGED files
  BY DEF UndoResume, Underway, UndoSteps
<1>2. ~job.wrong => ApiUndone /\ WebUndone
  BY <1>1, AtWork DEF Parts, ProgressOfUndo
<1> DEFINE j == [job EXCEPT !.wrong = TRUE]
<1>3. j.wrong
  BY <1>1, AtWork DEF PublishJobs
<1>4. Conclude(job) \/ Conclude(j)
  BY DEF UndoResume
<1> HIDE DEF j
<1>5. Answer("needs attention") \/ (~job.wrong /\ Answer("rolled back"))
  BY <1>3, <1>4 DEF Conclude, requests
<1>6. CASE Answer("needs attention")
  BY <1>1, <1>6, NeedsAttentionClaims, AnswerClaims
<1>7. CASE ~job.wrong /\ Answer("rolled back")
  <2>1. Untouched
    BY <1>1, <1>2, <1>7, UndoneIsUntouched
  <2> QED
    BY <1>1, <1>7, <2>1, UntouchedClaims, AnswerClaims
<1> QED
  BY <1>5, <1>6, <1>7

LEMMA RecoveryIsTrue ==
    ASSUME PublisherInv, NEW q \in Requests, RecoverAnswers(q),
           NEW r \in Requests, result'[r] # result[r]
    PROVE  AnswerIsTrue(r)
<1>1. job.request = None
  BY NoJobShape DEF RecoverAnswers, PublisherInv, TakenOnce, Resting
<1>2. r = q /\ result[r] = None /\ result'[r] = "interrupted"
  BY DEF RecoverAnswers, PublisherInv, PublisherShape
<1> QED
  BY <1>1, <1>2, PublisherAssumption DEF AnswerIsTrue

\* Every other step leaves the answers alone.
LEMMA OthersAnswerNothing ==
    ASSUME \/ Prepare \/ Check \/ Activate \/ RestartKills \/ Unlink \/ Start \/ Recovered
           \/ Die \/ KeepersStartApi \/ SupervisorStartsWeb \/ SupervisorBuildsWeb
           \/ UndoPause \/ UndoDirectories \/ RestoreAssets \/ RestorePage \/ RestoreManifest
           \/ RemoveAdded \/ UndoFails
           \/ \E r \in Requests : RecoverUnlinks(r) \/ Submit(r) \/ TakeDuplicate(r) \/ Take(r)
    PROVE  result' = result
<1>1. Activate => result' = result
  BY DEF Activate, Pause, MoveApiAway, PutApi, MoveWebAway, PutWeb, CopyWebAway, CopyAssets,
     CopyPage, CopyManifest, StepFails, Resume, MoveAway, PutInPlace, CopyFile, requests
<1>2. UndoPause \/ UndoDirectories \/ RestoreAssets \/ RestorePage \/ RestoreManifest
      \/ RemoveAdded \/ UndoFails => result' = result
  BY DEF UndoPause, UndoDirectories, RestoreAssets, RestorePage, RestoreManifest, RemoveAdded,
     UndoFails, TakeOut, PutBack, CopyFile, requests
<1>3. Prepare \/ Check \/ RestartKills \/ Unlink \/ Start \/ Recovered \/ Die
      \/ KeepersStartApi \/ SupervisorStartsWeb \/ SupervisorBuildsWeb => result' = result
  BY DEF Prepare, Check, RestartKills, Unlink, Start, Recovered, Die, KeepersStartApi,
     SupervisorStartsWeb, SupervisorBuildsWeb, requests
<1>4. ASSUME NEW r \in Requests, RecoverUnlinks(r) \/ Submit(r) \/ TakeDuplicate(r) \/ Take(r)
      PROVE  result' = result
  BY <1>4 DEF RecoverUnlinks, Submit, TakeDuplicate, Take
<1> QED
  BY <1>1, <1>2, <1>3, <1>4

\* What the publisher answers is true when it answers, and it answers once: a completed
\* publication is live and runs, a failed or rolled back one has left everything as it
\* was, and an interrupted one is not the one at work (core.cjs and worker.cjs,
\* AnswersAreTrue).
THEOREM AnswersTrue == PublisherSpec => AnswersAreTrue
<1>1. ASSUME PublisherInv, PublisherNext, NEW r \in Requests, result'[r] # result[r]
      PROVE  AnswerIsTrue(r)
  <2>1. CASE WorkerNext
    BY <1>1, <2>1, RefuseIsTrue, RestartIsTrue, VerifyIsTrue, ConclusionIsTrue, RecoveryIsTrue,
       OthersAnswerNothing DEF WorkerNext, Restart, Undo
  <2>2. CASE ~WorkerNext
    BY <1>1, <2>2, OthersAnswerNothing DEF PublisherNext
  <2> QED
    BY <2>1, <2>2
<1>2. ASSUME PublisherInv, [PublisherNext]_publisherVars
      PROVE  [\A r \in Requests : result'[r] # result[r] => AnswerIsTrue(r)]_publisherVars
  BY <1>1, <1>2
<1> QED
  BY <1>2, PublisherStarts, PublisherStep, PTL DEF PublisherSpec, AnswersAreTrue
=============================================================================
