------------------------------- MODULE Publisher -------------------------------
(***************************************************************************)
(* The release publisher (src/scripts/publisher/core.cjs, worker.cjs and   *)
(* processes.ps1, src/scripts/request-publication.cjs) with what restarts  *)
(* the production API and its web server.                                  *)
(*                                                                         *)
(* A worker takes requests from a directory one at a time, puts the        *)
(* candidate API and web files in the place of the live ones, and undoes   *)
(* everything when a step fails.  It may die at any point, and never       *)
(* repeats a request.  This is the production environment; staging differs *)
(* by having no pause of the web server.  Every step of a request may      *)
(* fail.  A web release is its assets, its page and its manifest.          *)
(***************************************************************************)
EXTENDS Naturals

CONSTANTS Requests, Builds, None,
          Source,       \* what the checkout holds when the supervisor builds it
          MaxDeaths     \* deaths of the worker or of its host in a behaviour

ASSUME PublisherAssumption ==
    /\ Source # None /\ {Source, None} \cap Builds = {}
    /\ None \notin Requests /\ MaxDeaths \in Nat

VARIABLES
    live, candidate,    \* the API and the web files in use, and the prepared ones
    running,            \* the build the API process runs, None without a process
    serving,            \* the web server is up
    asked,              \* what a request asks for
    queue,              \* where the file of a request is
    result,             \* the answer written for it
    worker,             \* the worker's step
    job,                \* what it knows of the request it works on
    deaths

publisherVars ==
    <<live, candidate, running, serving, asked, queue, result, worker, job, deaths>>
files == <<live, candidate>>
requests == <<asked, queue, result, deaths>>

NoWeb == [assets |-> {}, page |-> None, manifest |-> None]
ReleaseWeb(b) == [assets |-> {b}, page |-> b, manifest |-> b]
SourceWeb == [assets |-> {Source}, page |-> Source, manifest |-> None]
Nowhere == [api |-> None, web |-> NoWeb]

\* mode: what a restart is part of.  api, web: how far each part has been moved;
\* paused: the worker has to bring the web server back; wrong: undoing met an error;
\* before: the files when the request was taken, for the properties alone.
NoJob == [request |-> None, mode |-> "none", release |-> None, api |-> "untouched",
          web |-> "untouched", backup |-> Nowhere, added |-> {}, paused |-> FALSE,
          wrong |-> FALSE, before |-> <<Nowhere, Nowhere>>]

PublisherInit ==
    /\ \E b \in Builds : /\ live = [api |-> b, web |-> ReleaseWeb(b)]
                         /\ running = b
    /\ candidate = Nowhere
    /\ serving = TRUE
    /\ asked \in [Requests -> {"publish", "restart"}]
    /\ queue = [r \in Requests |-> "none"]
    /\ result = [r \in Requests |-> None]
    /\ worker = "idle" /\ job = NoJob /\ deaths = 0

-----------------------------------------------------------------------------
(* Whoever asks.  Builds are prepared while no request is worked on.        *)

Prepare ==
    /\ \A r \in Requests : queue[r] # "processing"
    /\ \E b \in Builds : \/ candidate' = [candidate EXCEPT !.api = b]
                         \/ candidate' = [candidate EXCEPT !.web = ReleaseWeb(b)]
    /\ UNCHANGED <<live, running, serving, requests, worker, job>>

\* A new request, or one submitted again under the identifier it had.
Submit(r) ==
    /\ queue[r] \in {"none", "answered"}
    /\ queue' = [queue EXCEPT ![r] = "inbox"]
    /\ UNCHANGED <<files, running, serving, asked, result, worker, job, deaths>>

-----------------------------------------------------------------------------
(* The worker takes a request and answers it.                               *)

TakeDuplicate(r) ==
    /\ worker = "idle" /\ queue[r] = "inbox" /\ result[r] # None
    /\ queue' = [queue EXCEPT ![r] = "answered"]
    /\ UNCHANGED <<files, running, serving, asked, result, worker, job, deaths>>

Take(r) ==
    /\ worker = "idle" /\ queue[r] = "inbox" /\ result[r] = None
    /\ queue' = [queue EXCEPT ![r] = "processing"]
    /\ worker' = "check"
    /\ job' = [NoJob EXCEPT !.request = r, !.mode = asked[r], !.before = files]
    /\ UNCHANGED <<files, running, serving, asked, result, deaths>>

Answer(outcome) ==
    /\ result' = [result EXCEPT ![job.request] = outcome]
    /\ worker' = "unlink"
    /\ UNCHANGED <<job, asked, queue, deaths>>

Unlink ==
    /\ worker = "unlink"
    /\ queue' = [queue EXCEPT ![job.request] = "answered"]
    /\ worker' = "idle" /\ job' = NoJob
    /\ UNCHANGED <<files, running, serving, asked, result, deaths>>

Recognized == running \notin {None, Source}

Releasable ==
    /\ candidate.api # None /\ candidate.web # NoWeb
    /\ candidate.api = candidate.web.manifest

\* Expired or malformed, not a release, or with a process nobody knows.
Refuse ==
    /\ worker = "check"
    /\ Answer("failed")
    /\ UNCHANGED <<files, running, serving>>

Check ==
    /\ worker = "check"
    /\ \/ job.mode = "restart" /\ worker' = "restart" /\ UNCHANGED job
       \/ /\ job.mode = "publish" /\ Releasable /\ Recognized
          /\ worker' = "pause" /\ job' = [job EXCEPT !.release = candidate.web.manifest]
    /\ UNCHANGED <<files, running, serving, requests>>

-----------------------------------------------------------------------------
(* Activation.                                                              *)

Moved(j) == j.api # "untouched" \/ j.web # "untouched"
UndoFrom(j) == CASE j.web # "untouched" -> "undo web"
                 [] j.web = "untouched" /\ j.api # "untouched" -> "undo api"
                 [] OTHER -> "undo resume"

\* The catch of publish: the part moved last is put back first.
Fails(j) ==
    /\ job' = [j EXCEPT !.mode = "undo"]
    /\ worker' = IF ~j.paused /\ j.web # "untouched" THEN "undo pause" ELSE UndoFrom(j)

\* webPaused is set before the helper is asked, which may die having stopped the server.
Pause ==
    /\ worker = "pause"
    /\ \/ /\ serving /\ serving' = FALSE
          /\ job' = [job EXCEPT !.paused = TRUE] /\ worker' = "move api"
       \/ /\ serving' \in {serving, FALSE}
          /\ Fails([job EXCEPT !.paused = TRUE])
    /\ UNCHANGED <<files, running, requests>>

MoveAway(part, step, next) ==
    /\ worker = step
    /\ live[part] # Nowhere[part]
    /\ job' = [job EXCEPT !.backup[part] = live[part], ![part] = "away"]
    /\ live' = [live EXCEPT ![part] = Nowhere[part]]
    /\ worker' = next
    /\ UNCHANGED <<candidate, running, serving, requests>>

PutInPlace(part, step, next) ==
    /\ worker = step
    /\ live[part] = Nowhere[part]
    /\ live' = [live EXCEPT ![part] = candidate[part]]
    /\ candidate' = [candidate EXCEPT ![part] = Nowhere[part]]
    /\ job' = [job EXCEPT ![part] = "in"]
    /\ worker' = next
    /\ UNCHANGED <<running, serving, requests>>

MoveApiAway == MoveAway("api", "move api", "put api")
PutApi == PutInPlace("api", "put api", "move web")
MoveWebAway == MoveAway("web", "move web", "put web")
PutWeb == PutInPlace("web", "put web", "resume")

\* Mutant: every file of the candidate counts as added.
CopyWebAwayUnfiltered ==
    /\ worker = "move web"
    /\ live.web # NoWeb
    /\ job' = [job EXCEPT !.backup.web = live.web, !.web = "files",
                          !.added = candidate.web.assets]
    /\ worker' = "copy assets"
    /\ UNCHANGED <<files, running, serving, requests>>

\* The web directory is open and cannot be renamed: it is copied to the backup,
\* and the new files are written into it one by one.
CopyWebAway ==
    /\ worker = "move web"
    /\ live.web # NoWeb
    /\ job' = [job EXCEPT !.backup.web = live.web, !.web = "files",
                          !.added = candidate.web.assets \ live.web.assets]
    /\ worker' = "copy assets"
    /\ UNCHANGED <<files, running, serving, requests>>

\* Assets first, the page next, the manifest last.
CopyFile(step, next, web) ==
    /\ worker = step
    /\ live' = [live EXCEPT !.web = web]
    /\ worker' = next
    /\ UNCHANGED <<candidate, running, serving, requests, job>>

CopyAssets == CopyFile("copy assets", "copy page",
                  [live.web EXCEPT !.assets = @ \cup candidate.web.assets])
CopyPage == CopyFile("copy page", "copy manifest",
                  [live.web EXCEPT !.page = candidate.web.page])
CopyManifest == CopyFile("copy manifest", "resume",
                  [live.web EXCEPT !.manifest = candidate.web.manifest])

StepFails ==
    /\ worker \in {"move api", "put api", "move web", "put web",
                   "copy assets", "copy page", "copy manifest"}
    /\ Fails(job)
    /\ UNCHANGED <<files, running, serving, requests>>

Resume ==
    /\ worker = "resume"
    /\ \/ /\ live.web # NoWeb /\ serving' = TRUE
          /\ job' = [job EXCEPT !.paused = FALSE] /\ worker' = "restart"
       \/ serving' \in {serving, TRUE} /\ Fails(job)
    /\ UNCHANGED <<files, running, requests>>

\* The helper stops the API and waits for its keepers to start it again.
RestartKills ==
    /\ worker = "restart" /\ Recognized
    /\ running' = None /\ worker' = "await"
    /\ UNCHANGED <<files, serving, requests, job>>

RestartDone ==
    /\ worker = "await" /\ running # None
    /\ \/ job.mode = "publish" /\ worker' = "verify" /\ UNCHANGED <<requests, job>>
       \/ job.mode = "restart" /\ Answer("completed")
       \/ job.mode = "undo" /\ Answer("rolled back")
    /\ UNCHANGED <<files, running, serving>>

RestartFails ==
    /\ worker \in {"restart", "await"}
    /\ \/ job.mode = "publish" /\ Fails(job) /\ UNCHANGED requests
       \/ job.mode = "restart" /\ Answer("failed")
       \/ job.mode = "undo" /\ Answer("needs attention")
    /\ UNCHANGED <<files, running, serving>>

Verify ==
    /\ worker = "verify"
    /\ \/ /\ running # None /\ serving /\ live.web.manifest = job.release
          /\ Answer("completed")
       \/ Fails(job) /\ UNCHANGED requests
    /\ UNCHANGED <<files, running, serving>>

-----------------------------------------------------------------------------
(* Undoing.  An error here is noted, and the next part is tried.            *)

UndoPause ==
    /\ worker = "undo pause"
    /\ \/ serving /\ serving' = FALSE /\ job' = [job EXCEPT !.paused = TRUE]
       \/ /\ serving' \in {serving, FALSE}
          /\ job' = [job EXCEPT !.paused = TRUE, !.wrong = TRUE]
    /\ worker' = "undo web"
    /\ UNCHANGED <<files, running, requests>>

AfterPart(part) == IF part = "web" THEN "undo api" ELSE "undo resume"

TakeOut(part, step) ==
    /\ worker = step /\ job[part] = "in"
    /\ candidate' = [candidate EXCEPT ![part] = live[part]]
    /\ live' = [live EXCEPT ![part] = Nowhere[part]]
    /\ job' = [job EXCEPT ![part] = "away"]
    /\ UNCHANGED <<running, serving, worker, requests>>

PutBack(part, step) ==
    /\ worker = step /\ job[part] = "away" /\ live[part] = Nowhere[part]
    /\ live' = [live EXCEPT ![part] = job.backup[part]]
    /\ job' = [job EXCEPT ![part] = "restored"]
    /\ worker' = AfterPart(part)
    /\ UNCHANGED <<candidate, running, serving, requests>>

UndoDirectories ==
    \/ TakeOut("web", "undo web") \/ PutBack("web", "undo web")
    \/ TakeOut("api", "undo api") \/ PutBack("api", "undo api")

\* The saved files are copied over the new ones; the added ones go at last.
RestoreAssets ==
    job.web = "files" /\ CopyFile("undo web", "undo page",
                            [live.web EXCEPT !.assets = @ \cup job.backup.web.assets])
RestorePage == CopyFile("undo page", "undo manifest",
                   [live.web EXCEPT !.page = job.backup.web.page])
RestoreManifest == CopyFile("undo manifest", "undo added",
                       [live.web EXCEPT !.manifest = job.backup.web.manifest])
RemoveAdded == CopyFile("undo added", "undo api",
                   [live.web EXCEPT !.assets = @ \ job.added])

\* Mutant: an error while undoing is not noted.
UndoFailsUnnoted ==
    /\ worker \in {"undo web", "undo page", "undo manifest", "undo added", "undo api"}
    /\ worker' = IF worker = "undo api" THEN "undo resume" ELSE "undo api"
    /\ UNCHANGED <<files, running, serving, requests, job>>

UndoFails ==
    /\ worker \in {"undo web", "undo page", "undo manifest", "undo added", "undo api"}
    /\ job' = [job EXCEPT !.wrong = TRUE]
    /\ worker' = IF worker = "undo api" THEN "undo resume" ELSE "undo api"
    /\ UNCHANGED <<files, running, serving, requests>>

Conclude(j) ==
    IF Moved(j) /\ ~j.wrong
    THEN worker' = "restart" /\ job' = j /\ UNCHANGED requests
    ELSE Answer(IF j.wrong THEN "needs attention" ELSE "rolled back")

UndoResume ==
    /\ worker = "undo resume"
    /\ \/ ~job.paused /\ Conclude(job) /\ UNCHANGED serving
       \/ job.paused /\ live.web # NoWeb /\ serving' = TRUE /\ Conclude(job)
       \/ /\ job.paused /\ serving' \in {serving, TRUE}
          /\ Conclude([job EXCEPT !.wrong = TRUE])
    /\ UNCHANGED <<files, running>>

-----------------------------------------------------------------------------
(* The keepers of the API and of the web server; deaths and recovery.       *)

\* Mutant: only the production task starts the API.
TaskStartsApi ==
    /\ running = None
    /\ live.api # None /\ running' = live.api
    /\ UNCHANGED <<files, serving, requests, worker, job>>

\* The production task runs what is in dist; the supervisor does so when both
\* manifests name one commit, and the checkout otherwise.
KeepersStartApi ==
    /\ running = None
    /\ \/ live.api # None /\ running' = live.api
       \/ (live.api = None \/ live.api # live.web.manifest) /\ running' = Source
    /\ UNCHANGED <<files, serving, requests, worker, job>>

SupervisorStartsWeb ==
    /\ ~serving /\ live.web # NoWeb
    /\ serving' = TRUE
    /\ UNCHANGED <<files, running, requests, worker, job>>

\* A web directory that is missing when the supervisor looks is built anew.
SupervisorBuildsWeb ==
    /\ live.web = NoWeb
    /\ live' = [live EXCEPT !.web = SourceWeb]
    /\ UNCHANGED <<candidate, running, serving, requests, worker, job>>

\* The worker dies, alone or with its host.
Die ==
    /\ worker # "down" /\ deaths < MaxDeaths
    /\ deaths' = deaths + 1
    /\ worker' = "down" /\ job' = NoJob
    /\ \/ UNCHANGED <<running, serving>>
       \/ running' = None /\ serving' = FALSE
    /\ UNCHANGED <<files, asked, queue, result>>

Start ==
    /\ worker = "down" /\ worker' = "recovering"
    /\ UNCHANGED <<files, running, serving, requests, job>>

\* What was being worked on is reported, never repeated.
RecoverAnswers(r) ==
    /\ worker = "recovering" /\ queue[r] = "processing" /\ result[r] = None
    /\ result' = [result EXCEPT ![r] = "interrupted"]
    /\ UNCHANGED <<files, running, serving, asked, queue, worker, job, deaths>>

RecoverUnlinks(r) ==
    /\ worker = "recovering" /\ queue[r] = "processing" /\ result[r] # None
    /\ queue' = [queue EXCEPT ![r] = "answered"]
    /\ UNCHANGED <<files, running, serving, asked, result, worker, job, deaths>>

Recovered ==
    /\ worker = "recovering" /\ \A r \in Requests : queue[r] # "processing"
    /\ worker' = "idle"
    /\ UNCHANGED <<files, running, serving, requests, job>>

-----------------------------------------------------------------------------
Activate == Pause \/ MoveApiAway \/ PutApi \/ MoveWebAway \/ PutWeb \/ CopyWebAway
              \/ CopyAssets \/ CopyPage \/ CopyManifest \/ StepFails \/ Resume
Restart == RestartKills \/ RestartDone \/ RestartFails
Undo == UndoPause \/ UndoDirectories \/ RestoreAssets \/ RestorePage
          \/ RestoreManifest \/ RemoveAdded \/ UndoFails \/ UndoResume

WorkerNext ==
    \/ Refuse \/ Check \/ Activate \/ Restart \/ Verify \/ Undo \/ Unlink
    \/ Start \/ Recovered
    \/ \E r \in Requests : RecoverAnswers(r) \/ RecoverUnlinks(r)

PublisherNext ==
    \/ Prepare \/ WorkerNext \/ Die
    \/ KeepersStartApi \/ SupervisorStartsWeb \/ SupervisorBuildsWeb
    \/ \E r \in Requests : Submit(r) \/ TakeDuplicate(r) \/ Take(r)

\* The worker's loop, the deadlines of its helpers and its restart by the scheduler;
\* the production task and the supervisor, which never give up.
PublisherFairness ==
    /\ WF_publisherVars(WorkerNext)
    /\ \A r \in Requests : WF_publisherVars(TakeDuplicate(r) \/ Take(r))
    /\ WF_publisherVars(KeepersStartApi)
    /\ WF_publisherVars(SupervisorStartsWeb)
    /\ WF_publisherVars(SupervisorBuildsWeb)

PublisherSpec ==
    PublisherInit /\ [][PublisherNext]_publisherVars /\ PublisherFairness

-----------------------------------------------------------------------------
\* An answer is written once and is true: "completed" is said when the API that
\* runs, the API files, the page and the manifest all are the checked release;
\* "failed" and "rolled back" when the live files and the candidate are what they
\* were (but for a web directory that was missing before, and that the supervisor
\* has built), and "interrupted" when nobody works on the request any more.
Untouched ==
    \/ <<live', candidate'>> = job.before
    \/ /\ job.before[1].web = NoWeb /\ live'.web = SourceWeb
       /\ <<[live' EXCEPT !.web = NoWeb], candidate'>> = job.before

AnswerIsTrue(r) ==
    /\ result[r] = None
    /\ result'[r] = "completed" /\ asked[r] = "publish" =>
          /\ live'.api = job.release /\ running' = job.release /\ serving'
          /\ live'.web.page = job.release /\ live'.web.manifest = job.release
    /\ result'[r] \in {"failed", "rolled back"} => Untouched
    /\ result'[r] = "interrupted" => job.request # r

AnswersAreTrue ==
    [][\A r \in Requests : result'[r] # result[r] => AnswerIsTrue(r)]_publisherVars

\* Whatever is copied, moved, undone or interrupted, and however often, a page that
\* is live finds its assets.
PagesHaveTheirAssets ==
    live.web = NoWeb \/ live.web.page \in live.web.assets

\* A request, submitted once or again, ends in an answer with the API running and the
\* web server up over a web release, whatever failed and wherever the worker died.
RequestsEndInService ==
    \A r \in Requests :
        queue[r] = "inbox" ~>
            /\ queue[r] = "answered" /\ result[r] # None
            /\ running # None /\ serving /\ live.web # NoWeb
=============================================================================
