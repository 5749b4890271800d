# Lauda 2.0: formal models

TLA+ modules about the parts of Lauda (a multi-tenant system for church schedules: an Express and
Prisma server over PostgreSQL and Redis, an Expo client, and a publisher that releases both) whose
correctness depends on the order in which things happen. Paths below are relative to the repository; in
`PROJECT.json` they start with `src/`.

Run everything from this directory: `tlc -config MCOutbox.cfg MCOutbox`, `tlapm DeliveryProofs.tla`, and so
on. `PROJECT.json` lists the runs, the lines each definition stands for, one mutant per property, the
hazards and the theorems.

## 1. Inventory

| Component | State | Operations | Talks to | What is hard | What makes it correct |
|---|---|---|---|---|---|
| Outbox dispatcher, `src/events/domainEvents.ts` | rows of DomainEventOutbox and Notification; per process `activeRun`, `followUpRequested`, a timer | enqueue, claim, project, publish, mark published, retry, expire | domain transactions, realtime hub, push | several processes, leases that end while their holder works, crashes, failed calls that took effect | nobody skipped, every event published in the end |
| Push delivery, `domainEvents.ts:136-286` | PushDelivery, PushDevice | send batch, read tickets, check receipts, disable devices | Expo | no claim, retries, late receipts, full batches | bounded repetition; every row is settled |
| Server sessions, `services/authSessionService.ts` | AuthSession, RefreshTokenFamily, RefreshToken | open, rotate, revoke one, all of a user, all of a church | auth and admin services, middleware | concurrent refreshes and revocations at READ COMMITTED | one chain per session, revocation final and complete |
| Login and password change, `services/authService.ts`, `repositories/authRepository.ts` | the password | compare, open a session, change | sessions | the password is compared long before the session is written | a changed password ends what the old one opened |
| Password reset, same files | the challenge on the user row | issue, withdraw, compare, count, consume | mail | late failures of the mail, guesses compared at once | a challenge works once, guesses are limited |
| Member invitations, same files | MemberInvite, accounts | ask, regenerate, register, join | sessions | two transactions to regenerate, two to join | a regenerated code admits nobody |
| Schedules, `repositories/ScheduleRepository.ts`, `services/scheduleService.ts` | Schedule, ScheduleAssignment, ScheduleSong | create, update, add, remove, cancel, answer, substitution | notification intents in the same transaction | only update locks the root; checks outside the transaction | members told and recorded agree; answers survive saves |
| Notification intents, `services/scheduleNotificationService.ts` | none | difference of two reads | outbox | reads at different moments | as above |
| Worship orders, `repositories/WorshipOrderRepository.ts` | songs of the two schedules of a day | save | schedules | SERIALIZABLE against READ COMMITTED writers | songs are one save's |
| Realtime, `realtime/realtimeHub.ts`, `websocketServer.ts`, client `notificationStore.ts` | tickets, sockets, timers | ticket, connect, upgrade, heartbeat, reconnect | outbox, inbox | Redis down, callbacks of old sockets | the app stays connected or on its way; lost peers are dropped |
| Inbox, `services/notificationService.ts` and `notificationStore.ts` | list, cursor | page, merge, message | realtime | messages between pages, twice or never | no doubles, no gaps |
| Mobile session, `mobile/src/services/api.ts`, `store/authStore.ts` | stored tokens, refresh queue, user | refresh, queue, login, logout | sessions | refreshes meeting logouts, death between two writes | one refresh at a time, no reuse of its own making, nobody waits for ever |
| Schedule list, `store/scheduleStore.ts` | two lists, loads, spinners | load, change with rollback | schedules API | answers in any order | a spinner turns exactly while something loads |
| Song list, `store/musicStore.ts` and its screen | list, local changes, query | search, change, reload | songs API | answers older than changes | once settled the list is the server's |
| Page of one song, its screen, `store/musicStore.ts`, `store/chordStore.ts` | song shown and requested, transposition | open, load, transpose, save as default | songs API | answers about songs no longer open | the page waits for its own song only |
| Chord editor, `utils/visualChordEditor.ts`, `components/songs/VisualChordEditor.web.tsx` | sheet, past and future | place, change, move, remove; edit lyrics; undo, redo | the song's form | offsets that move, a history with a limit, sheets replaced from outside | chords stay with their letters; undo goes back the way the edits came |
| Forms, `hooks/useFormExit.tsx` and helpers | value, baseline, draft | edit, leave, save, keep, recover | storage, navigation | everything is awaited while the user goes on | changes are lost by choice only |
| Global administration, `services/adminService.ts`, `repositories/AdminRepository.ts` | users, churches, sessions | update, activate, deactivate, promote | sessions | checks before, revocation after the transaction | whoever was changed is signed out when the request returns |
| Support grants, `services/privilegedAccessService.ts` | SupportAccessGrant | make, bind, revoke | sessions, audit | two sessions binding at once | one session per grant |
| Members and ministries, their services and repositories | role, MinistryMember | permissions save, add, toggle, remove | permissions | overlapping saves | role and memberships are one save's |
| Songs and import, `services/songTransferService.ts`, `songService.ts` | Song, MinistrySong | create, edit, delete, review, import | - | the catalogue changes after the review | only what was reviewed is applied |
| Publisher, `scripts/publisher/`, supervisor scripts | request files, live and candidate files, processes | publish, restart, roll back, recover | Windows tasks, supervisor | every step may fail, the worker may die anywhere | answers are true; a live page has its assets |
| CifraClub import, permissions, tenant isolation, rate limits, PDFs, HTTP layer, screens | caches and counters at most | | | | not modelled, see 5 |

`PROJECT.json` has every component with its files and its status.

## 2. Modules

| Module | What it is |
|---|---|
| `EventDelivery` | abstract: what the notification pipeline promises (record, deliver to all at once, announce, settle) |
| `Outbox`, `MCOutbox` | the dispatcher; implements `EventDelivery` |
| `SessionChain` | abstract: a session has one token, exchanged for one successor, none once it is over |
| `AuthSessions`, `MCAuthSessions`, `AuthSessionsProofs` | login, rotation and revocation as PostgreSQL transactions; implements `SessionChain`; proofs |
| `Schedule`, `MCSchedule`, `ScheduleProofs` | one schedule: saves, single-assignment operations, answers, cancellation, and what members are told; proofs |
| `PushDelivery` | push rows shared by dispatchers without a claim, tickets, receipts, devices |
| `SessionClient`, `MCLogout`, `SessionClientProofs` | the app's tokens, refresh queue, login and logout, composed with `SessionChain` as its server; proofs |
| `RealtimeSocket` | tickets, both ends of each connection, the store's callbacks and timers, the heartbeat |
| `NotificationList` | the inbox: pages of the server's cursor merged with messages |
| `ScheduleStore`, `SongLibrary`, `FormExit` | what the app shows: two lists and the forms |
| `SongPage` | the page of one song, its transposition and its default key |
| `VersionStrip` | abstract: what undo and redo promise |
| `ChordEditor`, `EditorProofs` | the visual chord editor; implements `VersionStrip`; proofs |
| `PasswordReset` | one user's reset challenge |
| `Administration` | administrators' changes to people and churches and the sessions they revoke |
| `SupportAccess` | grants bound to sessions |
| `Membership` | roles and memberships of ministries |
| `ScheduleSongs` | songs of schedules written by schedule saves, worship orders and administrators |
| `SongTransfer` | the catalogue and its import |
| `Invitations` | invitation codes, registration and joining |
| `Publisher`, `PublisherProofs` | the release publisher with the keepers of the API and the web server; proofs |
| `MCDelivery` | instance of `PushDelivery`, `SessionClient`, `RealtimeSocket` and `Publisher`: what must happen in the end |
| `MCClientSafety` | instance of the client's modules and `Publisher` |
| `MCServerData` | instance of the modules about rows of the database |
| `DeliveryProofs` | proofs about `Outbox`, `PushDelivery` and `RealtimeSocket` |
| `AppProofs` | proofs about `NotificationList`, `FormExit`, `SongPage`, `SongLibrary` and `ScheduleStore`, and about the composition `MCClientSafety` |
| `ServerDataProofs` | proofs about the seven modules of `MCServerData`, and about their composition |

`MCDelivery`, `MCClientSafety` and `MCServerData` are products of modules that share no modelled state. A behaviour of theirs moves one of the
modules, chosen at the start by `focus`, and the others stand still: what is checked of each is what a
run of its own would check. Where modules do interact the interaction is in a module: `SessionClient`
has `SessionChain`, which `AuthSessions` implements, as its server; `RealtimeSocket` and
`NotificationList` have both ends; `ScheduleSongs` has all three writers; `Publisher` has the supervisor.

### How the models correspond to the code

**Outbox.** One action per database or Redis call of `processOutboxBatch` and `projectEvent`, in their
order; `pc[w]` is the place in that code. `outbox[e]` is a DomainEventOutbox row (published: `publishedAt`
set), `due[e]` says `nextAttemptAt <= NOW()`, `notif` the Notification rows keyed by event and user.
Each call has a failing form in which it may or may not have taken effect, and the catch it lands in is
the code's: the inner one schedules a retry, the outer one drops the rest of the batch. `processOutboxOnce`
is modelled with its note `followUpRequested` and the moment between the last look at it and the callback
that clears `activeRun`. `Crash` stands for the death of the process and also for the graceful shutdown,
which does not wait for a run.

**AuthSessions.** A transaction is a sequence of actions. Rows it has written are in `tx[p]`, unseen by others
and locked until the commit. The UPDATE of a revocation chooses its tokens when it starts (`RevokeNext`), so
a successor inserted by a rotation that has not committed yet is not among them: this is the race the
session row's own state has to cover. `ended` is a history of what callers were told.

**Schedule.** Likewise; `pending` holds the rows a transaction has written and locks. `before`, `existing` and
the second snapshot are separate reads because other transactions may commit between them. `told` is a
history: the role each member was last told, in commit order, which is the order of the outbox. Ids of
assignments are reused once no row and no request refers to them, so runs need no bound on insertions. A
`COMMIT` that fails is a failure just before it, so `Abort` is not offered at that point. A statement that
writes several rows waits for all of them and runs at once: rows inserted while it waits are then visible to it,
which other interleavings of the same steps cover.

**PushDelivery.** `SelectDeliveries`, `PostBatch` (or `PostFails`, whose request may have arrived), one
`Record` per row and answer, then the same for receipts; `carried` is what a dispatcher has read and not
dealt with, which other dispatchers do not see. An answer of Expo is any ticket. `posts` counts, as history,
the requests that reached Expo. A failed write ends the run like the catch does.

**SessionClient.** A caller has a stack of what it awaits, because the interceptor that handles a 401 logs
out, and the logout calls the API again. `isRefreshing` is the flag of `api.ts`; waiting in the queue is a
stack entry. An access token stands for its session and may expire at any moment. `Kill` may come between
any two writes to storage; `cutShort` remembers that it left a spent token there.

**RealtimeSocket.** `socket`, `wanted`, `timer` are the variables of `notificationStore`; `client[s]` and
`peer[s]` are the two ends, each of which learns of the other's end on its own, and of a cut network
only by the heartbeat.

**NotificationList, ScheduleStore, SongLibrary.** A load is a record from the moment it is asked for until
its answer is applied or dropped; the server may change in between, and answers come in any order. The inbox merges
pages by the code's map from ids to rows (`ById`), which keeps each id in its first place.

**FormExit.** Values stand for what the form holds. `task` is what is awaited (saving, keeping or
discarding the draft); the user may go on editing, leave or come back meanwhile, as the screens allow.

**SongPage.** `detail` is the part of `musicStore` about one song, `chord` the chord store; a song is its default
tone. The page is one component that stays mounted while its route changes, so what it awaits may end on
another song. `PageState` is `getSongDetailViewState`.

**ChordEditor.** A sheet is what `editorLines` reads: lines with their lyrics and the chords marked on them, each at
its offset; `serializeEditorLine` writes a line such that it reads back the same, and `Lines` are those for which it does.
`ReplaceLineLyrics` is the common beginning and end of the code with its two filters. `value` and `history` move
together as in `commit` and `undo`; what the form puts in place starts a new history.

**PasswordReset, SupportAccess, Membership, Invitations, SongTransfer, Administration.** A request is a
sequence of statements; each conditional update is one action with the condition of its WHERE. Where a
transaction reads and then writes, others may write in between unless a row it has written excludes them.

**ScheduleSongs.** A worship order sees the database of its first statement and fails when a row it
writes has changed since (SERIALIZABLE); a schedule save updates the root first and then sees what is
committed (READ COMMITTED).

**Publisher.** `worker` is the place in `publish`, in its catch, or in the restart; `job` what its local
variables know, lost when it dies. A web release is its assets, its page and its manifest, the three ranks
of `copyWebFiles`. Every helper may fail, the ones that stop or start something before or after doing so.

## 3. Runs

| Run | Bounds | Shows |
|---|---|---|
| `outbox` | 2 workers, 2 events (3 recipients), batch limit 2, 2 faults | `PublishedReachedEveryone`, `OnlyLapsedEventsAreClaimed`, `ExpiredStaysGone`, `EveryEventIsPublished`, `DeliverySpec` |
| `auth_sessions` | 2 sessions, 4 tokens, 2 requests at once, 2 passwords | `SingleChain`, `EndedIsOver`, `ChainSpec` |
| `schedule_saves` | 2 members, 2 roles, 2 requests at once; update, answer, resolve | `ToldMatches`, `UnprivilegedKeepsMembers` |
| `schedule_all` | 1 member, 2 roles, 2 requests at once; every operation | `AnswersSurviveSaving`, `SubstitutionResolvedOnce` |
| `delivery` | push: 1 row and 2 dispatchers, or 2 rows and 1 dispatcher, batches of 1, 2 attempts, 1 fault; client: 2 callers, 1 session, 2 tokens; socket: 2 sockets, 2 hubs, 2 connects at once; publisher: 2 requests (a publication, a restart), 1 build, 2 deaths | `PushesAreBounded`, `PendingIsSettled`, `WaitersAreReleased`, `AlwaysOnTheWay`, `LostPeersAreTerminated`, `RequestsEndInService` |
| `client_safety` | session: 2 callers, 2 sessions, 3 tokens; inbox: 4 notifications, pages of 1, 2 loads at once; lists: 2 loads, 2 changes; songs: 2 songs, 2 versions, 2 changes; form: 3 values; page: 2 songs, 3 tones, 2 openings; chords: lines of up to 3 letters, sheets of size 4, 3 edits, a history of 2, 1 sheet from the form; publisher: 2 requests, 2 builds, 1 death | `ClientTypes`, `ReuseOnlyAfterKill`, `InboxShownOnce`, `SpinnersMatchLoads`, `SettledListIsCurrent`, `EditsAreLostByChoice`, `StrandedByLateSavesOnly`, `ChordsFollowTheirLetters`, `StripSpec`, `PagesHaveTheirAssets`, `AnswersAreTrue` |
| `server_data` | reset: 2 challenges, 3 requests, 2 tries; administration: 2 people, 2 churches, 2 logins, 2 requests; grants: 2, 2 sessions, 3 uses; membership: 1 member, 2 ministries, 2 requests; songs of schedules: 2 services, 1 song, 2 saves; import: 2 songs, 2 contents, 1 import and edits; invitations: 3, 2 e-mails, 2 requests | `ServerTypes`, `ChallengeWorksOnce`, `GuessesAreCounted`, `NewerChallengeSurvives`, `ChangedUsersAreSignedOut`, `GrantServesOneSession`, `PermissionsAreOneSave`, `SongsAreOneSave`, `UnpermittedSavesKeepSongs`, `OnlyReviewedIsApplied`, `RegeneratedCodesAdmitNobody` |
| `login_race` | 1 session, 2 tokens | violation of `LiveSessionsUsePassword` |
| `schedule_add_race` | 2 members; update, add | violation of `UnprivilegedKeepsMembers` |
| `schedule_cancel_race` | 2 members; add, delete | violation of `ToldMatches` |
| `schedule_double_answer` | 2 members; add, answer | violation of `OwnerRespondsOnce` |
| `logout_stuck` | 1 caller, 1 session, 2 tokens | violation of `LogoutFinishes` |

Why the bounds are enough. In `outbox` two workers suffice for every take-over (one whose lease lapsed, one
that claimed again); an event with two recipients can be left half published; two events give a batch
whose rest is dropped by the outer catch; with two faults a step and the handler of its failure both fail. In
`auth_sessions` four tokens allow a session whose token was rotated twice next to another session, so that
consumed tokens are presented early and late; a request starts over as often as it likes, so two at once give
any sequence of requests with every pair overlapping. In `schedule_saves` two members let a save lock, drop,
insert and change different rows; the rows of different members interact only through the snapshots, which
`ToldMatches` compares as a whole, while the two properties of `schedule_all` speak of a single row. ACCEPTED and
DECLINED are never told apart by the code modelled, so one of them stands for both.

In `delivery` a batch of one with two rows has a row behind a full batch; two attempts are one that fails and one
that uses the row up; two sockets with two connects at once give the old socket whose close clears the
reference to the new one; a publisher that dies twice dies once at its work and once at the recovery of it. In `client_safety` two callers give one that refreshes and one that waits, and a third
token one to be spent twice over; an inbox of four in pages of one has a gap that could open between two
pages; two builds with two requests give a publication after one that was rolled back, interrupted or
submitted again, and one death may fall at any step, recovery included; two openings of a page are one whose answers
come late and one they come to; three edits overflow a history of two, and a line of three equal letters next to
shorter ones has changes at its beginning, its end and inside it. In `server_data` two requests overlap on
every row; three of them where a third must come after both (guesses at the limit, uses of a
grant). What grows with the bounds beyond that is repetition of the same overlaps.

Symmetry is used in runs without liveness only: requests or sessions that no constant or formula tells apart.

Deadlock is checked except where the system really may stop: where cancellation ends it (`schedule_all`,
`schedule_cancel_race`) and in the runs whose counters are used up or whose user may have nothing left to do
(`delivery`, `client_safety`, `server_data`, `logout_stuck`).
In `schedule_all` a lock cycle between a save and a cancellation is reachable; PostgreSQL breaks it by
aborting one of them, which `Abort` models.

**Fairness.** `EveryEventIsPublished`: weak fairness of what a running process does next, of the timer when it is
idle (`setInterval` in `startOutboxDispatcher`), of starting a process that is down (its supervisor) and of the
clock. Extra calls of `processOutboxOnce` have none, so nothing depends on `followUpRequested`. Faults
end only because a constant bounds them: an outage that never ends would postpone publication for ever, in the
code too. `PendingIsSettled`: the polling of each dispatcher and the passing of time; none of devices, answers
or faults. `WaitersAreReleased` and `LogoutFinishes`: a call is answered or times out (axios has a timeout) and
storage answers (`Proceeds`); logins, expiry and the end of the app have none. `LostPeersAreTerminated`: the
interval of the WebSocket server; not the network, which may stay silent for ever.
`RequestsEndInService`: the worker's loop (every helper it calls has a deadline, 150 s for a script and 115 s for
a restart, and the Task Scheduler starts a dead worker again three times, one minute apart, more often than
`MaxDeaths`), the production task that starts the API, and the supervisor, whose loop never gives up. Their
starts and builds are taken to succeed in the end; the publisher's own may fail at any time.

### What the violations say

* `login_race`: `login` compares the password, then does other work, then writes the session in a
  transaction that looks at nothing. A password change in between revokes what it finds and misses the
  session about to be written. `docs/security-program/adr-sessoes-refresh-tokens.md:88` says a change revokes
  all sessions of the user.
* `schedule_add_race`: the comment in `ScheduleRepository.update` (273-275) says the root lock protects
  authorised changes from a request without permission over members. `createAssignment` does not take that lock,
  and a member added after the save's reads is deleted, silently.
* `schedule_cancel_race`: a member added during a cancellation keeps an active row and is told of the assignment
  only, against `docs/security-program/adr-schedule-notifications.md:8`.
* `schedule_double_answer`: "Esta escala já foi respondida." is checked before the transaction only.
* `logout_stuck`: when a refresh is refused, `api.ts` logs out before it clears `isRefreshing`. The logout's call
  to remove the push device is answered 401 too, joins the queue of the refresh that waits for it, and
  neither ends, although `authStore.ts:320` says a stale push registration must not block logout.

One more disagreement is stated as the exception of a property that holds, `StrandedByLateSavesOnly`: `updateSong`
makes the song it saved `currentSong` and `requestedSongId` (`musicStore.ts:243-244`) whichever song is open when it
ends. If that is another one, the answer to its load is dropped (`musicStore.ts:179`) and the page says
"Carregando música..." with nothing on its way, until it is opened again. `utils/songDetailState.test.ts:18` means
that state for a song that is still being loaded, and the chord store does look which song is active
(`chordStore.ts:49`).

## 4. Proofs

Eight modules prove, for all values of the constants allowed by the named assumptions of the modules they
extend (sets of requests, rows and sessions of any size, limits of any value):

| Theorem | Argument |
|---|---|
| `DeliveryProofs!OutboxTypes` | one step per action |
| `DeliveryProofs!PublishedReached` | `IInv`: a claimed or locked event is recorded (`HeldIsRecorded`), what was heard was projected (`HeardHasCopy`), and `PublishingIsSafe`: whoever is publishing an event has its notifications written and, for every recipient no longer in `todo`, heard. The property alone is not inductive: nothing in it says what a worker about to set `publishedAt` has done. |
| `DeliveryProofs!OnlyLapsed` | `LockInv`: rows locked by a claim are pending and due, and no two workers lock the same row; so a lease is written only over a lapsed one. |
| `DeliveryProofs!ExpiredGone` | `RetentionInv`: expired rows belong to published events that no worker holds or can claim. |
| `DeliveryProofs!OutboxIsDelivery` | under `IInv` each action maps to an action of `EventDelivery` or a stutter. |
| `AuthSessionsProofs!Invariant` | `IInv` relates what a transaction has written but not committed (tokens, families, sessions in `tx`) to the committed rows through the row locks: written rows are live and locked by one request, a family is written before its session, and a rotation between its update and its commit holds the only unconsumed token. None of the properties below is inductive without that. |
| `ChainIsSingle`, `FamilyAndSessionAgree`, `EndedHolds` | conjuncts or consequences of `IInv` |
| `RevocationFinal` | the commit writes only sessions that are live under `IInv` |
| `AuthSessionsProofs!Refinement` | each step implements one of `SessionChain` or a stutter; a commit that revokes maps to `End` of the sessions it wrote, a rotation's commit to `Exchange`, or to a stutter when the session was revoked meanwhile |
| `DeliveryProofs!PostsHaveABound` | `PushInv`: attempts stay within `MaxAttempts` (`AttemptsAreBounded`), and posts are paid for (`PostsAreCounted`): the posts of a row do not exceed its counted attempts plus the faults plus the dispatchers that have posted it and not written the answer. The property bounds posts alone, and no step can be shown to keep it without knowing who still holds the row. |
| `DeliveryProofs!OnTheWay` | `SocketInv`: a present app wants its connection, and has a live socket, a timer or a connect under way. The middle part is needed because the callbacks look at `shouldReconnect` and not at the user. |
| `ServerDataProofs!OnePasswordPerChallenge`, `GuessesCount`, `NewerSurvives` | `ResetInv`: a request works with an issued challenge (`IssuedFirst`), the row's challenge has set no password and has counted the wrong PINs answered for it (`RowIsCurrent`), a challenge sets one password. |
| `ServerDataProofs!RegenerationIsFinal` | `OpenInv`: stopped invitations are inactive for good, and a request holds one only if it came before (`StoppedAreOver`, `BarredAreOver`, `JoinsAreOpen`). |
| `ServerDataProofs!ServesOneSession` | `BoundInv`: who was served by a grant is the session it is bound to (`ServedAreBound`), and a use is a whole record (`UsesAreWhole`). |
| `ScheduleProofs!ResolvedOnce`, `AnswersSurvive` | `SaveInv`: a row is written by one transaction at a time (`RowsAreLocked`) and one holds the root (`RootIsLocked`); as long as a row is the one a save has read, its role is the one the save has read (`ExistingIsCurrent`), because other requests keep the roles of the rows they write (`OthersKeepRoles`) and ids of new rows are fresh; so a save never writes a row that has the role it asks for (`SavesChange`), and a resolution that is to commit has locked an open request (`ResolvesOpen`). The properties speak of the step that commits only, and say nothing of what the transaction wrote before it. |
| `ScheduleProofs!ToldIsTrue`, `UnprivilegedSavesKeep` | assume `SavesOnly` (no add, remove or delete: with them both are false, as two runs show). `ToldInv`: while a save holds the root its first read is what is committed (`BeforeIsCurrent`), the notes about to be recorded are the difference the commit makes (`NotesAreTrue`), answers and resolutions change nobody's membership (`KeepsMembers`), and a save without permission finds only inactive rows to write (`LeavesMembers`). |
| `ServerDataProofs!ConfirmedIsApplied` | `TransferInv`: what an import has written and what is left are the confirmed items (`WritesAreConfirmed`). |
| `ServerDataProofs!ChangesSignOut` | `AdminInv`: the sessions that were live at the write of a change belong to the users it concerns (`AliveAreTheirs`), so revoking by user, or by church, takes all of them but those of users who have left the church meanwhile. |
| `ServerDataProofs!PermissionsOneSave` | `MemberInv`: the lock of the user row lets one save of a person past it (`OneSaver`); what it has deleted is all there was besides what it will write (`DeletedAllOthers`), and once the row is free the links are the last save's (`LinksAreTheLastSaves`). |
| `ServerDataProofs!SongsOneSave`, `UnpermittedKeep` | `SongInv`: saves hold disjoint sets of schedule rows (`OneHolder`). A schedule save knows the songs of its row as it read them, and what it has deleted (`ScheduleSaveHolds`); a worship order knows those of the schedules it has not reached from its snapshot, and of those it is through with that what it saw and does not want is gone (`OrderHolds`). Administrators write past the lock, which is where both speak of `meanwhile`. |
| `ServerDataProofs!ServerTypesHold` | a behaviour of the composition is a behaviour of each of the seven parts (`PartsBehave`), so all that is proved of these holds of it |
| `AppProofs!ShownOnce` | `InboxInv`: rows are distinct; without a sign-out in between one load at most is under way, from where the list ends, and the list has every number from the newest it was loaded with down to the cursor (`OneLoad`, `Reaches`). The lemmas say what merging by id does to any two sequences: nothing lost, nothing twice. |
| `SessionClientProofs!ReuseNeedsAKill` | `ClientInv`: the stack of a caller is a chain of calls that wait for each other with at most one refresh on it (`StackOk`), and of all callers one refreshes (`OneRefresh`); every token stored, shown to the server or on its way back is one the server knows, and the one that is to be shown next is unspent, unless a kill has cut an exchange short (`TokensInv`). The property is about `chain` only and says nothing of where the tokens are. |
| `SessionClientProofs!ClientTypesHold` | of `ClientInv`; that calls nest at most four deep follows from who may wait for whom (`Link`) and from one refresh per stack |
| `PublisherProofs!LivePagesAreWhole`, `AnswersTrue` | `PublisherInv`: how far each half of a release has been moved, copied or taken back (`ApiIsWhere`, `WebIsWhere`) and what the worker's place tells of it (`Progress`, `ProgressOfRestart`, `ProgressOfUndo`); the assets that were live before are there until the page that needs them has been replaced, and are back before it is. |
| `AppProofs!EditsLostByChoice` | `FormInv`: what is being kept or discarded is what the covered form holds (`AskedAboutTheForm`); with changes on the screen, leave to go without a question was given by a save that they were made during (`LeaveHidesLateChanges`). |
| `AppProofs!StrandedOnly` | `PageInv`: one key is saved at a time, and the offset shown is that of the active song; each action is then followed through `PageIsTrue`. |
| `AppProofs!SettledIsCurrent` | `LibraryInv`: what is shown, and an answer that will be shown, are current or a reload is due, song by song and unless a change of the song has not been heard of (`AnswersAreCurrent`, `LocalsAreStored`). |
| `AppProofs!SpinnersAreTrue` | `StoreInv`: the loads of a list have keys of their own, none later than the last (`LoadsHaveKeys`); the refreshes among them are counted (`Counted`). |
| `EditorProofs!EditorTypes` | `EditorShape`: what is shown and all that undo and redo may bring back are sheets, and a picked chord is one of the sheet shown; that the past is made of sheets is what `EditorTypeOK` leaves out and an undo needs. |
| `EditorProofs!ChordsFollow` | of `EditorShape`, and of what the operators do to lines of any length: `MarksAt` gives marks at the places only and in their order, shown by the least counterexample as the library's induction is out of reach (`MarksAtKeeps`); the common beginning is the longest there is and the common end the longest beyond it (`SharedIsMost`, `SharedEndIsMost`), so no way to write the new lyrics over the old ones replaces fewer letters (`FewestReplaced`). |
| `EditorProofs!EditorIsStrip` | past, sheet and future are sequences (`EditorInv`); `Undoes` and `Redoes` are what reversing, appending and taking the last do to the strip, `Pushes` what the limit does to it |
| `AppProofs!ClientTypesAll` | a behaviour of `MCClientSafety` is one of each of its parts (`AppBehaves`), so all that is proved of these holds of it |
| `PushTypes`, `SocketTypes`, `ListTypes`, `ResetTypes`, `InviteTypes`, `SupportTypes`, `AdminTypes`, `MemberTypes`, `SongTypes`, `TransferTypes`, `FormTypes`, `PageTypes`, `LibraryTypes`, `StoreTypes`, `ScheduleTypes` | type correctness of those modules |

The types of `Outbox`, `AuthSessions`, `Schedule`, `PushDelivery` and `RealtimeSocket` are proved and therefore in no
run. So are `FamilyFollowsSession` and `RevocationIsFinal` of `AuthSessions`, which `ChainSpec` follows up in its run:
a revoked session keeps its reason in `SessionChain`.

What the proofs assume of the constants is in the modules, by name, and no more than the code has: limits are
natural numbers, sets that are counted are finite, the values that stand for nothing are none of the others
(`EditorAssumption`, `PageAssumption`, `LibraryAssumption`, `StoreAssumption`, `PublisherAssumption`, ...); TLC evaluates each in a run.

Writing the proof of `PermissionsOneSave` showed a fault of an earlier model of `Membership`: a save refused after it had
taken the lock kept its slot for ever, which no run could tell. `LockUser` now frees it, as the transaction does.

Only model-checked: liveness (`EveryEventIsPublished`, `PendingIsSettled`, `WaitersAreReleased`, `LostPeersAreTerminated`,
`RequestsEndInService`; fairness is out of the prover's reach), and of course the violations. Every invariant, every
action property and every refinement that a passing run checks is also a theorem.
That `AuthSessions`, `Outbox` and `ChordEditor` implement their abstractions is both checked and proved.

## 5. Abstractions and what is not modelled

* Time. Leases and backoffs end at any moment (`TimePasses`), so nothing rests on two minutes being long
  enough. Retention is the opposite: 90 days are taken to be longer than any worker holds an event
  (`Expirable`). Expiry of sessions and tokens is left out: an expired token is answered like one never issued.
* `RevokeTokens` gets the locks of all its tokens at once and `RotateRead` reads token, family and session
  in one step; the comments there say why no behaviour is lost that the properties could tell.
* In `Outbox`, Redis and the WebSocket fan-out are one call that returns or fails; push and receipts are calls
  that may fail at the end of a batch, `PushDelivery` has their inside.
* In `Schedule`: songs, titles and dates only as "something else changed"; moving a schedule to another ministry;
  links to worship periods; the raw CRUD of global administrators on schedules and assignments; users are always
  active; managers are not members, so that nobody is left out for being the actor.
* Events to managers only (answers, resolutions) are not told apart.
* `PushDelivery` leaves out whose a device is; a disabled device is one that rows are not sent to.
* `NotificationList` and `RealtimeSocket` leave out read marks and the unread count. Messages may be lost or
  repeated, so the fan-out of the hub to the sockets of a user needs no model of its own.
* `ScheduleStore` knows a list by the load it came from: changes in place are left out, emptying and restoring are not.
* `SongPage` leaves out the text of a song (transposed with its tone), its links, deletion, scrolling and the font.
* `ChordEditor`: letters are whole graphemes and make no line a directive or a comment; brackets and braces, which
  `replaceLineLyrics` refuses, are not typed; the conversion of chords over lyrics, like the text mode, yields any
  sheet of the instance. Line endings are all alike.
* `Administration`: names, e-mails, MFA, the audit log, hard deletion, and the CRUD of the other resources.
* `Membership`: instruments and functions; a deleted ministry's schedules, songs and invitations.
* `Publisher` is production. The builder prepares a candidate only while no request is being worked on
  (`PUBLISHER.md` asks for it); a candidate replaced between the check and the renaming would not be noticed, as
  only the web manifest is looked at again. A renaming and the copy of the web directory to the backup are
  one step each; the supervisor's build of a missing web directory too. Writing the answer does not fail (a full
  disk), nor the unlinking of the claimed file. Two workers never start over one stale lock (the task ignores a
  second instance), and the PID in the lock of a dead worker is not in use again, which would keep every later one
  from starting (`worker.cjs:75-80`). The supervisor builds the web when its directory is missing, not when only the
  manifest is; its restart of the API at its own start is left out. The inbox holds requests only.
* CifraClub import, PDFs, the HTTP layer and the screens keep nothing between requests or only fields of one
  screen; permissions and tenant isolation only read or rewrite a query; the rate limiter's counter is one
  atomic script. There is no order of steps in them to get wrong, so they have no module.
* Of modelled components: MFA, profiles, `logoutAll`, step-up, expiry of sessions, the order and the moments of songs,
  further pages of the song list, staging and `status` requests of the publisher, and the installation,
  update and repair scripts.

### Behaviours the models have and no property speaks of

The repository says nothing about them that a property could quote, or only in the text of a message:

* two administrators, each found not to be the last, demote each other (`adminService.ts:184`, `CountGlobalAdmins`);
* a refresh that returns after a logout writes its tokens back (`api.ts:100`, `StoreRefresh` after `ClearSession`);
* an answer to one role lands after a save changed the role (`ScheduleRepository.ts:455`, `AnswerAssignment`);
* update and deletion of a schedule take its rows in opposite orders (`ScheduleRepository.ts:547`): PostgreSQL aborts one;
* a rollback restores a list older than the last load (`scheduleStore.ts:215`);
* a socket whose ticket arrives after a disconnect is opened (`notificationStore.ts:155`);
* `receiptCheckedAt` of a failed delivery stays set and the next receipt is not looked at (`domainEvents.ts:264`);
* changes made during a save that then leaves the form in place are compared with the saved value (`late` in `FormExit`).

Seen and not modelled: an answer given while a substitution request is open is reported to managers as a request
(`scheduleNotificationService.ts:178`); a session revoked while connected keeps its socket, as it is looked up at the
upgrade only (`websocketServer.ts:33`); a device that another user registers takes the row over while deliveries of its
former owner are pending (`notificationService.ts:80`); saves of one user's permission exceptions that overlap may
leave a union; loads of the global administration screen that overlap may show the rows of the former resource.

## 6. Plan

Done: the modules above, in the order sessions, notifications, schedules, then the client, the rows of the database
and the publisher. What is left, the most useful first:

1. Composition: `Schedule`'s `told` as the recorded events of `EventDelivery`, so that what a member ends up
   having heard can be stated end to end.
2. An abstract at-least-once feed implemented by `RealtimeSocket` and `NotificationList` together.
3. Ownership of devices in `PushDelivery`, MFA challenges, and staging in `Publisher`.
