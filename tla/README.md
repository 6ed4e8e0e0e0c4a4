# EU-DSS Sign: TLA+ models

EU-DSS Sign is a desktop application that signs and verifies documents with a
PKCS#11 card: a React interface in a Tauri shell, a Rust signing core that owns
the card, and a local Spring Boot server (a sidecar) that prepares, assembles
and validates signatures with the EU DSS library. This directory keeps TLA+
models of the parts of it whose correctness depends on order, timing, failure
or on several flows sharing one card.

## The system

| Component | State it keeps | Operations | Talks to |
|---|---|---|---|
| Signing core, `eudss-signer/src` | the opened token, the live PKCS#11 login, the instant of the last activity (idle TTL 300 s) | open, status, unlock, lock, list_certificates, sign | PKCS#11 middleware and card |
| Shell commands, `eu-dss-ui/src-tauri/src/{signer_state,commands}.rs` | `Mutex<Option<Signer>>` | the six commands; opens the signer on demand, drops it on TokenUnavailable | signing core |
| Backend supervisor, `src-tauri/src/{backend,lib}.rs` | port, child process, ready flag | init, poll_until_ready, kill_child, backend_base, backend_ready | sidecar process |
| Agent context, `eu-dss-ui/src/agent/AgentContext.tsx`, `PinModal.tsx` | session snapshot and countdown, certificates, selected key, PIN modal (open, busy, error, resolver) | recheck, ensureUnlocked, promptUnlock, submitPin, cancelPin, lock | shell commands |
| Sign workspace, `SignWorkspace.tsx`, `signFlow.ts` | documents and their status, busy, done, snapshot of the batch | addFiles, detect, signOne, runBatch, remove, reset | agent context, server, history |
| Deep links, `App.tsx` (DeepLinkHandler), `DeepLinkSignModal.tsx`, `DeepLinkVerifyModal.tsx`, `deepLinkShared.ts` | pending request, phase of the overlay, run ids | handle, load, runSign, runValidate, close, post the callback | agent context, server, the calling site |
| Verification page, `ValidatePage.tsx` | file, second file, result, missing-document notice, run ids | pickFile, verifyPrimary, verifyPair, clear | server, history |
| First-run wizard and prerequisites, `FirstRunWizard.tsx`, `selfTest.ts`, `PrerequisitesScreen.tsx`, the root of `App.tsx` | the stored gate `passed`, the rows of the detection, step, PIN entry (busy, locked), named certificate, test result | detect, poll, continue, test, retry, skip, enter, relaunch | shell commands, server, localStorage |
| Home screen, `AccueilScreen.tsx` | the history's entries it shows | navigation, the badge of an entry | history, agent context |
| Local history and settings, `services/{history,store}.ts` | at most 50 entries in localStorage | add, list, clear | localStorage |
| Server, `eu-dss-server` | none between requests; trusted lists refreshed in the background | prepare, assemble, validate | DSS library, TSA, LOTL |
| Legacy agent, `eu-dss-agent` | token, expiry instant, idle-lock task | unlock, lock, listCertificates, signDigest, close; TLS bootstrap | PKCS#11 through DSS |

How they interact: a click or a deep link starts an asynchronous flow in the
interface. The flow asks the shell commands for the session status, waits for
the PIN modal when the session is locked, asks the server for a digest, the
card for its signature, and the server again for the signed document. Every
arrow is an await, so any other flow, the user, the idle timer and the card
itself can act in between. The shell serialises the card commands with one
mutex; nothing serialises the flows.

What makes each part hard, and what must hold:

* Signing core and commands: the card is pulled, swapped or blocked between
  and during commands; time passes while the card computes. A signature needs
  a PIN presented to the card that is still inserted, within the idle TTL; a
  login never outlives its card or its `Signer`; a session that cannot sign must
  end.
* Agent context: one modal and one resolver serve every flow. A flow that
  waits for a PIN must have a modal to answer it; one submission answers the
  flow that asked; a prompt is lost to nothing but another flow's prompt; a
  cached certificate list must not be used for another card.
* Sign workspace: a batch works on a snapshot of documents while the user acts
  and while other runs may work on the same documents. A run makes at most one
  signature of a document, retries only after `locked`, and once; a signed
  document stays signed.
* Deep links: single-shot overlays with run ids; late answers of an abandoned
  request must not show up in the next one; a signature is never silent; a
  failed callback leaves the document available; who waits for a PIN can leave,
  also while the wizard is shown, which has no PIN modal; a spinner, which has no
  button, always has work behind it that can end it.
* Verification page: results, notices and history entries belong to the file
  that is shown.
* Backend supervisor: one child, killed when the shell exits; ready
  only after a health answer.
* Server: prepare and assemble must see the same parameters and format; the
  format chosen by the interface and by the server must agree; the overall
  verdict is computed in four places that must agree (server, page, overlay, the
  calling site), and read once more by the home screen.
* First-run wizard: detections overlap (mount, interval, button) and the oldest
  may answer last; the test unlocks the card itself, beside the agent context,
  presents the PIN once, and may outlive the wizard the user skipped; the pad is
  disabled and the spinner has no button while it runs; the gate must survive a
  restart at any instant.
* Legacy agent: the idle-lock task races unlock and sign.

## Modules

| Module | Kind | Models |
|---|---|---|
| `PinSession` | abstract specification | what the signing core promises: signatures only under a running PIN session of the inserted card |
| `VerifyPromise` | abstract specification | what the verification page promises: one verification at a time, that of the files on the screen, and every edit ends it |
| `LinkPromise` | abstract specification | what a verification link promises: its own document, its own report, nothing sent without a consent |
| `Signer` | component | signing core and shell commands, with the card, the clock and the end of the process as environment |
| `AgentContext` | component, extends `Signer` | the context's flows and the PIN modal, each await a command of `Signer` |
| `SignWorkspace` | composition, extends `AgentContext` | batch signing and the key screen, over context, core and card |
| `LinkOverlay` | shared component | what the two link overlays share: a link arrives, its document loads, the overlay closes |
| `DeepLinkSign` | composition, extends `AgentContext`, `LinkOverlay` | a signing link over context, core and card |
| `Sidecar` | component | the server's process, its supervisor, the application's window and exit |
| `DeepLinkVerify` | composition, extends `LinkOverlay`, `Sidecar` | a verification link, from the cold start on |
| `Verdict` | pure functions | the four computations of the overall verdict, and the home screen's badge |
| `VerifyPage` | component, extends `Verdict` | the verification page, the server's answers, the history |
| `Prerequisites` | shared component, extends `Signer` | the rows of what is missing and the detections that fill them |
| `FirstRunWizard` | composition, extends `Prerequisites` | the wizard, its self-test, the gate and the prerequisites screen, over the core and card |
| `MCSigner`, `MCSignWorkspace`, `MCDeepLinkSign`, `MCDeepLinkVerify`, `MCVerifyPage`, `MCFirstRunWizard` | TLC instances | model values, symmetries |
| `SignerProofs`, `ContextProofs`, `WorkspaceProofs`, `LinkOverlayProofs`, `DeepLinkSignProofs`, `DeepLinkVerifyProofs`, `VerifyPageProofs`, `WizardProofs` | proofs | see "What is proved" |

An action has the name of its function in the code where there is one, and a
continuation after an await is an action named after what was awaited
(`SignAnswered`, `Posted`). A definition whose name says what it forgets
(`StatusTouches`, `PinErrorStaysBusy`) is no part of any specification: it is a
plausible defect of the definition that follows it, kept to show that the
properties notice it.

### Signer

`opened`, `live` and `session` are the `Option<Signer>` behind the mutex, its
`live` field and the age of `SessionState.unlocked_since_activity`. `None` and
an activity older than the TTL answer every question of `SessionState` alike,
so both are the age `Lapsed`. `live` is a record of the card that took the
login and of whether its handle still works: pulling a card invalidates the
handle but not the `Option` that holds it. `call` is the command that holds the
mutex while the card works. `reply` is what each client was last answered.

`unlock` and `sign` wait for the card, so each is a Begin action and one End
action per outcome; the card can be pulled and time can pass in between, which
is why `SignOk` sets the session age to the age of the request: the code reads
`now` when `sign` starts (signer.rs:108) and touches the session with it
(signer.rs:127). The other commands answer in one step. `OpenFails` is
`SignerState::with` returning early: no module, no token, or any other failure
of the middleware (`OpenErrors`); `AfterError` is its error path. `Answers` is
what each command may answer, error code by error code, and is the part of the
type that a slip in a command breaks.

The card and its middleware are external: they may be plugged, pulled and
installed at any time, block after `PinTries` wrong PINs, and fail any call
with `pkcs11_error`, and with `token_unavailable` when the card is or was out.
Digest algorithms, lengths and key kinds are abstracted to "well-formed or
not"; the four error codes that differ from `pkcs11_error` only in wording are
folded into it. `ProcessEnds` is the end of the application at any point, in
the middle of a command too: `SignerState` lives in memory, so the next process
starts with `None`, while the card keeps its tries. `PinSession` has `Quit` for
it. Poisoning of the mutex (a panic inside a command) is left out.

### AgentContext

`available` is the context's `status`; `pinOpen`, `pad` (`pinBusy`, and the
resolver that the running `submitPin` closed over) and `pinResolver` are the
modal; `ensure[f]` is where flow f's `ensureUnlocked` is, `cached[f]` the
`certificates` its closure kept from the render of the click, `given[f]` what it
resolved with. An await is three steps: the command is sent, `Signer` runs it,
the continuation takes `reply`. `PadLoaded` follows submitPin to the letter: it
closes the modal and clears the resolver *whichever it is by now*, but resolves
the one it closed over. `PinModal` gathers the steps of the modal that the user
takes, so that a composition can say when the modal is mounted; everything else
is `ContextEvent`.

Abstractions: a card has one certificate, or none when it is in `Blank`
(`ListedTo`), so the selected key is the card's. The runs have no blank card; the
proofs have any number.
The session snapshot and its countdown are display state; where a button
depends on them (unlock or lock on the key screen) both may be clicked.
A settled promise is continued before any other event (`Quiet`), as the
microtask queue does. An instance without `Probe` starts after the first
recheck. The overlays and the modal do not trap the focus, so the keyboard
reaches the buttons below them, the language menu included: overlapping flows
and restarts of a link's effect are legal histories, and the runs have both.

`PromptLost(f)` is what finding 2 leaves behind: a flow that awaits a promise
which neither the modal nor a submission will settle. `PromptLostToAnother` says
that this is the only way into it.

### SignWorkspace

`docs`, `busy`, `done` and `signedSnapshot` are the page's state; `run[f]` is a
call of `runBatch` and, inside it, of `signOne`. `Starts` and `Finish` are its
loop: the end of one document and the beginning of the next are one step, as in
the code. A run knows whether its page is gone (`left`): its `setState` calls
then do nothing, while the card and the server are still asked. The retry after
`locked` keeps the batch's certificate, as signOne does. The server's prepare
and assemble succeed or fail. `Buttons` is what the page's view offers (the
panel of documents, or the success view), and the user's actions are guarded by
it. Files are told apart only by their place in the list; the history's entries
of signatures are left out here.

### LinkOverlay and DeepLinkSign

`url` is the link shown, 0 when there is none; links are numbered in the order
in which they arrive, so an answer of an old link is recognisable for ever.
`runId` is `runIdRef`; `loader[i]` is the loading effect that started under run
id i: its first look at the sidecar, its poll with the 30 s deadline, the
document's download. `ParseRequest` is the parser of the link, which refuses it
or not. `Close` is the button that closes; whether the block on the screen
offers one is said by `Buttons` of each overlay, block by block (a phase whose
data has not come yet renders none).

`sign[f]` is a call of `runSign`, with the run id, document and certificates it
closed over. Every write is guarded by the run id where the code guards it, and
only there: `Posted` sets the fallback unguarded, as DeepLinkSignModal.tsx:206
does. `Restarts` counts the restarts of the effect from the run ids spent.
`Chosen` is the certificate a run takes; with none it fails (`Fail`), as runSign
does. `onboarded` says whether the shell is shown or the wizard: the overlays
are mounted beside both, the PIN modal in the shell only, so `PinModal` is
enabled only there, and `SwitchGate` may come at any time. The sidecar is its
`ready` flag only: what it can do is in DeepLinkVerify. `consent` and `made`
count clicks and signatures per link, for the properties only.

### Sidecar and DeepLinkVerify

`Sidecar` has the supervisor's `ready` and `child`, the process itself, the
poller's thread and the application's life: the setup hook starts the server,
the window's destruction and the exit kill it, each of which may come without
the other. `Crash` is an end without either event (a signal, an abort): nothing
kills the server then, and it stays behind. `NoOrphan` is about an application
that exits. The process boots, serves and dies when it likes. A child that died
keeps its handle, and the flag stays true, as in backend.rs. The poller gives
up after its deadline at any time; time itself is not modelled.

`validation[i]` is the `runValidate` of run id i; at most one can start per run
id, because the phase leaves `confirm` in the click itself. `consent` and
`posted` count, per link, for the properties only.

`LinkPromise` is the same overlay without run ids, requests, sidecar or work in
flight: a phase, and what is shown in it. The mapping takes from the overlay what
its blocks render (`Visible`): the document in `confirm`, the report in `sending`
and `result`, and nothing when `url` is 0, although the component keeps its
state. A run whose id has passed maps to nothing at all.

### Verdict and VerifyPage

The four verdict computations are functions of the sequence of indications;
the fourth is the calling site's, as the repository's demonstration page draws
it. `Badge` is what the home screen makes of a history entry: it shows
`INDETERMINATE` as invalid where the page's banner warns, and `RecordIsShown`
asks only that a pass is a pass in both.
`VerifyPage` has the page's state, one run id counter per mount (a `useRef`
lives as long as its mount), and `flight[m][i]`, the pass that run i of mount m
is in. `Validate` is the classification the server makes; what is in a
validated document is any report of up to `MaxSigs` signatures. A file is plain,
detached or self-contained, and a plain one may be empty: the server refuses an
empty document, and an empty detached content counts as none (an empty
base64 string is blank), so an empty file is refused as the source of
a detached signature. `PrimaryRow` and `SecondRow` are the buttons of the two
file rows. `Record` is `history.add` with its cap.

`VerifyPromise` is the same page without run ids, and without the copies of the
files that a run closes over: its one verification is of whatever is on the
screen when the answer comes, and an edit ends it. The mapping hides `runId` and
`flight`; all it keeps of them is `LeftBehind`, the request of the current run a
mount had when the user left the tab, which may still become an entry of the
history. `BusyHasRun` is the other half of the mapping: the promise's `busy` is
the page's.

### Prerequisites and FirstRunWizard

The wizard's first step and the prerequisites screen hold the same code and are
never shown together, so one set of rows stands for both; one probe of the card
answers for the middleware too. `detection[d]` is a call of `detect`, which
waits for the shell and the server and overwrites the rows whichever comes last;
`"ignored"` marks one whose screen is gone. `Poll` is the interval, which exists
while some row is not ok.

`step`, `busy`, `locked`, `pin`, `certCn` and `result` are the wizard's state,
`test[f]` a run of `startTest` and of `runSelfTest` inside it, await by await;
`left` says that its wizard was skipped, whose `setState` calls then do
nothing. `Buttons` is what each view offers. `stored` is the `passed` of the
local storage and `onboarded` the state of the root: `Store` writes both, and a
`Restart` at any instant, which is `ProcessEnds` of the core, keeps only the
stored one. A typed PIN is right or
wrong by the core's choice, as in `Signer`; `pin` says only that it is long
enough.

## Runs

Sizes are distinct states, times are of two workers.

| Run | Instance | Shows | Size |
|---|---|---|---|
| `signer` | 2 cards with different keys, 2 clients, TTL of 2 ticks, 2 tries | what each command answers, logins follow the card, dead sessions end, `PinSession` is implemented, also when the process ends in between | 147,600, 41 s |
| `signer_failed_unlock` | 1 client | finding 1 | stops at the violation |
| `sign_overlap` | 2 flows, 1 document, 1 card | type, `ModalHasWaiter`, `SigningHasRun`, `OneSignaturePerRun`, `PromptLostToAnother` under overlapping runs | 1,798,556, 88 s |
| `sign_batch` | 1 flow, 2 documents, the lock button | `BatchEnds`, `BatchSettles`, `SignedStays`, with fairness | 390,400, 153 s |
| `sign_swap` | 2 cards with different keys, 1 flow, 1 document, rechecks | `SignedByItsKey` | 2,327,964, 97 s |
| `sign_prompt_lost` | 2 flows | finding 2 | |
| `sign_success` | 2 flows, 1 document | finding 3 | |
| `deeplink_sign` | 2 links, 2 flows, 2 clicks for the first link and none for the second, 1 restart of the effect, the gate switched at will | late answers, one signature per consent, the signed document, work behind every spinner, no waiter without a way out | 1,050,740, 71 s |
| `deeplink_twice` | 1 link, 2 consents | finding 4 | |
| `verify_page` | 4 files (one of each sort), 4 runs on each of 2 mounts, reports of up to 2 signatures, a history of 1 | own report, spinner, pairs, verdicts, history; `VerifyPromise` is implemented | 42,426, 9 s |
| `deeplink_verify` | 2 links, 2 restarts of the effect | consent, posts, spinners, no orphan; `LinkPromise` is implemented | 54,803, 7 s |
| `wizard` | 2 detections, 1 test, 1 card of 1 try, a storage that works | the wizard responds, the rows come true, one PIN per test, the stored gate | 157,508, 70 s |

Why the bounds are enough:

* Two of a kind is what the hazards need: a card and the one it is swapped for,
  a flow and the one that overtakes it, a link and the next, a mount and the
  next. Nothing in the code counts further than one of them.
* `TTL` is 2 in `signer`, so that a touch at the instant of the request, of the
  answer, and one tick later are told apart. The interface sees only "locked"
  and "unlocked", so 0 (one tick ends the session) is enough above it.
* Two tries let a wrong PIN block the card or not. One is enough above the core.
* Four run ids in `verify_page` are a first pass, a second pass, a removal and
  a second pass again; a history of one entry reaches its cap at the second.
* `NLinks`, `MaxRestarts`, `MaxRuns`, `MaxMounts` and `MaxConsents` are the
  only bounds in guards. A run that reaches one can no longer be disturbed from
  there on, so each is one more than the hazard needs. Where a proof exists
  (below) it is for every value of them.
* `deeplink_sign` has two flows, since a third adds nothing to a stale one and a
  current one. Its second link is loaded and shown but not signed: it is there for
  the work of the first to end under it (with a click for it too the run holds, but
  takes longer). Its second click and its restart are what makes a run, a load or a
  post end under another run id, or under the id of another run. The code does
  not keep all it should then: the fallback that `Posted` offers may be an earlier
  link's, so `OverlayIsOwn` leaves it out (with it, and a second click or a
  restart, TLC finds a violation; the comment at DeepLinkSignModal.tsx:95 takes
  the run ids to exclude it), and a restart abandons a run that may be signing. What
  is asked of a link that had one click and no restart is stated with that
  condition, `Undisturbed`, inside the properties `SignsWhatIsShown` and
  `SignedReachesUser`; everything else is asked of every history.
* In `wizard` two detections are what it takes for an older one to answer last,
  and one test is what `busy` allows a wizard; a test that outlives its wizard
  takes the one place, so the next wizard's test waits for it. With a storage
  that does not work the gate is not kept and `GateIsStored` says nothing. The
  run has one card; the proofs cover several. On one card `DoneMeansSigned` could
  not fail, so no run lists it: it is proved (`DoneKeyMatches`).
* Symmetry is used only in runs without temporal properties: over the flows in
  the overlap runs and over the cards, with their keys, in `sign_swap`.
* `sign_swap` gives its cards different CKA_IDs, so that a certificate that went
  stale shows as a wrong key. `SignedByItsKey` compares key ids: two cards that
  share one are one card to it, as they are to the code, which has nothing else to
  tell them apart by. That is the limit of what holds: the retry after `locked`
  (SignWorkspace.tsx:184) drops the certificates that the new PIN brought, and
  with two such cards the old certificate is sealed into the new card's signature.
* Deadlock is checked except where the system stops: an application that has
  exited (`deeplink_verify`), and a page that has used up its run ids
  (`verify_page`).

### Fairness

The user is never forced: no fairness on clicks, PINs, links or unplugging.
Weak fairness is on what ends by itself: a timer fires, the card answers a call,
a continuation whose promise has settled runs. A command sent to the shell gets
strong fairness, because it needs the mutex, which other commands take in
between; the mutex hands itself to each waiter eventually, and the shell's
commands are bounded.

No request of the interface has a timeout (deepLinkShared.ts:17-23,
backendApi.ts:32-38). Where the other side is the site of a link, untrusted, or a
server that may die (`deeplink_verify`), nothing forces an answer: the spec has
fairness on the local steps of the loading effect and on a validation whose
server is not there, which is refused. `VerifySpinnerEnds` then says exactly
where a spinner may stay, `AwaitsAnswer`: the document's download, a validation
by a server that is up, the post. A site that takes the connection and stays
silent does keep the overlay's spinner, which has no button, for ever; that is
what the code does. `SpinnerHasWork` is its counterpart for a signing link,
a safety property that needs no fairness at all: a spinner never stays behind
with nothing to wait for. `sign_batch`, `verify_page` and `wizard` assume that
the server on the same machine answers or fails; the first two pages have a way out
besides. `wizard` needs weak fairness only: of the interval, of each detection,
of the test and of the card. `DetectionConverges` is conditional on every probe
finding what it looks for from some time on, `WizardResponds` on nothing.
`BatchEnds` is conditional on the modal: while it waits for the user a batch may
last. In `signer`, `DeadSessionEnds` needs nothing but the clock to go on ticking.

### Findings

1. `signer_failed_unlock`: `unlock` drops the running login before it tries the
   new one and, when that fails, leaves the idle timer running (signer.rs:85-88):
   `status` says unlocked and nothing can be signed. The integration test says
   "After a failed unlock the session is still locked."
   (`tests/softhsm_integration.rs:56`) but tests only a session that never was
   unlocked. `DeadSessionEnds` shows that the state ends by itself.
2. `sign_prompt_lost`: a second flow that asks for the PIN replaces the resolver
   of the first (AgentContext.tsx:160), which then neither resolves nor rejects,
   against AgentContext.tsx:155. When the first was the retry of a batch, its row
   stays "signing" and the page busy until the user leaves it: `SigningHasRun`
   names that case.
3. `sign_success`: `busy` is set only after `ensureUnlocked`, so two runs can
   work on the same documents, and the first to finish shows the success view
   while the other signs, against SignWorkspace.tsx:225.
4. `deeplink_twice`: the phase stays `confirm` while the PIN is awaited, so two
   clicks sign and post twice under one link, against "single-shot"
   (DeepLinkSignModal.tsx:13).

## What is proved

The proofs hold for every value of the constants that satisfies the named
assumptions (any number of cards, clients, links, files, runs, any TTL and cap).

* `SignerProofs`, from `SignerAssumption` only: `TypeCorrect`, `LoginsMatchCards`,
  `Refinement`, all of them across any number of ends of the process. The
  inductive invariant is `TypeOK /\ LoginMatchesCard`: that a login's card is the
  inserted one or its handle is dead is what lets every signature be mapped to a
  step of `PinSession`.
* `ContextProofs`: lemmas about the context alone, for its two compositions:
  `CInv` (the open modal has its waiter, a resolver that is set has its modal, the
  probe is a client), `Prompts` (what a step of the context may do to a flow's
  prompt) and `NoSigning`: a step of the context sends no sign command and hands
  no flow the answer to one.
* `WorkspaceProofs`, for any number of flows and documents:
  `WorkspaceTypeCorrect`, `ModalIsAwaited`, `SpinnersHaveRuns`,
  `PromptsLostToOthers`, `RunsSignOnce`.
  `AllInv` adds to `CInv` and to `SInv` (the core's invariant, and that a call
  of the card waits for an answer not yet given) that a document in `signing` has
  a run that works on it and has not left (`RowHasRun`), and that a run has made a
  signature exactly where its await says so. `WorkspaceRunsSigner` shows that every step
  of the page is a step of `Signer` or leaves it alone, and
  `WorkspaceKeepsPinSession` takes from there the refinement of `PinSession`.
  `KeyIdsSign`, which is `SignedByItsKey`, is about any cards, alike or not:
  `CertInv` follows the key id of a run's certificate through the command and the
  answer. `SpinnersHaveRuns` needs of the context that a resolver is set only
  while the modal is shown, since a flow goes on through the one or the other.
  `BatchesSettle` and `SignedStaySigned` are about batches and hold under
  `[]OneBatch`, that no two runs ever belong to the page that is shown.
  Everything in the code that works one at a time has it: with one flow it always
  holds, and with several as long as no second click comes before `busy` is set.
  It is needed: `sign_success` is what two batches do. Their
  invariant `BatchInv` says that every document of the snapshot is decided,
  being signed or still to come for the one run that works, that this run's
  documents to come are not signed, and that without such a run the page is not
  busy; `TabOk` keeps the key screen's unlock apart from it.
* `DeepLinkSignProofs`, for any number of links, clicks and restarts and with no
  further assumption: `DeepLinkTypeCorrect`, `SignaturesAreConsented`,
  `SpinnersHaveWork`, `WaitersCanLeave`, `OverlaysAreOwn`, `DeepLinkRunsSigner`,
  `DeepLinkKeepsPinSession`. `AllInv` counts: the signatures made for a link and
  the runs that may still make one are together no more than the clicks. It adds
  `PhaseFits`, that a phase which waits for a run has one that works under the
  shown run id, and that what is called sent or delivered was signed; with
  `LoaderShown` of the overlay, the same of the loading phases, it leaves no
  spinner without work. A run that waits for a PIN is no such work, which is why
  a waiter has a button, or another run to wait for. `SignsWhatIsShown` and
  `SignedReachesUser`, with the condition in them, are model-checked only.
* `VerifyPageProofs` begins with `VerdictAgreement`, that the four verdicts
  agree on every report with at least one signature. The point is that the
  orders of the tests differ: a report cannot both fail somewhere and pass
  everywhere. On the page: `PageTypeCorrect`, `ReportIsOwn`, `SpinnerHasRun`,
  `RequestIsOwn`, `ShownVerdictsAgree`, `RightPairIsAccepted`,
  `RecordMatchesBanner`. `ResultIsOwn` is not inductive: a report could be shown
  by a run of other files. `PInv` adds that no run is ahead of its mount's run
  id (so that a fresh id has no run of its own), that the run which holds the
  current id works on the files of the page and under its request, and that the
  request fits the first file. `RunIdsKeepPromise` is the refinement of
  `VerifyPromise`, by cases of whose run takes the step: the page's own current
  run takes a step of the promise, the current run of a mount that was left takes
  `EndLeft`, and all others stutter. It needs `PInv`, and `RunHasFile`: a run has
  a file, so what was left behind is told from nothing.
* `LinkOverlayProofs`: lemmas about the overlay alone, for both overlays.
  `LinkInv` says that at most the load that holds the current run id can touch
  the screen, that it is the shown link's, and that it is there while the overlay
  says so (`LoaderShown`); `RunBound` counts run ids (one to
  open, one to close, one per restart), which is why the ids of the type suffice.
* `DeepLinkVerifyProofs`: `VerifyTypeCorrect`, `ShownIsOwn`,
  `ServerDiesWithApp`, `PostsAreShown`, `ReportsSurvive`. `VInv` adds to
  `LinkInv` that the validation which holds the current run id is the shown
  link's and is in the phase that says so, with a consent not yet used; and that
  a process that runs has a handle until the exit takes it. `LinksKeepPromise` is
  the refinement of `LinkPromise`, from the same invariant.
* `WizardProofs`, for any number of cards, detections and tests and for either
  storage: `WizardTypeCorrect`, `OneAttempt`, `GatesAreStored`, `DoneKeyMatches`.
  Every step is a step of `Signer` or leaves it alone, a restart included, which
  is `ProcessEnds`: that is `WizardRunsSigner`, and `WizardKeepsPinSession` takes
  the refinement of `PinSession` from there. `WInv` says that the wizard on the screen awaits one test at most and is busy meanwhile
  (never once it is told that the card is blocked), that an unlock already sent
  was the first, and that a test past the list has the certificate on the screen.
  `DoneKeyMatches`, which is `DoneMeansSigned`, adds `SignOwn`, that a signature on
  its way or made is with the key id of the test's certificate.

Only model-checked: everything about liveness (`DeadSessionEnds`, `BatchEnds`,
`BusyEnds`, `VerifySpinnerEnds`, `WizardResponds`, `DetectionConverges`), which is
out of the prover's reach, and `SignsWhatIsShown` and `SignedReachesUser`. `VerifyPromise` and
`LinkPromise` are safety specifications: that a verification ends is said by
`BusyEnds` and `VerifySpinnerEnds`, not by them.

## What is not modelled

* The one paint in which a link is rendered with the phase of the one before it:
  `Open` sets the url and resets the overlay in one step, while in the code the
  reset is in the effect (DeepLinkSignModal.tsx:106-118), which runs right after.
* Poisoning of the shell's mutex; a storage that refuses the history.
* Two links within one render (App.tsx:355): links arrive between renders.
* Formats, digests, certificates, mechanisms, wording and layout; what the DSS
  library computes, and so the choice of a format and the parameters of prepare
  and assemble, which act inside it; the detection of the signatures a file
  already has, which feeds these parameters; trusted lists and their refresh; TLS.
* The history's entries of signatures: only verifications are recorded in
  `VerifyPage`.
* The reading of the self-test's own file, which is in the bundle: it stands
  outside the `try` of `runSelfTest` (selfTest.ts:48). Were it to fail, the wizard
  would keep its spinner.
* The rows' links and the countdown of the wizard, the report's accordions,
  themes, languages and translations: display.
* The legacy HTTP agent and its TLS bootstrap: a relic, which the Tauri
  application does not use (README.md:78 of the repository). `Signer` models the
  core that replaced it.

## Where to go on

Every part of the system that keeps state and acts over time has a module, and
most of its safety properties are proved. What would add most from here:

1. A promise for the other two users of asynchronous calls, as `VerifyPromise`
   and `LinkPromise` are for theirs: of `ensureUnlocked` (whoever is let through
   was vouched for by the core during its own call) and of a signing link.
2. Proofs of `SignsWhatIsShown` and `SignedReachesUser`: under `Undisturbed` the
   run that holds the current id is alone.
3. The wizard beside the agent context: both send `unlock`, and a deep link
   waits for a PIN while the wizard tests; today each is composed with the core
   alone.
