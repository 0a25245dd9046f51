# A TLA+ development of entangled-client

entangled-client is a viewer for signed publisher documents served from onion
sites. It remembers which key each site presented and which manifests it has
accepted, so that a changed key is noticed and an older manifest is refused.
These modules model how that memory is built, kept and used, and what the window
shows of it.

## The system

| component | source | state | operations |
|---|---|---|---|
| trust-state machine | `entangled-client/src/trust.rs` | none | `resolve`: presented key, retained identity, user decision → state to show, prompt to demand, intent to persist; `trust_diagnostic` |
| publisher history | `entangled-client/src/history.rs` | records, newest first | `record_for`, `push`, `check_against_history` |
| store traits, in-memory stores | `entangled-client/src/io.rs` | identity and replaced keys per site, records per publisher | `load_identity`, `apply`, `load_history`, `append_record` |
| file stores | `entangled-client-store/src/{identity,history,dto}.rs` | one file per site, one per publisher | the same, as read-modify-write of a file |
| store root | `entangled-client-store/src/{root,protect}.rs` | `store-key`, `store-meta.json`, sealed files | `open_integrity`, `open_encrypted`, `write_protected`, `read_protected`, `write_atomic` |
| client window | `entangled-client-gui/src/{lib,main}.rs` | loaded document, retained snapshot, chrome, open prompt, canary override, pending handoff | `build`, `load`, `App::new`, `apply_and_persist`, `persist`, `update` |
| pipeline | `entangled-client/src/pipeline.rs` | none | `verify_manifest`, `verify_content` |
| chrome | `entangled-client/src/chrome.rs` | none | `ChromeView::build` |
| image policy | `entangled-client/src/image.rs` | pixel budget, failed triples | `verify_image`, `fetch_failed` |
| core, engine | other repositories | – | parsing, signatures, canary arithmetic, scene tree |

A launch opens the store root, loads the site's identity and the publisher's
history, verifies manifest and content, resolves trust with no decision, and
opens the prompt that calls for. `App::new` then persists the intent of that
resolution (the automatic observation of a first contact) and reloads the
identity. After that egui calls `update` for every frame. Each button of a prompt
resolves again from the reloaded snapshot, updates the chrome, persists the
intent and reloads, all in the middle of the frame it was clicked in. `persist`
rewrites the site's identity file and then the publisher's history file, each
with a temporary file and a rename.

What makes this hard: nothing locks the store directory, so two windows read and
rewrite the same files from snapshots of different ages; a decision is resolved
against a snapshot and applied to whatever the file holds; `persist` is two file
writes, with a crash or an error possible between them; opening a new store is
two more; the history checks look only at the newest record, so they are worth
what the order of the records is worth; and a frame is drawn around a decision,
half of it before and half of it after.

What makes each part correct:

* trust: no record claims more than the user decided; a key is replaced only
  under a mismatch warning that names it; a site once recorded always has a key
  to compare the next one with; a reported transition is one;
* history: newest first, conflict-free, growing only, accepted records only;
* stores: the files keep the contract of the traits; replaced keys are kept;
* window: what is shown is stored; a first contact reaches the disk; panel,
  chrome, canary block and handoff dialog agree in every frame presented;
* pipeline: nothing of a rejected document reaches the store or the screen;
* store root: the key or salt a file was sealed under stays in the directory, the
  recorded mode too;
* `write_atomic`: readers see the old file or the new one;
* image policy: the budget is what was rendered; only authentic bodies are
  decoded; what was refused once stays refused.

## Modules

| module | models |
|---|---|
| `Domain` | sites, publishers, manifests |
| `Trust` | `trust.rs` as operators: `Resolve`, `TrustDiagnostic`; `RetainedAfter`, what a store makes of an intent |
| `PublisherHistory` | `history.rs` as operators: `RecordFor`, `CheckAgainstHistory` |
| `MemoryStores` | abstract: the stores of `io.rs`, each operation one step, every intent resolved against the present record |
| `ClientSession` | windows over the file stores |
| `SessionProperties`, `SessionRefinement` | its properties; its mapping to `MemoryStores` |
| `ConcurrentSessions` | several windows and a flag, `overlapped`: were two ever inside `persist` at once? |
| `Pipeline` | `pipeline.rs` and `chrome.rs` as operators |
| `Viewer` | `App::update`, frame by frame, over `ClientSession` and `Pipeline` |
| `StoreRoot` | opening and keying the store directory |
| `AtomicRegister` | abstract: a register read and written in one step each |
| `AtomicFile` | `write_atomic` and `read_file_opt` by system call, mapped to `AtomicRegister` |
| `ImagePolicy` | `image.rs` |
| `SessionProofs`, `ConcurrentProofs`, `ApartProofs`, `ViewerProofs`, `PresentedProofs`, `StoreRootProofs`, `AtomicFileProofs`, `ImagePolicyProofs` | theorems |
| `MC...` | instances for TLC |

How they fit: `Viewer` drives the actions of `ClientSession`, which uses the
operators of `Trust` and `PublisherHistory`. `ClientSession` and `StoreRoot` take
a file write for one step, which is what `AtomicFile` shows of `write_atomic`;
`ClientSession` takes its files for readable, which is `EveryFileReadable` of
`StoreRoot` (proved for a client always launched in one mode).

### ClientSession and the code

`identities[x]` and `histories[p]` are the files. `win[w]` is a process: `pc` is
where it stands, `site`, `manifest` and `retained` are fields of `Loaded`,
`shown` and `required` are the chrome and action last resolved, `prompt` is which
of `pin_prompt` and `mismatch_prompt` is open, `warned` is the retained key a
mismatch prompt was made with, `intent` is the argument of `persist`, and `file`
and `log` are what its store calls have read and not yet written back. `failed`
says that the last `persist` returned an error. `everRetained` and `everAccepted`
only record the past for the properties.

| action | code |
|---|---|
| `Launch` | `build` up to `load_identity` |
| `LoadAccepted` | `load_history`, `load`, the prompt chosen by `App::new` |
| `LoadRejected` | any error of `build`: the process exits |
| `ReadIdentity`, `WriteIdentity` | `FileIdentityStore::apply` |
| `ReadHistory`, `WriteHistory` | `FileHistoryStore::append_record` |
| `PersistFails` | an `Err` of either, printed by `App::new` or `apply_and_persist` |
| `Reload` | `load_identity` after `persist`, prompts closed after a decision |
| `Decide` | a button of a panel: `apply_decision`, then `persist` |
| `Decline` | "Not now", "Cancel" |
| `Quit`, `Crash` | the window is closed; the process dies during `persist` |

A manifest is the site it binds, its publisher, its issue time, its runtime key
and its payload hash. That is all the checks read. The three checks of
entangled-core are modelled from the calls and comments in `history.rs`.
`RejectExtendedReuse` covers both readings of the rotation check on older
records; the theorems hold for either and the runs use the stricter one.

With `Legacy`, the store may start with identity files of the version 1 client,
which has a flag where version 2 has a provenance (dto.rs:69-90); such a client
left one record per publisher.

### Viewer and the code

`app[w]` holds the rest of `App` and `Loaded`: what was fetched, the chrome,
`canary_override`, the pending `handoff`, and `top`, the half frame drawn before
a decision. `screen[w]` is the last frame presented, `clipboard` the last link
copied; `overrode` records who clicked the override.

| action | code |
|---|---|
| `Fetch`, `Load`, `LoadFails` | `build` and `load`: the stages of `Pipeline`, then the chrome |
| `Persist`, `Start` | `persist` inside `App::new` or a frame; the end of `App::new` |
| `DecisionFrame`, `FinishFrame` | a frame with an affirmative click, up to `persist` and after it |
| `DeclineFrame` | "Not now", "Cancel (stay in mismatch)" |
| `OverrideFrame` | "Show content for this session" |
| `LinkFrame`, `DialogFrame` | a link out of Entangled; "Copy URL" or "Cancel" in its dialog |
| `IdleFrame`, `Exit` | a frame without a click; the process ends |

A frame takes at most one click, on a widget that the frame presented before had
drawn: egui hit-tests against the previous frame. Fetched bytes are a record of
what the stages find out (`signed`, `canary`, `content_root`, the content's
signer). The clock is fixed for a window, as `build` computes the canary once.
The viewer passes no content index (lib.rs:110), so a manifest with
`content_root` is rejected, and `ChromeConditions::default()` (lib.rs:132).

### StoreRoot, AtomicFile, ImagePolicy and the code

`StoreRoot`: `storeKey`, `meta` and `data` are the files, each sealed file reduced
to the protector that opens it. A process draws a fresh secret where the code
calls `getrandom`. Every write is a step, and `Stop` ends a process anywhere. A
save is two steps, as in `apply` and `append_record`: `ReadBack` reads the file and
goes on if it is missing or opens, `WriteProtected` replaces it. `InTurnSpec` says
that nobody starts to open the store while another is opening it; any number may
have it open, and a launch may be of either mode whatever the directory records.

`AtomicFile`: `target` is the inode the path names, `tmp` the temporary names,
`content` the bytes, `synced` the inodes on the disk, `stored` the inodes the path
may name after a power loss. The actions are the calls of `write_atomic`
(`Call`, `Create`, `Write`, `Sync`, `Rename`, `Fail`, `CleanUp`) and
`read_file_opt` (`OpenFile`, `ReadFile`), and the faults `Crash` and `PowerLoss`.
The file system is external: a rename is atomic, an unsynced file may be damaged
by a power loss, the directory is written back at some time of the system's own
(`Flush`), and eight random bytes are fresh.

`ImagePolicy`: `used` is `ImageBudget`, `failed` is `NoRetrySet`, `log` what the
shell was told, `start` where the present document begins in it. A body is its
hash, its length and what the decoder makes of it per media type. In this
repository only tests call the policy: the module covers every order in which a
shell may. `used` needs no width: a product of two 32-bit dimensions fits 64
bits, `used` never passes 2^24, and `checked_add` refuses the rest.

## Checks

Passing runs:

| run | instance | shows |
|---|---|---|
| `Apart` | 2 windows, never at one site or with one publisher at once; new or version 1 store, crashes and errors, 5 manifests of 2 keys at 2 sites, ≤ 3 records before a decision, ≤ 2 replaced keys; 0.95 million states up to symmetry | `TypeOK`, `HistoryNewestFirst`, `HistoryConsistent`, `ReplacedKeysKept`, `ShownTrustIsStored`, `DiagnosticMarksChange`, `NeverSilentlyReplaced`, and that the files implement `MemoryStores` |
| `Concurrent` | 2 windows, crashes, any interleaving; 2.2 million states | `OnlyAcceptedRecorded`, `TrustNeedsDecision`, `RetentionIsPermanent` whatever overlaps; `PinNeverDemotes`, `HistoryOnlyGrows` until two store calls overlap |
| `Reliable` | 1 window, 2 sites sharing a publisher, no faults, fairness | `RetainedKeyHasHistory`, `FirstContactIsRecorded` |
| `Viewer` | 1 window, 3 manifests of 2 sites, 2 content documents, 3 links, every canary state, crashes and errors; 1.2 million states | `ViewTypeOK`, `ExpiredNeedsOverride`, `MismatchStaysWarned`, `PanelMatchesChrome`, `PresentedTrustIsStored`, `CopiesWhatWasSeen`, `PersistsOnlyVerified` |
| `StoreLaunches` | 2 processes, 2 files, both modes in any order, 2 passphrases, opening in turn; 2106 states up to symmetry | `RootTypeOK`, `FilesKeepTheirKeys`, `KeyingKept` |
| `AtomicFile` | 2 processes, 2 payloads, 2 temporary names, 3 inodes; 64 thousand states up to symmetry | `FileTypeOK`, `NamedFilesAreWhole`, and that they implement `AtomicRegister` |
| `ImagePolicy` | 5 blocks, 5 bodies, 3 content types, 4 events per session, documents and sessions changing between them; 1.2 million states | `PolicyTypeOK`, `BudgetCountsRendered`, `DecoderSeesAuthentic`, `NoSecondTry` |

Bounds. The manifests of `Apart` contain a downgrade, an equal issue time with
another payload, a reused runtime key, a refetch and a key change, so every
branch of the checks and of `Resolve` is taken. `MaxHistory` and `MaxReplaced`
stop decisions only, so a session always ends in order; three records are enough
for a neighbour, an older entry and a newcomer. Two windows suffice for stale
snapshots and lost updates. `Secrets` bounds how often a fresh key or salt can be
drawn, and `Nonces` and `Inodes` how many files exist at once: a process that
finds none left stops there, and with two processes a third inode is the one the
path names. A budget of ten pixels with blocks of six, five and four has images
that fit, do not fit, and fit after a refusal; `MaxEvents` is one more than an
accepted, a refused and a repeated image need. One window suffices for `Viewer`:
its properties speak of one window, those of the session's that involve several
are checked by the other runs, and `PresentedTrustIsStored`, the one that another
window at the same site could break, is proved for windows at sites of their own.
Windows, processes, files and secrets are interchangeable, and
symmetry is used in safety runs only.

`PinNeverDemotes` and `HistoryOnlyGrows` are about store calls that do not
overlap, with snapshots as old as one likes; `ConcurrentSessions` keeps track of
that in `overlapped`. Its run has no store errors, for the reason given below.
`TrustNeedsDecision` speaks of the record a write leaves, and holds under any
overlap; it says nothing of the record that is lost to it.

Windows apart. `SitesApart` and `PublishersApart` say which windows are open
together, not what they do; `Apart` leaves out the launches that would break one
of them (`LaunchApart`), and nothing else. Its second site serves the first site's
publisher, so a history is shared by sites opened in turn, and either window may
be the only one open. Each property needs just one of the conditions, the
refinement both; the theorems below state each under what it needs.

Fairness. `FairSpec` asks weak fairness of `Progress`, the steps a process takes
without its user: `App::new`, `persist` and the reload run to completion on the
UI thread and wait for nothing. Nothing is asked of `User` or `Crash`. The runs
stop only where the system may: every window can be closed and launched again,
so no run switches deadlock checking off.

Each property of a passing run has a fault variant of the code it is about (the
`Fault...` operators) under which the same run finds it violated.

## Where the code and its documentation disagree

Each of these runs stops at a violation.

| run | property | what happens |
|---|---|---|
| `NoFloor` | `AcceptedNeverRegress` | a matching visit has the `None` intent, `persist` returns before the append (main.rs:490), and an older manifest is accepted later; io.rs:121-124 has the shell append after every acceptance |
| `OverlapReplaces` | `NeverSilentlyReplaced` | a window loads a site as a first contact; its observation is a no-op, another window having recorded another key meanwhile; it reloads that key but keeps the prompt chosen at load (main.rs:413). "Verified the PIP" in it resolves to a replacement, written with no mismatch warning (identity.rs:107-130, against trust.rs:21-22) |
| `CrashLosesRecord` | `RetainedKeyHasHistory` | a crash between the two writes of `persist`; matching visits never repair it, only a pin or a verification still to come would (main.rs:486-497) |
| `EncryptedOverwritten` | `MetaWrittenOnce` | a default-mode launch on an encrypted store writes a new key and metadata over the salt (root.rs:50-64) |
| `ImageBudget` | `RefusesTheRest` | after a refusal for the budget a smaller image of the document is accepted (image.rs:103-111); image.rs:81-83 has "it and every subsequent image in the document" refused |

More of the same kind, seen while modelling and not kept as runs:

* When store calls overlap, the later write wins (identity.rs:97, history.rs:56):
  a window that read the missing file before another window pinned writes its
  observation over the pin, and one of two overlapping appends is lost.
* Two windows whose store calls do not overlap also break `ReplacedKeysKept`
  under `SerialSpec`: a decision from a stale snapshot overwrites the active key
  and keeps no trace of it (identity.rs:94, 121; io.rs:113 has replaced keys
  retained). And the window that verified the older manifest may append last, so
  `HistoryNewestFirst` fails too (store/history.rs:60). Those properties are
  therefore stated for windows that keep apart: by site where they depend on the
  identity file, by publisher where they depend on the history file.
* A window that met another's observation only through a no-op
  `RecordObservation`, and whose reload then fails (main.rs:457), still resolves
  a pin as a first contact, and `apply` compares the stored provenance but not
  the stored key (identity.rs:83): the observed key is overwritten.
  `PinNeverDemotes` fails with `"io"` in `Faults`.
* Two first launches at once generate two keys; the second write wins and what
  the first process sealed is unreadable (root.rs:50-55). `FilesKeepTheirKeys`
  fails under `Spec`, hence `InTurnSpec`.
* After a crash between `store-key` and `store-meta.json` the metadata is never
  written (root.rs:55-56), so an encrypted launch later initialises the store in
  its own mode. Files of the default mode keep their key, but `check_mode` refuses
  the launches that would use it.
  The launch of `EncryptedOverwritten` takes a store over the other way round;
  `EveryFileReadable` therefore fails as soon as both modes are launched.
* Any passphrase opens an encrypted store and adds files of its own
  (root.rs:113); they stay readable under it, and no other file does. Two
  processes with different passphrases that both find a file missing overwrite
  each other's.
* The chrome is rebuilt before `persist` and stays so when it fails
  (main.rs:466-471), hence the `~v.failed` in `ShownTrustIsStored`.
* After "confirm the new identity" the chrome shows first contact for the rest of
  the session though the store holds a pin (trust.rs:283-300, io.rs:227-244).
  `PanelMatchesChrome` still holds, since the panel is closed.
* The history checks, Stage 8, run after origin and content index, Stages 9 and
  9b (pipeline.rs:101-115), while the comment lists them before
  (pipeline.rs:76-79). Only the diagnostic differs.
* `write_atomic` returns `Ok` before the directory is on the disk (root.rs:261):
  a power loss may bring back an earlier file, never a torn one. Temporary files
  stay behind after a crash.
* `remove_if_present`, "used by identity replacement" (root.rs:172), has no
  caller. The viewer never sends `RejectNewIdentity`: "Cancel" decides nothing.
* The comments that say files are "per publisher" (store `lib.rs`, first line of
  `identity.rs`) are out of date: identity files are keyed by site (root.rs:148).

## Proofs

Every theorem holds for all values of the constants: any sets of sites, keys,
manifests, windows, processes, links or images, and any bounds. They rest on the
named assumptions: `NoneAssumption` and `ManifestsAssumption` (typed manifests,
equal hashes mean equal payloads), `RejectExtendedReuseAssumption`,
`ClientAssumption`, `LinksAssumption`, `ContentAssumption`,
`StoreRootAssumption`, `FileAssumption`, `PolicyAssumption`.

| module | theorem | property |
|---|---|---|
| `SessionProofs` | `Invariance` | `IInv` |
| | `TypeCorrect` | `TypeOK` |
| | `RecordsWereAccepted` | `OnlyAcceptedRecorded` |
| | `DecisionsBehindTrust` | `TrustNeedsDecision` |
| | `RetainedForGood` | `RetentionIsPermanent` |
| | `KeysHaveHistories` (`Faults = {}`) | `RetainedKeyHasHistory` |
| `ConcurrentProofs` | `OverlapInvariance` | `OverlapInv` |
| (`"io" \notin Faults`) | `PinsDemoteNothing` | `PinNeverDemotes` |
| | `HistoriesGrow` | `HistoryOnlyGrows` |
| `ApartProofs` | `OneWindowIsApart` | one window meets the conditions below |
| (`[]PublishersApart`) | `OrderedHistories`, `ConsistentHistories` | `HistoryNewestFirst`, `HistoryConsistent` |
| (`[]SitesApart`) | `SnapshotInvariance` | `SnapshotInv` |
| | `NoKeyForgotten` | `ReplacedKeysKept` |
| | `ShownTrustHolds` | `ShownTrustIsStored` |
| | `ReplacementIsConfirmed` | `NeverSilentlyReplaced` |
| | `DiagnosticsAreTransitions` | `DiagnosticMarksChange` |
| (both) | `SessionImplementsStores` | `ImplementsMemoryStores` |
| `ViewerProofs` | `ViewerRunsSessions` | `ViewSpec => Spec` |
| | `ViewInvariance`, `ViewTypeCorrect` | `ViewInv`, `ViewTypeOK` |
| | `ExpiredContentOverridden` | `ExpiredNeedsOverride` |
| | `MismatchWarningStays` | `MismatchStaysWarned` |
| | `PanelsAgree` | `PanelMatchesChrome` |
| | `ClipboardFollowsDialog` | `CopiesWhatWasSeen` |
| | `OnlyVerifiedPersisted` | `PersistsOnlyVerified` |
| `PresentedProofs` | `PresentInvariance` | `PresentInv` |
| (`[]SitesApart`) | `PresentedTrustHolds` | `PresentedTrustIsStored` |
| (both, as above) | `ViewerImplementsStores` | `ImplementsMemoryStores` |
| `StoreRootProofs` | `RootInvariance`, `RootTypeCorrect` | `RootInv`, `RootTypeOK` |
| (`InTurnSpec`) | `FilesStayKeyed` | `FilesKeepTheirKeys` |
| (one launch mode) | `OneModeKeepsFilesReadable` | `EveryFileReadable` |
| | `KeyingStays` | `KeyingKept` |
| `AtomicFileProofs` | `FileInvariance`, `FileTypeCorrect` | `FileInv`, `FileTypeOK` |
| | `NeverTorn` | `NamedFilesAreWhole` |
| | `FileImplementsRegister` | `ImplementsAtomicRegister` |
| `ImagePolicyProofs` | `PolicyTypeCorrect` | `PolicyTypeOK` |
| | `BudgetIsRendered` | `BudgetCountsRendered` |
| | `DecoderInputAuthentic` | `DecoderSeesAuthentic` |
| | `RefusedForTheSession` | `NoSecondTry` |

None of the safety properties is inductive; each module opens with what it adds.

* `SessionProofs`. A window stands between a read and a write while others move,
  so `IInv` adds what it carries meanwhile: `WindowInv` says that its intent is
  for its own manifest's publisher and claims no more than its decision
  (`Justified`), that an observation it is about to make comes from an empty
  snapshot, that its manifest was accepted and belongs to its site;
  `Recorded` says that the history files, and the records a window is about to
  write back, are of manifests accepted from that publisher. `TypeStep`,
  `WindowStep` and `RecordedStep` take the actions one by one; `OthersKept` says
  that a step leaves the other windows alone and accepts only more. The pure
  parts are lemmas: `ResolveType`, `FileAfterType`, `RetainedType`. The action
  properties follow since only `WriteIdentity` touches an identity file
  (`OnlyWriteIdentity`, `WrittenFile`). `CoverInv`, for `KeysHaveHistories`: without
  faults every key in an identity file has its record or a window that still owes it.
* `ConcurrentProofs`. `OverlapInv` has a part that holds whatever overlaps
  (`SnapshotKept`: a site with a snapshot has a file, a pin is decided on an
  observation of its own key, a write is one `apply` would make) and a part that
  holds until calls overlap (`OneCall`, `ReadKept`: the file still is what was read;
  `ObservationKept`: an observed key gives way to a decision only). A write then
  starts from the file as it is, and `WriteRaises` says what it makes of it.
* `ApartProofs`. A theorem of the form `Spec /\ []SitesApart => ...` speaks of the
  behaviours whose windows keep apart, any number of them; with one window every
  behaviour does (`OneWindowIsApart`). A step then leaves the file that another
  window depends on alone (`OtherSitesKept`, `OtherHistoriesKept`). `HistoryInv` carries the checks of a
  manifest from its loading to the append (`PrependChecked`: an ordered,
  consistent history stays so and accepts the same manifest again).
  `SnapshotInv` says that while a prompt can be answered, the snapshot is what the
  store retains, or lacks only the window's own observation; then what the file
  store writes is what the trait's store would (`StoreRealizes`,
  `RewriteKeeps`). `TransitionInv` carries the intent of a resolution to the
  reload. `StoreStep` maps each step to a step or stutter of `MemoryStores`.
* `ViewerProofs`. Every frame is a session step or none (`FrameIsSessionStep`), so
  all of `SessionProofs` holds below it. `Fits` relates one window's session,
  application state and screen: the drawn half frame and the presented frame have
  a chrome built for this canary, a panel asks about the trust state shown above
  it, a pending handoff names a link of the content and needs the override if the
  canary has expired. It speaks of one window only, so each action is followed
  for its own window (`ProcessSteps`, `QuietFrames`, `DecisionFrames`).
* `PresentedProofs` puts the two together. The frame of a decision is drawn in two
  halves with the writes of `persist` between them, and the frame before it is still
  on screen meanwhile. `PresentInv` says that neither can carry a badge: a panel is
  only open over a state without one (`AskedWithoutBadge`), so a badge first appears
  in a frame drawn in an open window, where `SnapshotInv` has its record in the file.
* `StoreRootProofs`. `RootInv`: what a process has loaded is what the directory
  has, or the directory has no such key or salt yet and this process alone is
  opening it. `DirectoryStep` lists the ways a step may then change the directory,
  and `KeyedKept` shows that none takes the key or salt from a protector that has
  it; a store taken over by the default mode records no salt to contradict. With
  launches of one mode only, `ModesLaunched` makes every file one of the recorded
  mode, hence `OneModeKeepsFilesReadable`.
* `AtomicFileProofs`. `FileInv`: a temporary name and its inode are one writer's
  own until the rename, what the path may name is whole and synced, and the inode
  a reader has open is not written again. `RegisterStep` maps `Rename` to
  `Commit`, `OpenFile` to `Look`, and the preparations to stutters.
* `ImagePolicyProofs`. `PolicyInv` ties the no-retry set to the log: what was
  refused is in it, and what is in it was never accepted later (`ReportKeeps`).
  `BudgetCountsRendered` sums over a log of any length. `SumsToUsed` says that a
  running sum exists and that every one ends in `used`; one more entry extends any of
  them by one step (`SumExtends`), so the steps of the system do what an induction
  over the log would.

Only model-checked: `FirstContactIsRecorded` (liveness under fairness, out of the
prover's reach) and the violations.

## Not modelled

* entangled-core and entangled-engine: other repositories. Canary states, link
  kinds and the three history checks are taken from how this code uses them.
* Drawing: layout, fonts, colours, scrolling, the words of the PIP.
* Argument parsing and the two developer examples. `pin_publisher` applies an
  intent without a history record, unlike the button it stands for.
* Cryptography: a file opens exactly under the protector that sealed it.
* A corrupt or foreign record (an `Err` of `to_identity`, a failed MAC): a read
  that fails, as any other I/O error.

## Plan

The image policy behind a viewer, once the shell fetches images.
