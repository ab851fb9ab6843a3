# A TLA+ verification of Snarkypuss

Snarkypuss turns a VPS into a WireGuard gateway whose forwarded traffic leaves
through an upstream VPN provider (NordVPN). `snarkyctl` controls it: a
privileged daemon owns the provider, an unprivileged web API and a command line
client speak to the daemon over a Unix socket, and a dashboard speaks to the web
API. Root scripts generate, activate, roll back and migrate the gateway's
configuration. Paths below are relative to the repository; `control/daemon.py`
and the like are under `src/snarkyctl/`.

The promise the system makes is that the public address of the VPS is not used
for forwarded traffic unless the administrator asked for that ("Direct"). Most
of what can break it is a matter of order: a mode change is a sequence of slow
provider commands, any of which can fail or time out, next to status requests,
a tunnel that moves by itself, restarts of the daemon and of the host, several
editing sessions, and a rollback timer that races the operator. That is what
the models are about.

## 1. Inventory

| Component | State it keeps | Operations | Interacts with |
| --- | --- | --- | --- |
| Control daemon (`control/daemon.py`) | `_operation_lock`, `_current_target_alias`, `_catalogue` and `_targets` | STATUS, CONNECT, DISCONNECT, ENTER_PROTECTED, LOCK, ENTER_DIRECT, TARGET_* and TARGET_CATALOG_* | provider adapter (commands), catalogue store (SQLite), clients (socket), a pool of threads sharing the state |
| Provider adapter (`providers/`) | none; the tunnel, kill switch and settings are in nordvpnd | status, settings, connect, disconnect, set killswitch, discovery of options | the `nordvpn` CLI with a timeout per command |
| Target catalogue store (`targets/`) | revision and targets per provider, in SQLite | get, replace (with the expected revision), backup, integrity check | the daemon; the migration from YAML, as a second writer |
| Dashboard (`static/dashboard.js`) | committed and editable catalogue, discovery results, busy flags, selected target | load, edit, save, automatic cleanup; connect, mode requests, periodic refresh | web API (fetch), callbacks of its own requests |
| Command line client (`cli.py`) | an exported file | status, connect, disconnect, `targets list/schema/export/replace`, preflight; `targets-db` on a stopped system | daemon |
| Web API (`main.py`, `auth.py`) | the configuration, once it could be read | admit an HTTP request, make one or two calls to the daemon, with a timeout each, and turn the outcome into a status | daemon, dashboard, the auth file (read per request) |
| Control protocol and client (`control/protocol.py`, `control/client.py`) | none | framing, one request per connection | daemon, web API, CLI |
| Configuration (`config.py`) | none | load and validate a document | daemon, web API, preflight |
| Status collection (`status.py`, `dns_health.py`) | the report being put together | six readings, one after the other | provider, host, daemon |
| Preflight (`preflight.py`, `snarkypuss-preflight.sh`, `snarkypuss-verify.sh`) | the checks reported so far | 25 checks, one after the other | host, provider, configuration |
| Gateway configuration (`scripts/snarkypuss-configure.py`) | the generated files, WireGuard and SSH keys | generate and write a setup file by file | files of the host |
| Gateway migration (`scripts/snarkypuss-migrate.py`) | backups, each with its manifest | back up, prepare (which runs the generator), restore any backup | files of the host, configuration |
| Activation and rollback (`scripts/snarkypuss-activate.py`, `scripts/snarkypuss-rollback.py`) | one record and one flock per token; a transient systemd timer; live and saved firewall rules, forwarding, services | apply, confirm, roll back (timer, failing apply, operator) | iptables, sysctl, systemd, netfilter-persistent |
| NordVPN setup (`scripts/snarkypuss-nordvpn-configure.py`) | the provider's settings | set and verify settings in a fixed order | `nordvpn` CLI |
| Legacy catalogue migration (`scripts/legacy/targets_yaml_to_sqlite.py`) | none | one import into an untouched store | catalogue store |
| Legacy DNS cleanup (`scripts/snarkypuss-dns-cleanup.py`) | the files of older releases | check, plan, restore the stock file, remove the others | the old resolver, which activation stops and rollback restarts |
| Packaging, systemd units | none | build and installation | host |

What is hard to test, and where, is listed in `PROJECT.json` under `hazards`.
In short: steps of pool threads between two provider commands; answers composed
from readings taken at different times; failure of a restoration after a
failure; retries of requests whose answer was lost; a store written behind a
running daemon; replies to a web page for objects the page has dropped; a timer
against the operation it guards; process death between two writes; an error code
that says more than its sender knows; checks made one after the other on a host
that changes.

What makes each component correct:

* daemon: one mutation at a time and the lock always comes back; exposure only
  after a Direct request; a reported mode is in force; a failed Direct tries to
  restore protection; answers give no false comfort;
* catalogue: no lost update, editors hold only what was committed, snapshot and
  index follow the store, the built-in target is never shadowed;
* dashboard: an automatic cleanup removes only what the provider reported
  missing, and only from the committed list; a save sends only offered values;
  the busy state ends;
* activation: exactly one decision per token, taken under the flock and on a
  record that is still true; a reported rollback has restored; nothing
  provisional is made persistent;
* generated files: the server's key is never replaced by a rerun, the scripts do
  not lock themselves out, a restore of any backup brings back exactly what was
  backed up, a migration keeps of the gateway what its parser could read;
* remote call: a request is performed at most once, never after it was reported
  as refused, and a silent client does not keep others from being served;
* control panel: controls act exactly when they look enabled, the display ends
  up showing the gateway as it is, an operation does not lock the page;
* NordVPN setup: the kill switch never goes on without the two exceptions that
  keep the operator connected, and VERIFIED is said of a complete policy only;
* front ends: an HTTP status or an exit code says of a request what is true of
  it, whatever timed out behind it; nobody gets anything done whom the auth file
  did not name;
* status: a report of a gateway that stands still is true, whichever readings
  fail;
* preflight: nothing that was wrong all the time passes, no shorter report
  passes, and no dashboard that listens to the public interface;
* clean-up of the old resolver: the administrator's own file survives, a run
  completes what a killed one began, and a rollback still finds its service;
* destinations: what the schema lets a client ask for is answered, what
  discovery offers can be saved, and what was saved can be used.

## 2. Modules

| Module | Models | State and code | Composes |
| --- | --- | --- | --- |
| `VpnProvider` | the provider as `providers/nordvpn.py` uses it | `tunnel`, `killswitch`, `exit`; a command works, is refused, or ends in another exception, with or without effect | |
| `GatewayPolicy` | abstract: when public exposure is allowed | `granted`, `protection` | |
| `ControlDaemon` | `ControlService.dispatch` and `handle_connection`, one provider command or shared-state access per action | `pc`, `op`, `tgt`, `reply` per pool thread; `lock` is `_operation_lock`, `alias` is `_current_target_alias`; `granted`, `confirmed`, `calm`, `restored` are histories | extends `VpnProvider`, implements `GatewayPolicy` |
| `TargetCatalogue` | revision protocol of the editable catalogue | `disk` is the SQLite row and its targets, `cache` and `index` are `_catalogue` and `_targets`, `job` the requests in the pool, `base` and `loaded` what a page or an exported file has | implements `EditorSession`, once for each page |
| `DestinationEditor` | the target manager of `dashboard.js` | `entry` is `editableCatalogue` with `discoveryState`, `committed` is `committedCatalogue`, `busy` is `managerBusy` with the `await` it is at, `queue` is `unavailableTargets` | implements `EditorSession` |
| `ControlPanel` | status display and mode buttons of `dashboard.js` | `shown`, `current`, `enabled` (the `disabled` flags), `operation`, `statuses` (the status requests in flight, answered in any order) | |
| `EditorSession` | abstract: what an editor and the catalogue behind it rely on in one another | `asked` and `sent`, the request under way and the catalogue in it; `base`, what the editor holds as committed; `able`, whether it may save | |
| `RemoteCall` | abstract: what a caller may rely on | `told`, `performed` | |
| `ControlServer` | `ControlClient.request`, the listening socket of systemd, `serve` and its pool, frames, process death | `caller` is what the client returns, `conn` a connection's place from backlog to worker, `queue` the executor's queue | implements `RemoteCall` |
| `Activation` | `snarkypuss-activate.py` and `snarkypuss-rollback.py` | live and saved rules, forwarding, services; per token the record (`status`, `snap`), the timer, and how far apply, rollback and confirm are | |
| `DnsCutover` | `snarkypuss-dns-cleanup.py` and what activation does with the old resolver | `legacy`, `stock`, `backup` are the files, `old` the service, `plan` and `cleaning` how far the script is | extends `Activation`, whose every step is one of its own |
| `GatewayFiles` | `snarkypuss-configure.py` and `snarkypuss-migrate.py` | `files` says of each managed file from which WireGuard settings it was made and which keys are in it; `backups` is what each `--prepare` captured, `chosen` the one in use, `todo` the writes still to do, `nested` whether the generator runs inside `--prepare` | |
| `NordVpnSetup` | `snarkypuss-nordvpn-configure.py` | NordVPN's settings and allowlist, the step of the plan | |
| `HostPreflight` | `preflight.py` and the validators of `config.py` | `bad` is what is wrong with the host, `network` its interfaces, `at` the check that comes next, `report` what was reported | extends `NordVpnSetup`, beside which it runs |
| `StatusReport` | one STATUS answer: `status.py` and its part of `daemon.py` | `stage` is the reading that comes next, `report` what has been read or has failed | extends `VpnProvider` |
| `TargetSelectors` | schema, discovery and validation of selectors in `nordvpn.py`, and the daemon's check of a discovery request | no state: functions on abstract texts | |
| `FrontEnds` | `main.py`, `auth.py` and the commands of `cli.py` | `request` is a request's way from its checks to its status, `told` what `ControlClient` has learnt of each of its calls, `runtime` is `app.state.runtime` | extends `StatusReport` and `TargetSelectors`, uses and implements `RemoteCall` |

`MC<module>` names the instance TLC checks; `<module>Proofs` holds the theorems.
Those on `DnsCutover` are with the ones on `Activation`, those on `NordVpnSetup`
with the ones on `HostPreflight`, those on `StatusReport` and `TargetSelectors`
with the ones on `FrontEnds`, and `DashboardProofs` has those on the editor and
on the panel, which live on one page and have no name in common.
`PROJECT.json` maps every definition to its lines. A definition `Faulty...` is a
plausible bug in the definition that follows it; no action uses it, and every
property of a passing run is known to fail when one of them takes its place.

**What one action is.** In `ControlDaemon` an action is one provider command, or
one access to what the threads share, because between two of them any other
thread, the provider, a crash or a reboot may come in. In `TargetCatalogue` the
transaction is one action (SQLite's IMMEDIATE transaction is atomic and survives
or does not), while the two assignments after it are two, and so are the two
SELECTs at start. In the dashboard models an action is what runs up to the next
`await`. In the script models it is one external command or one write of a file;
a file is written to a temporary name and renamed (`atomic_write` and its like),
hence atomically. The one exception is the saved firewall rules, which a rollback
writes in place (`snarkypuss-rollback.py:119-122`): killed within the write it
leaves half a file where the model has the old one. It has then not reported
anything, and no property says anything of the saved rules before it does.

**How the parts meet.** The models are separate where the code keeps them apart
by a protocol, and each states the promise the other uses: `ControlServer` shows
that a request reaches the daemon at most once, `ControlDaemon` and
`TargetCatalogue` start from requests in a free thread and let clients vanish,
`DestinationEditor` and `ControlPanel` let any request end in an answer or an
error. Editor and catalogue are the two sides of one protocol, and
`EditorSession` states it once for both. `DestinationEditor` has everything that
goes on in the page and lets a load bring any catalogue; `TargetCatalogue` has
everything that goes on behind it and lets the page save any catalogue. The
session says what each takes for granted of the other: a page asks for one thing
at a time, saves nothing that is empty or not loaded, sends in a cleanup only
what it holds as committed, and may take what it sent for what was stored. Each
of the two is proved to implement it. `ControlDaemon` starts from what `NordVpnSetup` leaves: autoconnect off.
`RemoteCall` is used twice: `ControlServer` implements it towards the client
library, and `FrontEnds`, which knows of the daemon only what `RemoteCall` says,
implements it once more towards the user, with the HTTP status in the place of
the client's error. `DnsCutover` and `HostPreflight` extend the models of the
scripts they run beside and are proved to implement them, so that what was shown
of a script alone still holds in company.

## 3. Runs

| Run | Instance | Distinct states | Question |
| --- | --- | --- | --- |
| `control` | 2 threads, 2 targets, all 7 kinds of request, symmetry | 1,076,846 | Does exposure stay granted, and what was reported true, through any interleaving, failure and restart? |
| `control_live` | 2 threads, 1 target, Direct, Lock and STATUS | 15,994 | Is every request answered, and does the lock come back? |
| `direct_failure` | 1 thread, Direct | violation | Is protection restored after every failed Direct? |
| `catalogue` | a dashboard, a CLI editor, 2 threads, 2 targets, 2 revisions, symmetry | 2,486,591 | Can an update be lost, or something uncommitted be held or served, and does each page keep its session? |
| `activation` | `DnsCutover`: 1 activation, every set of faults on a new host; hosts of older releases; 1 edit | 442,872 | Do confirm, timer, failing apply and operator decide once and on the truth, and does the clean-up of the old resolver converge, spare the administrator's file and leave a rollback its service? |
| `timer_race` | 1 activation, no faults | violation | Does the timer's rollback undo the whole activation? |
| `editor` | 2 aliases, 2 contexts, 1 value, 1 late answer | 911,830 | Does the cleanup remove only what the provider reported, does the editor keep its session with the catalogue, and do its buttons come back? |
| `gateway_files` | 2 server keys, 2 client keys, 3 setups (one refused), 3 hand-written configurations (one unreadable), 2 backups, 3 upsets (edits, failing steps, kills), symmetry | 3,374,347 | Does the server's key survive every rerun, do the scripts keep themselves able to go on, does a restoration restore, and does a migration keep what its parser read? |
| `host_setup` | `HostPreflight`: 2 policies, 2 networks, documents that mistake one interface for the other, every cause of a failing check, 1 change | 3,433,687 | Is the kill switch guarded, and VERIFIED true; does preflight pass anything that was wrong? |
| `control_server` | 2 mutations and a reader, 2 workers, backlog 1, 2 deaths or stops | 190,256 | Is a call performed at most once, never after a refusal, and served? |
| `panel` | 2 targets, 1 overlapping poll, 1 change of the gateway, 1 failed request | 165,660 | Do controls and display agree with the state behind them, in the end? |
| `web` | `FrontEnds`: a request of six kinds beside an HTTP operation, 1 user, 1 exit, 1 edit | 428,646 | Is the status or exit code true of the request, and the report of the gateway? |

Why the bounds are enough. Two threads give every pair of a mutation with a
status request or another mutation; a third thread adds only a second status
request, which changes nothing but the alias, and the theorems hold for any
number. Two targets separate the label from the exit, and a saved catalogue from
an edited one. Two revisions give a loaded, an overtaken and an overtaking
editor. Two aliases let a renamed entry's name be taken by another, two contexts
let an answer arrive for a context that was left; a second discovered value only
repeats the first. Two keys tell a rotated key from a kept one, and a
gateway with two keys from one with the same in both places; two setups tell
what was prepared from what was edited since, and a third, which `read_setup`
refuses, is what the parser makes of one of the hand-written configurations, so
that the generator fails inside a migration. With two backups the older one is
restored after the newer was made; three upsets interrupt each of two restorations
and leave one for an edit or for a generator that goes on alone. Two workers with a backlog of one
and three calls make the pool, the queue and the backlog full in turn. One
failed request in the panel reaches every error path, and one change of the
gateway, made by the page's own operation or by another client, tells an older
status answer from a newer one (two changes, 918,544 states, show the same). Two
networks are one where the management interface is there and one where it is
not, and with two addresses a document can have either in either place; one
change of the host is enough to put right what a check has still to look at, or
to spoil what one has looked at. One request of `web` may be of any kind that
makes two calls, reads the status or writes, and the other operates the gateway
meanwhile; the kinds that make one reading call differ from these only in their
tables, which the theorem covers. One edit is the administrator's, before the
clean-up, within it, or between two of its runs. `MaxRevision`, `MaxStale`, `MaxTargets` (100 in the code), `MaxStops`,
`MaxPolls`, `MaxChanges`, `MaxEdits` and `MaxFaults` are bounds of the models; all
appear as guards.

No run spends a property on a type. The type invariants of `ControlDaemon`,
`TargetCatalogue`, `Activation`, `DestinationEditor` and `ControlPanel` are
theorems, and those of the other modules are parts of proved invariants; all
hold on the same instances when added to their configurations. So do a few statements that are
proved and not in a run: that
exposure is granted (`NoUngrantedExposure`, the invariant of the policy that
`ImplementsPolicy` refines), that a cleanup only removes (`CleanupOnlyRemoves`),
that the lock has one holder (`LockDiscipline`), that a
record's status only advances (`StatusOnlyAdvances`), that the built-in target
is not shadowed (`BuiltinUnshadowed`), that a passing report is a complete one
(`PassedIsComplete`), that what is missing from a status report has its reason
in it (`AbsenceExplained`).

The instance of `web` has one more assumption: `SchemaIsServed`,
`OfferedIsStored` and `StoredStaysValid` hold of texts at the edges of the
patterns, which TLC evaluates when it starts.

In `activation` the variable `faults` is the set of things that may go wrong on
this host, chosen once, so that one run covers hosts where nothing fails, where
the promises of the setup guide are checked in full, and hosts where anything
does, where only the rest is. Its hosts are of two sorts: those on which no older
release has been, with any of the faults, and those with the old resolver, where
commands may fail and scripts may be killed, or nothing goes wrong.
`control_server` and `web` disable the deadlock check: the system rests when all
calls or requests are over. `MCDestinationEditorWide.cfg` is the editor's
instance in which every entry tries both contexts, too large to be checked
together with liveness; it is there to be run by hand, for
`CleanupRemovesReported`.

## 4. Fairness

* `ControlDaemon`: weak fairness of each thread. A provider command ends, at the
  latest by its timeout (`run_command`), and the operating system schedules
  threads. Nobody has to ask for anything.
* `Activation`, and `DnsCutover` with it: weak fairness of the timer and of a process that has the flock;
  strong fairness of the rollback the timer starts, since it waits in the
  kernel's queue of the flock and gets its turn. Nobody has to confirm, nor to
  clean up.
* `DestinationEditor`: weak fairness of the answers to load, save and cleanup
  (every `fetch` settles); none of discoveries and users.
* `ControlServer`: weak fairness of threads (a read ends by
  `CONTROL_IO_TIMEOUT`, an operation by its commands' timeouts), of the
  acceptor, and of systemd's restarts; nothing is assumed of clients.
* `ControlPanel`: the interval timer fires and a request ends; nothing is
  assumed of the user.
* `GatewayFiles`, `HostPreflight`, `NordVpnSetup`, `StatusReport` and `FrontEnds`
  state no liveness and need no fairness: their programs end because their lists
  of steps do, and a user who waits for an HTTP answer waits for `RemoteCall`'s.

## 5. Proofs

TLAPS proves, for every value of the constants:

* `ControlDaemonProofs`: `TypeCorrect`, `MutualExclusion`, `NoAutomaticDirect`,
  `ConfirmedModesHold`, `TunnelReleases` and `Implementation` (the daemon
  implements `GatewayPolicy`). None of these is inductive alone. `IInv` adds
  where each request can be in its sequence of commands (`TypedRequests`), that
  protection which a request has switched on or read is still on when it lets go
  of the tunnel (`ShelterHolds`), that a Direct at work has its grant
  (`GrantHeld`), that nothing counts as confirmed while a transition is under
  way (`NoneSince`), and that a tunnel let down stays down until the request
  ends (`StaysDown`); all of them rest on the lock, `LockDiscipline`. On top of
  `IInv` come `NoComfortIsFalse` and `DirectErrorsRestore`, by `AnswersHold`
  (what an answer being put together may already say), and `LabelsNameTheExit`,
  by `LabelsHold` (what a request at each of its points knows of alias and exit,
  status requests outside the lock included).
* `TargetCatalogueProofs`: `TypeCorrect`, `CommittedIsCommitted`, `NoUpdateLost`,
  `CleanupsOnlyRemove`, `NeverShadowed`, `SnapshotsAreCurrent`, `NeverStepsBack`
  and `SessionsAreKept` (each page's exchange implements `EditorSession`). One
  fact carries the first four (`Held`): whatever was read of the store, in a page, a request,
  an answer or the snapshot, is of an older revision or equal to the store.
  `SInv` carries the snapshot: the worker between the commit and the second
  assignment has the store in its hands (`SwapHeld`), and where there is no such
  worker snapshot and index are the store (`Synced`). `NeverStepsBack` rests on `FInv`:
  an answer on its way to a client is neither older than what the client holds
  nor newer than what is served (`Fresh`), and a client that waits has one answer
  to wait for (`Following`); the others reach nobody. `SessionsAreKept` adds
  `VInv`: a request is the one its client waits for, and a replacement that is
  answered with success has stored what came with it (`Carried`).
* `ActivationProofs`: `TypeCorrect`, `DecisionsHold`, `StatusNeverReturns`, for
  any number of activations and any faults; the invariant needs that a flock has
  one holder and that a record exists only after its apply began. Then
  `RollbacksRestore`, by `RInv`, which adds what each step of an undisturbed
  rollback has restored so far; `RollbackForgets`, for one activation, by
  `SavedRestored`; and of the resolver `CutoverIsActivation` (every step of
  `DnsCutover` is one of `Activation` or a stutter), `AdministratorIsKept`,
  `CleanupsConverge` by `CInv` (`PlannedHolds`: what a plan found is still so
  unless the administrator came), and `ResolverComesBack` by `OInv`.
* `HostPreflightProofs`: of the setup `KillSwitchGuardedHolds`,
  `VerifiedIsCompleteHolds` and `ErrorHasCauseHolds`, by an invariant that
  relates the step of the plan to what the earlier steps have left in NordVPN
  (`PlanHolds`); of preflight `CompleteReports`, `NothingSlipsPast`,
  `DashboardIsPrivate`, `SetupGoesOn` (a step of the host or of preflight is a
  step of the setup's model or a stutter) and from it `SwitchStaysGuarded`. The
  invariant `HInv` says which checks a report without a failure has made
  (`Listed`), that what has been wrong all along was looked for by each of them
  and would have failed it (`Held`), and what network and document must be by
  now (`Settled`).
* `GatewayFilesProofs`: `GatewaysStayOpen`, `RestorationsRestore`,
  `MigrationsKeepTheGateway`, `KeyIsNeverRotated`. They hold for any keys, setups
  and hand-written configurations and for whatever the parser makes of these. The
  invariant `GInv` says what each file holds (`Sound`), that a configuration the
  generator wrote agrees with the key file (`Agree`), which files of its list a
  script has dealt with (`Progress`), and that once there is a backup all keys, in
  files, backups and hands, are one (`Held`, in `Backed`). That a mixture of two
  backups keeps that key needs more, since a restoration removes files too: it is
  in all configurations, backed up and present, or in all key files, so that no
  choice of one file from each loses it.
* `ControlServerProofs`: `ServerInvariant`, `ImplementsRemoteCall`. The invariant
  says for each place of a connection whether its request can have been
  performed, and that a refused call is in no queue.
* `FrontEndsProofs`: of destinations `DiscoveryIsServed`, `OffersAreStored` and
  `StoredSelectorsStay`, for any texts; of reports `ReportsAreTrue` and
  `AbsencesAreExplained`; of requests `AdmissionIsFresh` and `StatusesAreAnswers`
  (`FrontEnds` implements `RemoteCall`). The invariant says which readings a
  report at each stage has and that they are still true where the gateway has
  stood still, and for each request (`Way`) at which call it is, which of its
  calls are performed or known, who vouched for it and what its status says.
* `DashboardProofs`: of the editor `EditorTypeCorrect` and
  `CleanupsRemoveReported`, by `EInv`: an entry that is flagged unavailable still
  has the selection it was saved with, whatever was renamed, moved or added
  since (`AsSaved`), and that selection is among those the provider has reported
  missing (`Reported`); of the panel `PanelTypeCorrect` and `ButtonsStayInSync`,
  by `PanelFresh`: until a status or the target list comes, nothing but the
  confirmation field is enabled and nothing is allowed.
  `EditorKeepsSession` shows that the editor implements `EditorSession`, by an
  `SInv` which says that while a save is under way the list has each alias once
  (`Distinct`): `validateEditor` has seen to that, and nothing that comes in
  meanwhile undoes it. Only so is the list that was sent the catalogue that is
  adopted.

They assume what the modules' ASSUMEs say of the constants: that names differ
(None is no worker, target, policy or selection), that subsets are subsets and bounds
natural numbers, and six things about the world: two interfaces of a host have
two addresses (`AddressesDiffer`), nothing is wrong with a host but what some
check looks for (`WrongIsLookedFor`), no exit has the gateway's own address
(`VpsIsNoExit`), that None is no reading and no text (`NoneIsNoReading`,
`NoneIsNothing`), and that what is written by hand is not what the generator
writes (`HandsDiffer`). Of the parser they assume only that it gives a setup or
refuses (`ReadingIsSetup`).

Every safety property of a passing run is a theorem. Only model-checked are the
liveness properties: liveness under fairness and ENABLED are beyond the prover.

## 6. Where code and documentation disagree

Two runs end in a counterexample on purpose.

* `direct_failure`: a Direct request that dies of anything but a
  `ProviderError` after the kill switch went off is answered INTERNAL_ERROR, and
  no restoration of protection is tried.
* `timer_race`: apply takes no lock; when the timer fires during a slow apply,
  the rollback restores the record and apply then goes on.

Smaller ones are not among the runs, but the statements are there to be checked
by hand with the configurations of the same name:

* `MCLateStatus.cfg` (`WarnedWhileDirect`): a status looked up before a Direct
  transition and answered after it takes the exposure warning off the page until
  the next poll.
* `MCFlagged.cfg` (`FlaggedIsHandled`): an unavailable destination flagged while
  a save waits for the target list is neither removed nor reported, because
  `saveManager` does not start the queued cleanup as `cleanupUnavailableTargets`
  does.

Where they differ in what a caller sees, and no property takes sides:

* A replacement of the catalogue that is refused with OPERATION_IN_PROGRESS is
  answered 502 (`main.py`, `_target_control`), where
  `development/SNARKYCTL.md:107-109` and `docs/10_API.md:100` say 409.
* An empty catalogue beside a built-in target is accepted by the daemon, as
  `docs/10_API.md:529-531` and `development/DECISIONS.md:824-826` say, but refused
  before it gets there by `main.py:107`, `cli.py:33` and the dashboard.
* The status endpoints answer 502 when the daemon's answer times out; the table
  in `docs/10_API.md:104` lists 504 for that.
* A collector that raises anything but its own error makes the whole STATUS an
  INTERNAL_ERROR; `development/SNARKYCTL.md:101` wants what the other components
  have said to be kept.
* The clean-up of the old resolver asks whether the new service is active
  (`snarkypuss-dns-cleanup.py:127`), where its own description and
  `docs/02_SETUP_DNS.md:159` say that it has been accepted. Within the
  provisional interval a clean-up is therefore possible, and a rollback then
  restarts the old service without its old configuration.
* The clean-up refuses "to overwrite possible administrator changes" only if
  they have removed the marker.
* Where a gateway's configuration and its key file hold different keys, the
  migration refuses "to choose one" (`snarkypuss-migrate.py:171-174`), while
  `snarkypuss-configure.py --apply` takes the key file's (349-351) and writes the
  configuration anew with it (386-391). `ServerKeyNeverRotated` therefore claims
  no more than that no key comes in which was in neither place.
* A restored gateway may have its key in the configuration only, where it was
  found; the generator then refuses it (343-347) until `--prepare` is run again.
  The same is left by restoring an older backup and then a newer one whose
  restoration is interrupted.
* The dashboard's page says that its advanced controls are disabled until the
  provider's capabilities are loaded (`dashboard.html:203`); the confirmation field
  is not (192-198), and stays so until the first status, target list or key
  stroke.
* Preflight accepts more file modes of the catalogue's database than
  `check_database` does, and requires NordVPN's firewall, at which the setup
  script's verification does not look.
* The web client waits for the daemon as long as the daemon waits for one command
  of the provider: it hardly ever hears of a PROVIDER_TIMEOUT.
* A value stored in another spelling than discovery's is not found among the
  options, so the dashboard takes it for unavailable.

And three limits show in the statements of `Activation`: a reboot loses the
transient rollback timer, a confirmation that dies between its two writes leaves
a pending activation with saved rules, and of two activations the first one's
timer removes the rules of the second.

## 7. Assumptions, and what is left out

* The provider is external. A command that times out may have had its effect
  when it returns, but only the tunnel still changes by itself afterwards; its
  settings are changed by the daemon (and the setup script) only, autoconnect is
  off.
* Targets, selectors, frames, files' texts, labels and orders are abstracted to
  what the properties tell apart. The read-only TARGET_* requests change nothing:
  `ControlDaemon` leaves them out, `FrontEnds` and `TargetSelectors` have what they
  answer. Looking up an alias and connecting to its target is one step
  as the target's record is not read again.
* Capturing the state and writing the record is one step of `Activation`:
  nothing else in the repository changes the network in between.
* The scripts that write the gateway's files are run one at a time: the operator
  waits for a generator whose migration was killed. WireGuard's files are not
  edited by hand while they are in the scripts' care; the setup file, the client's
  key and all other files may be, between two scripts. Keys are valid keys, and
  the setup names the fixed place of the client's key.
* What `parse_wireguard` makes of a configuration written by hand is any function
  from those to the settings a setup file can express, or a refusal. It drops
  what these cannot: hooks, options it does not know, all but the first of
  several addresses. A migrated gateway has what was read, and only the backup
  has the rest. The DNS servers, which come from arguments or from dnsmasq's
  files, the exit interface and the generator's own `.bak` copies are left out.
* A client's kernel closes a connection with a reset exactly when there is
  unread data; a full backlog refuses a connection.
* A failed command of the NordVPN setup whose message matches the duplicate
  pattern means that the setting is there.
* NordVPN's discovery offers countries of at least two letters; a shorter one
  would be offered and then refused by `validate_selector`.
* In `FrontEnds` the daemon is what `RemoteCall` says of it; which answer it gives
  to what is free, within the codes of the operation.
* A user's password is right or wrong for good; an edit of the auth file adds or
  withdraws users, or makes the file unreadable.
* Not modelled: creating, backing up and checking the database file (`targets-db`,
  one process that creates a file which did not exist, or reads one; a file left
  half made is refused by the commands that follow), the read-only YAML and
  in-memory repositories, the text of the provider's output and of frames,
  wording and layout of page and reports, `snarkypuss-verify.sh` and the other
  shell wrappers, build and packaging. The systemd units are there only as far as
  they start what has died.

## 8. Plan

Done, in this order, the most important behaviour first: exposure
(`VpnProvider`, `GatewayPolicy`, `ControlDaemon`), catalogue, activation, editor,
files, setup, server, panel, then the old resolver (`DnsCutover`), preflight
(`HostPreflight`), status, destinations and front ends (`StatusReport`,
`TargetSelectors`, `FrontEnds`). What is left:

1. The life of the database file: `targets-db` beside a daemon that opens it, with
   a process that dies while it creates or copies the file.
2. A composition of `ControlServer` with `ControlDaemon`'s lock: the abstract
   mutation of the former refined by the latter.
3. Two activations whose timers restore one another's snapshots, should the code
   come to relate them.
