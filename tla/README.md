# Verification of DA-IPAM

TLA+ models of the parts of DA-IPAM whose correctness depends on the order in
which things happen, the TLC runs that check them and the theorems TLAPS proves
about them. Paths are relative to the directory that holds `src/` and `tla/`;
`lib/` below stands for `src/src/lib/`.

Contents: 1 the system; 2 inventory; 3 modules and the code; 4 runs, bounds and
what they show; 5 fairness; 6 proofs; 7 what is not modelled; 8 disagreements
between the code and what it says; 9 plan.

## 1. The system

DA-IPAM is one Node process (a Next.js server with `node-cron` jobs) with one
SQLite database per tenant and one for the hub. Code runs concurrently only at
its awaits: HTTP handlers, cron ticks and background rounds interleave there,
and every synchronous stretch, SQLite calls included, is atomic. The process loads
most modules twice, once for `server.ts` and its cron jobs and once for the routes
that Next bundles (`lib/devices/lucchetto-apparato.ts:12-14`): what a module keeps in
a variable of its own exists twice, and only what it puts on `globalThis` is one for
the process. What the process holds in memory (locks, signals, guards, progress) is
lost when it restarts; what is in SQLite stays. Every model here takes its atomic
steps from that rule: one action is one stretch of code between two awaits, and an
await is a state in which anybody else may step.

The heart of the product is the scan of a network: a *giro* (round) pings the
addresses, asks the devices questions, writes the hosts, and at its end turns
off the hosts that were silent. Jobs, people and profiles all start rounds, a
round can be stopped by hand, can hang for ever in a call, and the process can
restart under it. Around that, an outbox sends inventories to a vulnerability
hub, and patch operations run commands on Windows hosts.

## 2. Inventory

The components with state of their own, what they do, where they meet others,
and what makes them correct. The full list of the parts of the repository, with
the reason for each that is left out, is in `PROJECT.json`.

| Component | State | Operations | Meets | Hard behaviour | Correct when |
|---|---|---|---|---|---|
| Network scan lock, `lib/scanner/network-scan-lock.ts` | map network → round in memory | take, release, alarm on a long round, wait for a release | every start of a round; jobs; sequences | many starters at once; late release; hung round; several alarm writers | one round per network, from its start to its `finally`; no time-out frees it; one alarm a round |
| Stop of a round, `lib/scanner/ferma-giro.ts` | registry of `AbortController`s | register, stop | stop route, rounds, sequences | stop at any await | a stopped round turns nobody off |
| Discovery and profile rounds, `lib/scanner/discovery.ts`, `lib/scanner/profili/` | progress map, hosts | start, probe, write, offline pass, end | lock, stop, threshold | error, stop, missing end; hang | every end gives the network back |
| Sequences, `lib/scanner/sequenze.ts` | phase, stop signal, its round | start, next phase, wait for the network, follow, stop | lock, rounds, stop | a round of others slips between two phases; stop between a start and its listener | stop reaches the round; «over» means over; it ends |
| Jobs, `lib/cron/jobs.ts`, `lib/cron/scheduler.ts` | `runningJobs`, `last_run`, pass over networks | tick, «Esegui ora», wait, follow, skip, abandon | lock, rounds, vault | busy networks; rounds that do not close; overlap of ticks | `last_run` means done; each network counted once; guard exact; it ends |
| Offline threshold, `lib/scanner/offline-guard.ts`, with `lib/db-tenant.ts` | host status, `last_seen`, pending set | round, pass, check of the known hosts | rounds; the check takes no lock | host seen by others during a round; other perimeters; crash between two writes | nobody seen alive is turned off; a fall is applied only when confirmed; nobody is held for ever |
| Vulcan outbox, `lib/vulcan/` | table `vulcan_coda`, suspension, ping | queue, send, retry, suspend, «Invia ora», clean | hub, DA-Link token, AD export | lost answers; crash with rows taken; token refused mid-round | nothing confirmed is sent again; a suspended token is silent; every row leaves |
| Patch operations, `lib/patch/executor.ts` | table `patch_operations`, coroutines | create, wait for host, command, end, cancel, recover | tenant database pool, cancel route | database closed under a coroutine, or opened by the other copy of the code and its rows recovered; restart; cancel during a wait | one at a time on a host; an outcome nobody carries on is final |
| Automatic Chocolatey, `lib/patch/choco-automatico.ts` | hosts taken, seats, queue | round, sit, end | patch operations | a bootstrap that throws; two rounds at once; seats and locks in each copy of the code | in each copy no seat lost or given twice; everybody comes to the end; the night gives up |
| Job health, `lib/health/`, with `lib/notifications/notifier.ts` | `last_run`, failure series and alarms in memory, the row «scheduler» | success, failure, verdict, notice, record | jobs, notification channels | notices refused; death between a notice and its record; lost context | who is told knows what the row says; no noise; a fault that lasts is told |
| Logon brake, `lib/credentials/freno-logon-windows.ts`, `conto-logon-ricerca.ts`, `lib/scanner/account-windows.ts` | marks, refusals, places, wrong passwords, all in memory | reserve, check, log on, give back, forgive | domain controller, hosts, search of credentials | many requests on the last place; answers out of order; windows that close | an account takes few refusals and few binds, whoever asks |
| Vault, `lib/vault/`, `lib/crypto.ts` | keys of the values in every database, free pages | lock, unlock, dry run, re-encrypt, inverse | every component that keeps a secret; jobs (pause) | crash between commits, or between a commit and its VACUUM; rows read before and written after | every value readable; nothing of the old key left |
| Chosen devices, `lib/apparati-scelti/`, `lib/devices/lucchetto-apparato.ts`, `lib/topology/letture/cadenza.ts` | lock per device, lock per VLAN reading, outcomes | round, read, time out, «Interroga» | ARP round, jobs | a reading that answers after its time-out, or never | locks exact; outcomes final; rounds end |
| Application update, `lib/aggiornamento-stato.ts` | state file shared with scripts | request, progress, end | scripts | either side dies | *planned* |

How they interact:

```
 cron tick / «Esegui ora»          user, profile, night recogniser
            |                                  |
       ScanJobs                          ScanSequences
            \________  NetworkRounds  ________/        (what callers count on)
                            ^
                            | implemented by
                       ScanRounds  --implements-->  OneRoundPerNetwork
                            |  at most one round per network
                      OfflineGuard <---- check of the known hosts (no lock)

                Outbox
                  ^ implemented by
 AD run ---> VulcanQueue <---> hub          ChocoAutomatico ---> PatchOperations

 jobs --last_run, failures--> SchedulerHealth ---> channels
 ARP round, job of the devices, «Interroga» ---> DeviceReadings (lock per device)
 logons by hand, searches ---> LogonBrake ---> domain controller, hosts
 pages, services ---> databases <--- VaultRekey (a process of its own)
```

`PROJECT.json` lists the hazards of this code, each at its line, with the
properties that would catch it going wrong.

## 3. Modules and the code

Names are those of the source, which is written in Italian; `map` in
`PROJECT.json` gives the lines of every definition. Operators that follow a
comment «Mutant:» are plausible bugs of the operator below them: each property
of each passing run is violated when one of them takes its place.

**OneRoundPerNetwork** - the promise of ADR 0006 without a lock: a set of
writers per network, entered only when empty.

**ScanRounds** - `network-scan-lock.ts`, `ferma-giro.ts`, and start, stop
checks, offline pass and endings of `discovery.ts` and of the profile rounds.
`giri` is the lock table; `stato` says where each round is (before the offline
pass, after it, in a profile, over but not yet through its `finally`, closed);
`segnali` are the abort signals; `lunghi` the rounds older than the alarm
threshold; `appesi` those in an await that never settles; `righe` is history. A start
is atomic (`prendiRete` to the first await); `Rilascia` is the `finally` clause, a step of its own because the body and the
clause are in different turns of the event loop. An error thrown at the start
is caught in the same turn and leaves nothing behind, so it is no step. Scan ids
are never reused by the code; here a forgotten round gives its identity back, so
that few identities serve endless behaviours.

**NetworkRounds** - the same rounds as their callers see them: opened,
signalled, hung, closed with an outcome. `ScanRounds` is checked to implement
it, so `ScanJobs` and `ScanSequences` may be built on it instead of on the
larger module.

**ScanJobs** - `eseguiJobProgrammato`, `eseguiJobOra`, `runJob`, `suOgniRete`,
`giroCompleto`. An execution has a `pc` for each await: about to start a round,
refused and reading the clock, asleep on the holder's release, following its own
`done`. `daFare` and `rimandate` are the two passes over the networks. Types of
job that are not scans are one step with any outcome. The networks of a pass
are taken in any order.

**ScanSequences** - `avviaSequenza`, `avviaFase`, `reteLiberaOStop`, the stop of
a sequence: a phase starts, its round is followed with a listener on the stop, a
busy network is slept on.

**OfflineGuard** - phases 1, 3 and 4 of `runDiscovery` and
`passaggioOfflineConSoglia`, on the hosts of one network; `Scrive` is
`upsertHost`; `BattitoVivo` and `BattitoMuto` are `recordHostHeartbeat`, which
may come at any moment because the check of the known hosts takes no lock. That
one round at a time runs here is what `ScanRounds` shows. Time is what the code
asks of it: whether `last_seen`, in seconds, is before the start of the round.
A pass that crashes between its two writes is an action. `online` stands for
every status that is not `offline`.

**VulcanQueue** - `coda.ts`, `giro.ts`, `job.ts`, `accoda-ad.ts`: a row per body,
with its status, tries, back-off and taking; the round with one row in flight,
the ping and the heartbeat, the suspension of a token, the jobs of a file run
one at a time, the AD export that queues from outside of it. `HubRiceve` and the
answer are two steps, so that an answer can be lost after the hub has the body.
Whether a token still needs its ping is one variable for the memory and the
table together. `generato_il` makes every inventory a new body.

**Outbox** - what that table promises when the rounds, takings, tokens and restarts
are looked through: a row enters, is delivered while it waits, is confirmed, refused
or given up, made old by a newer inventory, put back, forgotten. `VulcanQueue`
implements it, with `stato` the column of the table and `arrivati` the bodies received.

**PatchOperations** - `executor.ts`, the recovery of `getTenantDb` and the
cancel route: each row with the coroutine that carries it (`lavoro`) and whether
the connection it holds is still open (`presa`). The pool of 20 tenant databases is a
variable of its module (`db-tenant.ts:169`), so each copy of the code has one, and
`aperto` says of each whether it has the database open: `Sfratto(k)` closes the
connection of copy `k` when its pool is full and leaves the other's alone, a restart closes
both, and every opening (`Apri`, or a request that finds its copy closed) runs the
recovery on all the rows, those of live coroutines of the other copy included (`Recupera`).
The admin works in the routes. `recente` is what
the code asks of time: running for less than ten minutes, or over for less than
ten seconds. The check that a host is free and the write of `running` are in one
turn of the event loop, hence one action. `reboot_pending` is kept as success;
missing credentials are a command that fails at once.

**ChocoAutomatico** - extends `PatchOperations` with `choco-automatico.ts`: the
choice of the hosts from the history, the lock of a host, the seats, the queue,
the seat handed over at an end. `inCorso`, `attive` and `inAttesa` are variables of
the module, hence one each for the server's copy, where the night runs, and for the routes',
where a saved credential starts its round; the rows are what the two share.

**SchedulerHealth** - `job-failure-tracker.ts`, `scheduler-freshness.ts`,
`scheduler-health-notify.ts` with the decision it shares with the other health
rows. Time is counted in rounds of half an hour and kept as ages that stop growing
at the limit nobody looks beyond. `Valuta` is the round up to its only await,
`Spedisce` the answer of the channels, `Salva` the write of the row: between any
two of them the process may die. `saputo`, `taciuto` and `perduto` are history:
what those who receive the notices know, the verdict of a notice nobody accepted,
a record swallowed by a crash. A dispatch ends before the next round.

**LogonBrake** - `freniDelLogon` over `rate-limit.ts`, `ContoLogonRicerca`,
`RicordoErrate`, for one account of one tenant. An element of `Tentativo` is one
attempt from its check to the day its refusal is forgotten; `segni`, `rifiuti`,
`inCorso` and `ricordo` are the maps of the code, `bind` is history. Check and
reservation are one action because there is no await between them. All of it is in
the memory of the process, so a behaviour is the life of one process: a restart
forgets every mark, and no bound holds across it. What else stops an attempt
(`credential-run-budget.ts`, three per host) only takes behaviours away.

**VaultRekey** - `ricifra.ts` and its command, under an application that writes
with `encrypt`, reads with `decrypt`, makes tenants, and writes back rows it has read.
Of a database only the keys of its values (`chiavi`) and of what its free pages
still hold (`pagine`) are kept. `Applica` is the transaction of one file, `Pulisce`
its checkpoint and VACUUM, `SiInterrompe` whatever ends the command between two of
them. The switch and the order of the commands are those of ADR 0034.
`riportato` is history: a value read before the run was written back after it, which
`zabbix-lettura/config.ts:163` does when the page leaves the key empty. Such a
read and its write are shorter than `busy_timeout`, and so is every reader during a
clean-up: `Pulisce` takes both `wal_checkpoint(TRUNCATE)` as completed, which report
«busy» without throwing (`ricifra.ts:192-194`).

**DeviceReadings** - `conLucchettoApparato`, `entroTempoApparato`, `conCadenza`,
and the rounds that use them: the ARP round and the chosen devices, with «Interroga».
`vivo` is the body a reader waits for, `appesi` the bodies left behind by a
time-out: `entroTempoApparato` does not stop a body, so it goes on to its next
reading when the one in hand returns. `occupati` lives on `globalThis` and is one
for the process; `presa` is a `Set` of the module, hence one for each copy of the
code (the server's and the routes'), which `Copia` says. What a reading writes, and
the hour of the cadence, are left out.

`MC*` modules add the symmetry sets and the definitions their `.cfg` files need.

## 4. Runs, bounds and what they show

| Run | Bounds | States | What it shows |
|---|---|---|---|
| `scan_rounds` | 2 networks, 2 rounds, fair | 18,649 | `RoundsInv`: a network is held exactly while its round lives (hence two rounds never write one network together), and one alarm a round. `ReteRestituita`: every round that does not hang gives the network back. And `ImplementaUnGiroPerRete`, `ImplementaGiriDiRete`: the two refinements, where only a restart frees a hung round |
| `scan_jobs` | 1 execution, a job on one and one on both of 2 networks, one of chosen devices, 2 rounds, fair | 214,088 | `JobsInv`: each network has one outcome, and `runningJobs` is exactly the jobs that run under it. `LastRunVuolDireFine`: `last_run` of a scan is written when its rounds are over and one was done. `SaltaSoloAScadenza`: the cron skips a network only at the longest wait. `OgniJobFinisce`: an execution ends whatever hangs |
| `scan_sequences` | 2 sequences of 2 phases, 1 network, 2 rounds, fair | 122,960 | `SequencesInv`: a stop reaches the round of the phase, and «over» means over. `LoStopChiude`, `SequenzaFinisce` |
| `offline_guard` | 3 hosts, threshold 50 % and 2 | 236,592 | `VistoDopoNonSiSpegne`, `FuoriPerimetroIntatto`, `CaloSpentoSoloConfermato`, `DueSilenziSpengono` |
| `vulcan_queue` | 2 inventories, 1 export, 2 tokens, 2 tries, 2 rows a round | 972,566 | `QueueInv`: a body is kept as long as it is needed, and the rows taken are those of the running round. `SospesoTace`: nothing is sent with a suspended token. `EsitoVero`: what the row of an export says is true. `ImplementaCassetta`: the refinement to `Outbox`, so that a row whose answer came back is never sent again |
| `vulcan_queue_live` | 1 inventory, 1 export, 1 token, 2 tries, 1 row a round, fair | 32,624 | `EsceDallaCoda` |
| `choco_automatico` | 3 rows, 2 hosts, 2 copies of the code, 1 seat each, 1 failed try, an admin who asks for bootstraps and upgrades, fair | 614,076 | Of the rows, across the copies: `UnoAllaVolta`, one command at a time on a host; `CodaHaChiLaServe`, a row queued by a copy that has the database open has somebody who serves it; `EsitoDefinitivo`, a success is final, a failure too when no open connection is left for it. Of the automatic installs, in each copy: `AutoInv`, seats and host locks are exact; `TuttiInFondo`, everybody taken comes to the end. `NotteSiArrende`: the night fails on a host no more often than its limit |
| `scheduler_health` | 2 jobs of different tolerances, threshold 1, alarm every round, repeat after 2 rounds, fair | 506,038 | `HealthInv`: who receives the notices knows the verdict of the row. `SenzaRumore`: the same fault is not repeated too soon. `GuastoRipetuto`: a fault that lasts is told again and again. `IncidenteDetto`: a lost context, with every job failing, is told as a total stop |
| `logon_brake` | 4 attempts, 2 passwords, 2 places, windows of 2 | 449,695 | `LogonInv`: every place has one owner. `ManoRada`, `RicercaRada`: refusals on the account, by hand and of the searches. `BindContati`: binds of a wrong password |
| `vault_rekey` | the hub and 2 tenants, both directions | 2,191,687 | `TuttoLeggibile`, `NienteDiVecchio`, `RekeyInv` (nothing written unless every dry run has passed) |
| `device_readings` | 2 devices, 2 rounds and 1 «Interroga», fair | 181,080 | `ReadingsInv`: the two locks and the rows are exact whoever still hangs. `Fotografia`: an outcome does not change after the time-out. `GiroFinisce`: a round ends though no device answers |
| `patch_annullata` | small | - | a violation: section 8 |

An invariant that ends in `Inv` begins with the type invariant of its module and
is the conjunction of the facts the others rest on; it is inductive, or follows from the
inductive invariant of the proof module. Larger or other instances are kept beside the listed
runs, each passing: `MCScanJobs_guard.cfg` (two executions of three jobs:
475,852 states), `MCPatchOperations.cfg` (every action of an admin, 2,848,092) and
`MCSchedulerHealth_lunga.cfg` (longer series and cool-downs).

Why these bounds are enough to see the cases that matter:

- *Rounds.* The lock couples rounds only network by network, so two rounds give
  holder and late comer, two networks the independence of keys; identities are
  reused, so a network sees any number of rounds one after the other.
- *Jobs.* Two networks are the least for a pass in which one is busy and the
  other is not, one hangs and the other is done; the second identity is the
  round of somebody else, and identities come back as rounds are forgotten. The
  guard with two executions is in `MCScanJobs_guard.cfg`, and with any number of
  them in `JobsInvariante` (section 6).
- *Sequences.* Two phases have one gap between them, where others slip in; two
  sequences compete for one network.
- *Threshold.* With three hosts and a minimum of two a fall can be of two or
  three, so that the held-back set and the next candidates can be equal, differ,
  or overlap, and one host can be outside of the perimeter.
- *Outbox.* Two inventories are the least for one to make the other old; two
  tokens for a change; two tries for a first and a last; three rows with two a
  round leave one for the next.
- *Patches and Chocolatey.* Three rows on two hosts: two that compete and one that
  is independent, or three in a line; one seat a copy for two hosts, so that one has to
  wait; the two copies are all there are. Bootstraps and upgrades are the actions that
  wait for their host; the others of an admin are in `MCPatchOperations.cfg`, and the
  theorems are of every set of actions. `NOp` bounds the rows of a behaviour; rows are
  reserved for those who wait, and for the probe that follows an upgrade, so that the bound never stops a seat.
- *Health.* Two jobs are the least for «some» and «all»; ages count up to their
  limit plus one, because nothing asks how much older they are.
- *Logons.* Two places and four attempts: two that hold them and two that come
  while they are being answered; windows of two instants with attempts that last
  one, so that a mark can be forgotten before, with or after its refusal.
- *Vault.* The hub, a tenant that may be there and one that may be made during a
  run; of a database only which keys it holds matters.
- *Devices.* Two devices and three readers, one of them in the other copy of the
  code: one device to be hung on and one to go on to; a reader that has two
  readings to do can hang in the first and begin the second.

Symmetry is used where it is sound: permutations of rounds, executions, hosts,
tokens and exports, and only in runs without liveness. No deadlock is allowed in
any run: the environment (ticks, restarts) can always step.

## 5. Fairness

Fairness is stated only of what the process does by itself; nothing is assumed
of users, of the vault, or that a hung call returns.

- `ScanRounds`: weak fairness of the body of a round that is not hung and of its
  `finally`: an await that settles is resumed.
- `ScanJobs`, `ScanSequences`: the event loop resumes what is ready, and timers
  fire (`Scade`). `ScanJobs` needs nothing of the rounds. `ScanSequences` needs
  that a round that does not hang closes, which is `ReteRestituita` of
  `ScanRounds`; its properties except the rounds that hang.
- `VulcanQueue`: the jobs of the file go on (weak); a round is served, its ping
  passes and a row is reached again and again (strong): the timers tick for ever,
  a call has a time-out, the oldest row goes first, and the hub is not down for
  ever. `EsceDallaCoda` also asks that the process does not restart, and the token
  does not change, for ever, and excepts a flow that is off or suspended.
- `SchedulerHealth`: time passes (weak); a due round is run, its notice is accepted
  and its row written when they are possible again and again (strong): restarts do
  not fall on every round, and channels that are tried for ever are not down for
  ever. Nothing is assumed of the jobs.
- `DeviceReadings`: a round goes on and its timers ring (weak); nothing says that a
  reading returns.
- `LogonBrake`, `VaultRekey`: safety only.
- `ChocoAutomatico`: a bootstrap ends, because its wait is five minutes at most, a
  command has a time-out, and an error thrown by a closed database arrives.

## 6. Proofs

`ScanRoundsProofs` proves, for every set of networks and of rounds, under
`RoundsAssumption` (the two null values are not members of the sets):

| Theorem | Statement |
|---|---|
| `TypeCorrect` | `SafeSpec => []TypeOK` |
| `LucchettoCorretto` | `SafeSpec => []LucchettoFinoAllaFine` |
| `MutuaEsclusione` | `SafeSpec => []UnGiroPerRete` |
| `AllarmeUnaVolta` | `SafeSpec => []UnaRigaPerGiro` |
| `InvarianteDeiGiri` | `SafeSpec => []RoundsInv` |
| `AppesoNonLibera` | `SafeSpec => AppesoTieneLaRete` |
| `Raffinamento` | `SafeSpec => ImplementaUnGiroPerRete` |

`UnGiroPerRete` is not inductive: nothing in it says that a round that writes is
the one the table names. What is inductive is the exactness of the lock,
`LucchettoFinoAllaFine`: `giri[n] = g` if and only if `g` was started on `n` and
has not been through its `finally`. With the type invariant it is preserved by every
step; a start needs `giri[n] = NoGiro` and a round that is outside, and the
release frees only the network of its own round. Two rounds in the same network
would both be its holder, so they are equal: that is `MutuaEsclusione`, which also
needs that a round in its life has a network (`HaUnaRete`).
The alarm needs `RigaSegnata`: a round that has its line is flagged until it
closes, and a new round has none. `AppesoNonLibera` needs `AppesoInCorso`: a hung
round is still in its body, so no `Rilascia` is its own. The refinement maps
`scrive[n]` to the rounds in their body on `n`: a start is `Entra` (its guard
follows from exactness), an end is `Esce`, a restart is `Crollo`, the rest stutters.
`CasiDiNext` splits the next-state relation once for all of them.

The same module proves, under the same assumption, `RaffinamentoDeiChiamanti`:
`SafeSpec => ImplementaGiriDiRete`. `ScanJobs` and `ScanSequences` are built on
`NetworkRounds`, not on the rounds themselves, so this theorem is what makes their
results say something of the code. The steps map under the conjunction of the
invariants above and one more, `EsitoFondato`: a body that is over has an outcome,
and that outcome is "fermato" only if the stop was asked, and is still asked when
the `finally` runs. A start is `Apre`, `Rilascia` is `Chiude` with the outcome of the
body, and the steps of a body change nothing a caller can see (`CorpoTace`).

`ScanJobsProofs` proves, under `JobsAssumption` and `NetworkRoundsAssumption`, for any
jobs, networks, execution slots and rounds:

| Theorem | Statement |
|---|---|
| `EsecuzioniGiuste` | `SafeSpec => []IInv` |
| `JobsInvariante` | `SafeSpec => []JobsInv` |
| `LastRunInvariante` | `SafeSpec => []LastRunVuolDireFine` |
| `SaltoInvariante` | `SafeSpec => []SaltaSoloAScadenza` |

None of the three properties is inductive: they look at an execution when it closes or
is over, and what makes them true is decided network by network before that. `IInv`
follows the pass (`Giusta`): while it goes on, the networks to do, put off, done,
skipped and failed are a partition of those of the job (`Partizione`), the one in
hand is of the first pass or, when that is empty, of the second, and only the second
pass of the cron waits (`Turno`). The rounds still open are the one in hand and those
of networks that failed, and none of them has an outcome (`SenzaEsito`), so when
`done` settles the round in hand is not an open one (`PassoChiuso`), and an
execution without failed networks ends with nothing open. The guard is restated
execution by execution (`EsattaPer`), where a step that neither starts nor ends an
execution keeps it at once (`UnPasso`) and the others add or take one key
(`EntraOEsce`).

`ScanSequencesProofs` proves, under `SequencesAssumption` and
`NetworkRoundsAssumption`, for any number of phases: `SequenzeGiuste`,
`SafeSpec => []IInv`, and `SequencesInvariante`, `SafeSpec => []SequencesInv`. What is
inductive is that a sequence has a round in hand exactly during a phase, that its
open rounds have no outcome, and that a stop has reached the round it follows while
that round is open (`Accordo`, stated of any outcomes, lock table and stops, so that
it can be said of the next state too). Only a start could open again the round a
sequence names, and no start takes an id that somebody still reads (`GiriQuieti`).

`OutageProofs` holds the two parts that say what is down. It proves, for every set of
hosts, under `GuardAssumption` (the proofs never use the numbers of the threshold: they
hold whatever `SogliaSuperata` answers):

| Theorem | Statement |
|---|---|
| `TypeCorrect` | `SpecGuard => []TypeOKGuard` |
| `VistoNonSpento` | `SpecGuard => VistoDopoNonSiSpegne` |
| `PerimetroRispettato` | `SpecGuard => FuoriPerimetroIntatto` |
| `SecondoSilenzio` | `SpecGuard => []DueSilenziSpengono` |
| `CaloConfermato` | `SpecGuard => CaloSpentoSoloConfermato` |

The two action properties on who and where follow from the type invariant and from what a
pass decides (`Decisione`, `SoloLaFinePassa`). The last two need the memory of the
guard, `Memoria`: the pending set names only hosts that the last pass that looked
at them missed, and names every host that was missed once and is still on. It is
inductive together with `DueSilenziSpengono`: at the second silence a host is in the
pending set, so the threshold cannot hold it again; at the first it is turned off
or put in the set. A pass that dies between its two writes (`PassaggioInterrotto`)
keeps it too, because the hosts it turned off are not on.

and, under `HealthAssumption` (a finite set of jobs, any tolerances, any positive
limits):

| Theorem | Statement |
|---|---|
| `InvarianteDellaSalute` | `SafeSpec => []HealthInv` |
| `ChiRiceveSaSempre` | `SafeSpec => []ChiRiceveSa` |
| `NessunRumore` | `SafeSpec => SenzaRumore` |

`ChiRiceveSa` is not inductive: between the answer of the channels and the write of
the row the two disagree. `HealthInv` adds what holds there: an accepted notice is
what those who receive it know, a refused one has changed nothing, a repetition was
decided on a row whose notice is as old as the limit, and outside of that stretch
the age of the row is the age of what was last accepted, crashes aside.

`CredentialsProofs` holds the two parts that keep credentials. It proves, under
`LogonAssumption` (a finite set of attempts, a logon shorter than the window):

| Theorem | Statement |
|---|---|
| `PostiGiustiSempre` | `Spec => []LogonInv` |
| `PocheProveAMano` | `Spec => []ManoRada` |
| `PocheProveDiRicerca` | `Spec => []RicercaRada` |
| `PochiBind` | `Spec => []BindContati` |

`LogonInv` says who owns each place: the marks are the attempts by hand in course or
refused within the window, the refusals and the count of the searches likewise, so
that a place given back was one's own. The cardinalities are carried by small lemmas
on adding and removing one attempt. By hand the window of the code starts at the
reservation and the account's at the answer: the invariant bounds the distance by
`Durata`, which is why `ManoRada` holds on the window shortened by it. For the binds
the sum of those made and of the checks in course is bounded by the places of the two
kinds, and stays so because a remembered password starts no other check.

and, under `RekeyAssumption`, for any finite set of databases:

| Theorem | Statement |
|---|---|
| `InvarianteDellaRicifra` | `SpecRekey => []RekeyInv` |
| `NienteDiVecchioSempre` | `SpecRekey => []NienteDiVecchio` |
| `TuttoLeggibileSempre` | `SpecRekey => []TuttoLeggibile` |

What makes the result inductive is what holds in the middle of a run: the databases
done, and those made since the list was taken, have nothing old (`FattiFinQui`,
`NuoviPuliti`), because with the switch on the application writes with the new key
or not at all; and an inverse run has no application beside it. `TuttoLeggibile`
then follows: with the switch off there is nothing under the data key.

`DeviceReadingsProofs` proves, under `ReadingsAssumption`, for any devices, readers,
choices of readings and copies of the code:

| Theorem | Statement |
|---|---|
| `LucchettiEsatti` | `SafeSpec => []ReadingsInv` |
| `UnaVlanAllaVolta` | `SafeSpec => []UnaVlanPerCopia` |
| `EsitiFermi` | `SafeSpec => Fotografia` |

The lock of the device is exact for the bodies somebody waits for (`UnSoloVivo`); that
of the VLANs counts the bodies left behind as well (`UnaVlanPerCopia`), and needs that
two of them are never at the VLANs of one device in one copy.

`ChocoAutomaticoProofs` proves, under `PatchAssumption` (a finite set of hosts,
which are database ids, hence numbers) and `ChocoAssumption`, for any number of rows and
of seats:

| Theorem | Statement |
|---|---|
| `RigheSempreSane` | `Spec => []RigheSane`, of `PatchOperations` alone |
| `UnoPerHost` | `SafeSpecAuto => []UnoAllaVolta` |
| `CodaServita` | `SafeSpecAuto => []CodaHaChiLaServe` |
| `EsitoNonCambia` | `SafeSpecAuto => EsitoDefinitivo` |
| `PostiSempreSani` | `SafeSpecAuto => []AutoSano` |
| `PostiELucchetti` | `SafeSpecAuto => []AutoInv` |
| `NotteLimitata` | `SafeSpecAuto => []NotteSiArrende` |

That two commands are never together on a host (`UnoAllaVolta`) is not inductive: the
check that a host is free reads the rows, and a row may be failed by the recovery, of
its own copy of the code or of the other, while its coroutine is alive. What is inductive,
`RigheSane`, ties each row to its coroutine (`RigaSana`): one that holds an open
connection is where its row says, unless the row was cancelled under its wait or the
opening of the other copy recovered it (a wait, or an install older than ten minutes);
and a command that waited for its host is seen `running` and recent even when its
connection was closed, because it lasts less than the ten minutes the recovery leaves
alone. So the check sees it, from either copy. A recovered row whose coroutine lives may
still be written, so `EsitoDefinitivo` cannot say of every failure that it stays: it says
so of a row no open connection is held for (`Conclusa`), and `Tenuti` carries it
from table to table. Several steps write more than one row
(an end and its probe, a round that opens the database and seats many): the facts are
stated of a table and of the copies that have it open, and a lemma says what one
writing does to them. For many rows born together (`NasconoTutte`) and for the seats and the queue of one round
(`LucchettiGiro`) the rows are numbered by the order of their hosts (`Elenco`).

`AutoInv` is not inductive either: that a seat is handed over and not lost needs
that the hosts that sit, those that wait and those under lock are the same, each
once (`Distinti`), which makes the three counts agree (`Lucchetti`), and that nobody
waits beside a free seat (`Posti`). `AutoSano` adds both, of each copy, to `RigheSane`.
A step that gives or takes no seat leaves every copy as it was (`Fermi`); one that does is
of one copy, and the other's rows, seats and queue stay (`StessiPosti`, `UnaCopia`), which
is why the lemmas are stated of one copy (`Concorda`). An end that
hands its seat over moves one host from the queue to the seats; a restart empties
all of it together.

`NotteSiArrende` compares the choice of a host with a failure many steps later, so it is
strengthened to count what may still fail (`NotteSana`): the bootstraps of the night on
a host that failed, are in hand, or were cancelled under a coroutine that can go on
(`Rischio`), since the last bootstrap of an admin, plus one if the host waits for a
seat, are at most the limit. A round takes a host only when nothing of it is in hand
and one try is left (`RestaUnTentativo`, which needs the locks of `AutoSano`); a seat
handed over turns the waiting host into a row; no other step adds to the count (`Eredita`).

`VulcanQueueProofs` proves, under `QueueAssumption`, for any number of inventories,
exports, tokens, tries and rows a round:

| Theorem | Statement |
|---|---|
| `CodaSempreSana` | `SafeSpec => []CodaSana` |
| `RigheCorpiPrese` | `SafeSpec => []QueueInv` |
| `SospesoNonChiama` | `SafeSpec => []SospesoTace` |
| `EsitoDegliExport` | `SafeSpec => []EsitoVero` |
| `ImplementaLaCassetta` | `SafeSpec => ImplementaCassetta` |
| `PromessaDellaCassetta` | `SafeSpec => []Cassetta!Promessa` |

The inductive invariant, `CodaSana`, puts the table beside the history (`TabellaSana`),
the step at an await beside the suspension (`GiroSano`), and the rows of the round
beside both (`RigheDelGiro`): a row in flight, or taken and not yet sent, still waits,
because whatever enters from outside makes old only inventories, and these enter only
when no round is at an await. That is what an answer needs in order to be written to the
right row, and what makes every answer a step of `Outbox`. The refinement needs one
fact more, `Freschi`: the inventories to come are not in the table, so the clean-up of
old rows never takes the one that is entering. Takings, pings, suspensions, changes of
token and restarts stutter. From the steps of `Outbox` alone follows its `Promessa`,
which is more than `EsitoVero` says: of every body, sent means received and a
confirmed one stays sent.

Left to TLC: liveness under fairness (`ReteRestituita`, `OgniJobFinisce`, `LoStopChiude`,
`SequenzaFinisce`, `GuastoRipetuto`, `IncidenteDetto`, `GiroFinisce`, `EsceDallaCoda`,
`TuttiInFondo`), which needs ENABLED, and the violations of section 8.
Every invariant and every action property of a passing run is stated by a theorem above.

## 7. What is not modelled

Inside the modelled parts: what the probes read of a device and what is inferred
from it (an answer is a free choice); a job on a tenant with no network; a
pending set that cannot be read, and hosts deleted while they are in it; the
order of `prossimo_tentativo`; the parsing of the output of a command; in
`ChocoAutomatico`, the instant of the await in which the module may be switched
off. In `SchedulerHealth`, a round that outlasts half an hour and the digest of
the events; in `LogonBrake`, restarts and the brakes that only stop more; in
`VaultRekey`, the slots, the re-encryption of the backups and the secrets of the
login, which stay on the installation key; in `DeviceReadings`, what is read and the
hour of the cadence. One process of the service is assumed: nothing in the code
coordinates two. In `VaultRekey` a checkpoint that reports «busy» is left out (section 3).
The listed run of `ScanJobs` has one execution: overlapping ticks are judged by
`MCScanJobs_guard.cfg` and by `JobsInvariante`. What a stop does to the offline pass is
one guard read in the turn of the pass (`discovery.ts:3776`), modelled (`InCoda`) but with no
property of its own; and `OfflineGuard` takes «seen after the start» as the code does,
without the resolution of a second of `last_seen`.

Whole parts: pure functions (attribution, classification, topology), protocol
and file I/O, clients of external services, forms and pages. `PROJECT.json`
gives the reason for each.

## 8. Disagreements between the code and what it says

Checked as a run that must end in a violation:

- `patch_annullata` - `AnnullataNonParte`. An operation cancelled while it waits for
  its host, with the route answering that it is cancelled, starts when the host is
  free: the row is not read again after the wait. Both operations that wait do so: the
  bootstraps (`executor.ts:402-417`), which are those of TLC's trace, and the
  upgrades (`executor.ts:970-985`).

The others are kept with their configuration beside the listed runs; each ends in
a violation in a few seconds (`tlc -config <cfg> <module>`; where a configuration
lists several, TLC names the first it meets, the next one when that is taken out):

- `MCScanSequences_limite.cfg` - `AttesaConLimite`. `sequenze.ts:23,41-42` promise
  that a phase waits for a busy network up to a limit; the limit is read only
  after a refused start (`sequenze.ts:51`), and the sleep has no timer, so behind
  a hung round the phase waits for ever.
- `MCOfflineGuard_vivo.cfg` - `TornatoVivoEsce`. ADR 0006 (line 80) says that a host
  that is alive again leaves the pending set by itself; only the offline pass
  rewrites the set, so a host that the check of the known hosts sees alive stays,
  and the next fall turns it off at its first silence.
- `MCSchedulerHealth_ritenta.cfg` - `SiRitenta`. `scheduler-health-notify.ts:176-177`
  says that a notice no channel accepted is tried again at the next round; the
  verdict is saved all the same (182), so the next round sees no transition: a
  return to normal, or a fault that came back within the repeat time of an older
  notice, is not tried again. (`GuastoRipetuto` holds: a fault that lasts is told
  when the repeat time is over.)
- `MCDeviceReadings_lucchetto.cfg` - `MaiSenzaLucchetto`. `lucchetto-apparato.ts:2-6`
  says that two readings never read a device together and that the lock is freed when
  the reading really ends; after a time-out (`giro.ts:164`) the body goes on to its
  NEXT reading (the loop at `giro.ts:89`) when the one in hand returns, without the
  lock.
- `MCDeviceReadings_vlan.cfg` - `UnaVlanNelProcesso`. `cadenza.ts:3` says «un lucchetto
  per apparato nel processo»; the `Set` (`cadenza.ts:21`) is of the module, and the
  server and the routes each have a copy: a VLAN reading left hanging by a job and
  the one of «Interroga» run together.

The next four come from the two copies of the code, each with its pool of databases
(`db-tenant.ts:169`) and its locks and seats (`choco-automatico.ts:137-139`):

- `MCChocoAutomatico_copie.cfg` - `PostiNelProcesso`. `choco-automatico.ts:22-23,44` say
  at most `INSTALLAZIONI_PARALLELE_MAX` installs together «in tutto il processo»; the
  night (started by `server.ts`) and the credentials' rounds (started by the routes) count
  their own.
- `MCChocoAutomatico_copie.cfg` - `UnLucchettoPerHost`. `choco-automatico.ts:20-21`
  says that a host is left alone «se questo processo ci sta già lavorando»; a host that
  waits for a seat in one copy has no row yet, and the other copy takes it too. (The two
  bootstraps still go one after the other: `UnoAllaVolta`.)
- `MCPatchOperations_orfane.cfg` - `NessunoLiRiprende`. `db-tenant.ts:2472-2476` says
  that the rows it fails at an opening belong to a coroutine that died with its process
  and that «nessuno li riprenderà»; the recovery runs at the opening of each copy, and a
  coroutine that waits in the other one goes on and writes `running` over `failed`.
- `MCChocoAutomatico_copie.cfg` - `LaPaginaNonAspetta`. The same lines say that the
  recovery is there «così la UI sblocca»; when the copy of a queued row is evicted while
  the routes keep the database open, the page shows a row that nobody will start until
  one of the two opens the database again.

And:

- `MCPatchOperations_orfane.cfg` - `ApertaSenzaOrfane`. `db-tenant.ts:2472-2476`
  says that whatever is queued or running when the database opens belongs to a
  dead process and is failed; the query leaves alone what started less than ten
  minutes before, which then stays running until the database is opened again.
- `MCScanJobs_saltato.cfg` - `IlSaltatoNonTimbra`. `jobs.ts:166-168` says that a
  job answered «saltato» gets no `last_run`; `eseguiJobOra` writes it
  (`jobs.ts:492-495`) for a job that is not a scan when the vault is locked.
- `MCVulcanQueue_nuova.cfg` - `SoloLaPiuNuova`. `coda.ts:7-8` says that only the
  newest inventory is sent; «Invia ora» puts a failed older one back beside the
  new one (`job.ts:152-154`).
- `MCChocoAutomatico_regole.cfg` - `RegoleAllaPartenza`. The header of
  `choco-automatico.ts` (18-21) says that an installed host is not touched and
  that two operations never share a host; the history is read before the wait for
  a seat and not again after it.

## 9. Plan

Done: `OneRoundPerNetwork`, `ScanRounds`, `NetworkRounds` with the proofs of the
lock and of both refinements; `ScanJobs`, `ScanSequences`, `OfflineGuard`,
`SchedulerHealth`, `LogonBrake`, `VaultRekey`, `DeviceReadings`, `VulcanQueue`,
`Outbox`, `PatchOperations`, `ChocoAutomatico`, with their proofs.

Next modules, in this order:

1. `TenantPool` - the order in which each pool of `db-tenant.ts` closes its
   databases, which `PatchOperations` takes as any; and which other module state there
   is twice.
2. `SelfUpdate` - `aggiornamento-stato.ts` and its shell scripts, two processes on
   one file. Then the reload of the scheduler, event cursors, host clean-up.
3. The composition of `ScanJobs` with `SchedulerHealth`, where an outcome is free
   now, and of `ScanJobs` with `DeviceReadings`, one step there.

Runs stay few, one per question: where a small configuration serves both safety
and liveness, as for the rounds, one run does both.

Theorems worth proving: the safety properties of the next modules; of the present
ones, an abstract specification of the seats (a first-come waiting room) that
`ChocoAutomatico` implements, and one of the verdicts of a job that `SchedulerHealth`
implements.
