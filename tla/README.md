# cloudcleaner in TLA+

A verification development for `cloudcleaner`, a tool that finds garbage in an object
storage bucket, moves it into a quarantine inside the bucket, and after a retention window
deletes it, plus the small web UI (`src/ui/server.py`) that runs the same operations. Paths
below are relative to `src/`; the package is `src/src/cloudcleaner/`, so `lock.py` means
`src/src/cloudcleaner/lock.py`.

The program deletes other people's data, and it runs beside the applications that own the
data, beside other runs of itself and on top of a store that offers no transactions. The
questions are therefore: can an object be lost, can two runs work in the bucket at once, does
a run delete more than its configuration means, and what is left behind when a run dies?

## 1. Inventory

| component | state it keeps | operations | who it talks to | hard about it | correct when |
|---|---|---|---|---|---|
| bucket lock (`lock.py`, `cli._bucket_lock`) | one lock object per bucket: token, expiry | `acquire`, `release`, `current_holder` | any number of hosts, through `put_if_absent`, `get_text`, `delete` | every call is a separate request; clocks differ; holders die or outlive the TTL; a take-over is a delete and a create | at most one run within its TTL holds the lock; a live lock is not taken; a dead one is |
| quarantine lifecycle (`quarantine.py`, `bulk.py`) | quarantined copies, a manifest per batch, `audit.log` | `quarantine`, `restore`, `purge`, `list_batches` | CLI and UI call it under the lock; it calls the adapter, with a thread pool | copy and delete are two calls per object; manifest and log come after all of them; processes die; owners write under it | no object is lost before a legal purge; what is in quarantine can be found; objects, manifests and log agree |
| rule engine (`rules.py`, `config.py`) | nothing between runs | `load_config`, `match`, `scan`, keep-newest pass | gets a listing, gives candidates | nested trees, negation, several passes over the same objects, exclusions | it selects what the rules mean, each object once, never an excluded one |
| guardrail (`guardrail.py`) | nothing | `check_guardrail` | `cmd_quarantine`, `step_quarantine` | each batch changes what the next scan counts | a batch keeps within the limits, k batches within k times the limits |
| dedup (`dedup.py`, `server.step_dedup`) | nothing | `find_duplicates`, `choose_redundant`, bulk delete | UI worker; CLI only reports | what was listed may have changed when it is deleted; no quarantine behind it | a content keeps a copy |
| multipart (`multipart.py`) | nothing | find and abort uploads | CLI and UI worker | listed before the lock; an upload may end meanwhile | only uploads past the cutoff go |
| pricing (`pricing.py`, `transitions.py`) | nothing | `monthly_cost`, `estimate_savings`, `recommend_transitions` | reports | tiered prices | savings are never negative or overstated |
| UI gate (`server.try_begin`, `end`) | `_BUSY`, `_DIST`, `PROGRESS` in memory, the lock object in the bucket | `action_run`, `_run_worker`, `_guarded_seed` | a thread per request, a background thread per run, pages that poll | flag, held lock and progress are three records; a run outlives its request; kills; exceptions at every call | one run in flight, counting other processes; its page sees it through to its end |
| CLI (`cli.py`) | nothing | `scan`, `quarantine`, `restore`, `purge`, `batches`, `dedup`, `multipart` | all of the above | what is read before the lock is used under it | see the operations |
| adapters (`adapters/`) | the bucket | list, copy, delete, `delete_many`, `put_if_absent`, text | everything | errors reported per key; `Conflict` answers; asynchronous copy on Azure | (interface) |
| reports, demo, UI state and page | nothing | rendering | - | - | not modelled |

Interactions. A mutating CLI command is `_bucket_lock` around a body that calls the quarantine
manager, which calls the adapter; `purge` and `multipart` read the bucket before they ask for
the lock. A UI request passes `try_begin` (flag, then lock object), starts a background
thread which runs the chosen cleans one after the other in `RUN_ORDER`, and that thread calls
`end`. All components share the bucket, and nothing else across processes. The lock
object, manifests, log and copies all live under the quarantine prefix, which the rule engine
and dedup exclude; but `seed_bucket` and `_wipe` delete everything, that prefix included.

The hazards this yields are listed with their lines in `PROJECT.json`.

## 2. Modules

| module | what | composes | runs |
|---|---|---|---|
| `RunLock` | abstract: runs wait, at most one is inside, it leaves once | | (refined in LockSafe, UiSafe) |
| `BucketLock` | `lock.py` call by call | refines `RunLock` | LockSafe, LockTwoStealers |
| `BucketLockProofs` | theorems | `BucketLock` | |
| `RecycleBin` | abstract: an object is in the bucket or in batches, and goes only by its owner or a purge that may | | (refined in QSafe) |
| `Quarantine` | `quarantine.py` and the commands, call by call | jobs hold locks as `RunLock` promises; refines `RecycleBin` | QSafe, QApart, QLive, QVanished |
| `QuarantineProofs` | theorems: nothing is lost, the log keeps its lines, `RecycleBin` is implemented; what is in quarantine is listed; objects, manifest and log agree | `Quarantine` | |
| `UiGate` | `server.py`: gate, worker, seeds | lock object as `RunLock` promises; refines `RunLock` itself | UiSafe, UiSeedRace |
| `UiGateProofs` | theorems | `UiGate` | |
| `Selection` | several rules, keep-newest, guardrail, repeated runs at later times | | SelSafe |
| `SelectionProofs` | theorems | `Selection`, `DataTheorems` | |
| `DataTheorems` | lemmas: induction on numbers, finite sets and structures, recursion over structures, sums | | |
| `RuleMatch` | one rule: validation, compilation, match trees, grouping | | |
| `Pricing` | cost and savings | | |
| `ScanReport` | `cloudcleaner scan` from configuration to savings | `RuleMatch`, `Pricing` | ScanReport |
| `ScanReportProofs` | theorems | `ScanReport`, `DataTheorems` | |
| `Dedup` | the bucket, its owners and `step_dedup` | | (in UiRun) |
| `UiRun` | `_run_worker`: the cleans of one run, after one another and after each other's failures | extends `Dedup` | UiRun |
| `UiRunProofs` | theorems | `UiRun` | |
| `Multipart` | `cmd_multipart` and `step_multipart` beside the clients | lock as `RunLock` promises | MultipartSafe |
| `MultipartProofs` | theorems | `Multipart` | |

`MC*` modules give TLC its values. In all modules `'at most one'` values (an object
under a key, a lock, a manifest, `None`) are sets of at most one element, and definitions
whose comment begins `Mutant of` are deliberately wrong variants that the properties have been
tested against: each property fails when the named definition is replaced by its mutant.

### BucketLock

`lock` is the object under the LOCK key; `pc[r]` is where run `r` is inside `acquire`, its
locked body, or `release`; `at[r]` is the clock reading `acquire` took once. One action per
storage call: `TryCreate` and `Recreate` (`put_if_absent`), `Inspect` (`get_text` and the
expiry test), `DeleteStale`, `ReleaseCheck`, `ReleaseDelete`, and `Crash` between any two.
`RunLock` is the abstract lock. Three facts of the code shape it:

- an object that is *absent* when it is read is taken over like an expired one
  (`lock.py:127-130`);
- S3 may answer `ConditionalRequestConflict` although the key is absent, and the adapter
  answers "exists" (`adapters/s3.py:78`): the constant `Conflict`;
- `release` checks the token in one call and deletes in another (`lock.py:146-149`).

`MutualExclusion` is about runs within their TTL (`Protected`): the code never renews a lock
and no storage call checks it, so a run that outlives its TTL has lost its protection, and the
property says that this takes nothing away from the others. `LiveLockStays`: a lock that has
not expired by anybody's clock goes only by its owner's release.

`SoloSpec` adds one assumption on the environment, `SoloSteal`: while one acquirer is between
its decision to take over and its delete, no other is about to create or delete the lock
object. Nothing in the code enforces this. `SoloLiveSpec` adds that runs keep going, and
`StaleLockIsTakenOver` says under it that the lock of a dead holder does not close the bucket:
when a run finds it expired, somebody gets in, unless that run dies too or S3 answers
`ConditionalRequestConflict` to the create that follows the take-over, so that it is refused
by a lock that is not there. LockTwoStealers drops it and shows what happens: an
acquirer's create fails, the lock is released, the acquirer finds none and decides to take it
over, another run creates a fresh lock, the first deletes it and creates its own. Clock skew,
refused creates, crashes and overruns need no assumption.

### Quarantine

`live` and `held` are the versions under original and quarantine keys; `manifest[b]` the
manifests under batch `b`'s prefix; `audit` the lines of the log; `job[j]` one command with its
position, its batch and its pool (`todo`, `mid` for copied but not yet deleted, `moved`). A
batch is named by the second it was started in, as the code's ids are. Actions are the storage
calls of `_move`, `_restore_one`, `purge`, `_append_audit` and of their callers; `Workers`
objects are in flight in any interleaving; `CopyRaises` is an object that vanished before its
copy, after which the pool drains (`failing`) and the exception leaves the command; `Stop` is a
death or an exception anywhere; `ClientWrite` and `ClientDelete` are the owners, who know no
lock. `ListBatches` happens before the lock, as in `cmd_purge`, so the purge works on a stale
listing, although the comment at `cli.py:210-211` says that the lock protects it from a
restore in between. `ListBatches` reads all manifests in one step, where the code reads them one after
the other (`quarantine.py:232-237`): what it has read may be out of date in either case, by as
much as the jobs in between have done. (That it does no harm is part of what QSafe checks and what is proved: a
purge of a restored batch deletes nothing that is not there.)

`LockOf` says who excludes whom. One lock for all jobs is a bucket with its lock object. A
lock per job is `--no-lock` (`cli.py:55-57`), or two buckets whose configurations name the same
quarantine bucket, or a lock that failed as `BucketLock` shows it can; Quarantine is about the
same original keys, which two source buckets need not share. `QApart`, `QLive` and the proof of
`NothingIsLost` are about jobs that do not exclude each other.

History variables: `owed[k]` is the version the owner last left, until a purge that was
allowed to; `contended` the keys whose owner touched them while a copy was held, and, where jobs
work under several locks, those moved to a batch two quarantines share.

- `Preserved`: the owed version is under the original key or in some batch.
- `NoOrphans`: what is in quarantine is listed by its batch's manifest.
- `AgreeAtRest`: with no job on the batch under way or dead, copies, manifest and log say the
  same.
- `LogKeepsLines`: the log, read whole in one call and written whole in the next, loses no line.
- `ImplementsBin`: with the jobs taken away, what is left is `RecycleBin`: an object is copied
  before it is dropped, and loses its last place only to its owner or to a purge of a batch
  that is due or was forced. `whereabouts` are the places that hold the owed version.
- `JobsEnd`: a job that is inside the lock leaves it, also when objects vanish under its pool.
- `RestorableUntilPurge` is what the project's README says of quarantine, and is false: one
  candidate that vanishes makes the pool raise and the objects already moved get no manifest.

What the properties except, because the code does not do it: contended keys (the delete of a
move hits what the owner wrote after the copy, `quarantine.py:211`; a restore overwrites what
the owner stored since, `:292`); batches that share a second (the later manifest replaces the
earlier, `:196`, and without a common lock one quarantine's copy may be restored while the other
still relies on it); batches whose job died (`NoOrphans` for quarantines; `AgreeAtRest` for all,
among them a restore with unknown keys, which has moved the known ones back before it
complains and then leaves manifest and log alone, `:310`); batches where a purge met an error on an
object and `delete_many` dropped it (`adapters/s3.py:52-55`), after which the manifest goes and
the copy stays (`ErrorsDropped`, from the history `dropped`; a purge without such an error excuses
nothing). `AgreeAtRest`, `LogKeepsLines` and `ImplementsBin` are about jobs under one lock. Without it two jobs
that read the log in turn and write it in turn lose a line (`quarantine.py:182-187`), which TLC
finds for `LogKeepsLines` and, with no death or error, for `AgreeAtRest`; and keys of a batch that two
quarantines share leave the promise by a step that `RecycleBin` does not have.

### UiGate

`busy`, `dist`, `lock` and `progress` are `_BUSY`, `_DIST`, the lock object and `PROGRESS`;
every request is a thread with its own `pc`. `try_begin`, `action_run`, `_run_worker`,
`_guarded_seed` and `end` are split at every access to shared state and at every call that may
raise. `Kill` is the death and restart of the server. The lock object itself is taken to behave as
`RunLock` promises: `acquire` and `release` are one step each, and `Expire` removes it only
when nobody works under it. `BucketLock` says when that is so.

`OneMutator` is refinement: flag and lock object together implement `RunLock` for the
requests of this server *and* everyone else. The mapping ends a seed's stay when it deletes
the lock object it works under (`server.py:99-113`); that another process can be in the bucket
beside the rest of the seed is the run UiSeedRace. `EndReleasesItsOwn` and `ProgressIsMine`
relate the three records; `GateOpens` and `RunIsReported` are liveness.

`GateOpens` has one exception: when `acquire` (`server.py:390`), `release` (`:404`) or the
thread's start (`:584`) raises, `_BUSY` stays set and the server turns every later request
away. UiSafe has these faults, and shows that they do no other harm.

### Selection, RuleMatch, Pricing, ScanReport

`Selection` takes which keys a rule's conditions accept as given, and models what happens with
several rules: first match, then the keep-newest passes in rule order, exclusions in both,
the guardrail, the move, and the same command again. The bucket is quiet, but time passes: every
run takes its own `now` (`rules.py:209`) and counts relative ages back from it, so a rule has a set
`accepts[t]` for each time. It may be any set, since a tree with `not` gives up keys that grow
old. A rule may have an empty name, which `load_config` lets through: a per-object one then keeps
later per-object rules from what it matches and selects nothing itself (`rules.py:251`).

`SelectionIsExact` compares every scan, of what the runs before it have left and at its own time, with
a definition by counting (`Meant`). `RepeatFindsNothing`: after a move, a run finds nothing *if the
rules accept of the live keys what they accepted then*; with `older_than` a later run may find
more, and should. `BlastRadius` is about all batches together: the guardrail is for one run, and runs
that find more as the objects grow older take more in sum; what it says is that k batches take no
more than k times the limits. It has to be said because the scan counts the copies in quarantine as
well (the listing has no prefix), so that each later batch is measured against all there was at
first. `movedAt` is a history variable. A limit below zero lets nothing through.

`RuleMatch` is the other half: what one rule's conditions and `match` tree say, and which
rules load. The code's recursions over trees (`_validate_match_node`, `compile_match_node`) are
functions over `Nodes`, the nodes of all trees, each with a step that says what the function is of a
node given what it is of the node's children: `NodeIsValid`, `NodeMatches`, `NodeLeaves`.
`Depth` is what makes documents finite: a node contains only nodes of less depth.

`ScanReport` runs `load_config`, the scan and the savings estimate with one rule.
`LoadedRulesRun` connects the validator to the compiler: a rule that loads also runs, with three
exceptions that no validation looks at. A list condition may have any value (`config.py:86-97`
looks at regex, age and size only): what cannot be iterated (`NotList`), or has elements that are no
text (`NotText`) under `keywords` or `suffixes`, makes a builder raise (`rules.py:44`, `:65`), and such
an element under `prefixes` makes the scan raise when `startswith` comes to it (`:59`). Whether it
comes to it depends on the order of elements and conditions, which the model does not have: `ScanRaises`
may happen or not, and the same goes for storage classes, where an element that cannot be hashed
raises when the rule is compiled, and another one never. A single text in place of a list is, for Python, the
list of its characters, which is a list of texts. Not modelled are an `--as-of` so early that a
period reaches back before year 1, and trees beyond Python's recursion limit.
A match leaf whose conditions are all empty (`keywords: []`, `min_size: null`) is a leaf for
`_validate_match_node`, which looks at the fields it has and not at their values. But
`_compile_leaf` makes a `Rule` of it (`rules.py:119-121`), and a `Rule` without conditions is
refused (`config.py:192-193`): the engine cannot be built, and every command with that configuration
ends with an error about a rule `<match-leaf>`. And a `group_by`
regex with a group that takes no part in the match has a `None` for `"".join(m.groups())`
to raise on (`rules.py:181`). `SelectsWhatItMeans` compares compiled trees with set algebra over the
bucket. `MoreConditionsSelectLess` and `FinerGroupsKeepMore` relate the selections of two
rules. `SavingsAreMarginal` bounds the estimate on both sides.

A thing a reader of the rules should know, which the models have and no property denies:
`keep_newest` protects objects only from its own rule, while the
docstring of `Rule` (`config.py:151-153`) says they "are protected".

### Dedup and UiRun

`Dedup` has the bucket, its owners and the dedup clean. The listing visits the keys in order and
one at a time, the owners go on meanwhile, and the deletes go out in requests of `ChunkSize`;
`Stop` may come before each. `OneIsKept` and `ProtectedKeysStay` are about what it chooses.

`UiRun` is the worker thread around it: it does the cleans that were ticked in `RUN_ORDER`
(`server.py:545`), catches what each raises and goes on with the next (`:558-562`). Dedup is in it
step by step; quarantine, purge and restore are a step per object or batch, because what happens
between the calls of one move is `Quarantine`'s subject. Each may fail half-way, with an object
copied and not deleted, a batch without a manifest, some copies of a batch purged. An `old` batch of
an earlier run is there to be purged or restored.

- `QuietContentsStay`: a content that no owner touched is in the bucket or in quarantine unless a
  purge deleted a copy of it when the bucket had none. A content that is *moved* meanwhile (stored under a new key,
  deleted under the listed one that dedup keeps) can lose its last copy (`server.py:466` deletes by
  key what was listed): such contents are `touched` and excepted, and so is what lies under a key
  of the old batch from the start, since a restore overwrites it.
- `UnmatchedContentsStay`: a content under a key no rule matches stays in the bucket. Its exception,
  `outbid`, is a run that loses data between two correct cleans: dedup keeps the copy under a key
  the rules match, deletes the one they do not, quarantine moves the copy it kept, and a forced
  purge deletes it. The comment at `server.py:543-544` calls the order safe. TLC finds the loss
  when the exception is dropped.
- `RunAddsUp`: as long as no clean failed, every batch's copies are what its manifest lists, and
  after a restore, which comes last, no batch is left. S3 reports the errors of a bulk delete key by
  key, and `delete_many` drops them (`adapters/s3.py:52-55`): a purge then deletes the manifest of
  copies that stay, or the copies of a manifest that stays, and ends well. `dropped` has the batches where that
  happened, and the property excepts these. In `Dedup` the same error leaves a redundant copy in place
  (`spared`), and `OneIsKept` says that beside these there is one.

### Multipart

`upload[u]` is what has become of an upload, `run[c]` one command or worker step with its
options, its position in the listing and the uploads it found. The listing reads one upload at
a time and the aborts go out one by one, so clients may begin, complete or abort uploads
between any two, and so may a second run: `cmd_multipart` lists before it asks for the lock
(`cli.py:278`, `:295`), although `_bucket_lock` says that the lock is "acquired around the
scan+mutate span (not just the write)" (`cli.py:47-48`). What an abort of an upload does
that is gone by then is for the store to say, and the code in `src/` knows two kinds: `MemoryAdapter`
returns quietly (`adapters/memory.py:100-105`), and the upload is counted like any other (`AbortPasses`);
`S3Adapter` passes on whatever S3 answers, and where that is `NoSuchUpload` it ends the run
(`AbortRaises`), and the rest stays for the next one. `strict` says which kind the store is. What the
two-run interleavings must not do is abort an upload that is too young (`OnlyOldOnesGo`), end
well with an old one left (`OldOnesAreGone`), or count aborts that were none (`CountsAreTrue`): on a strict
store the count is of the uploads this run aborted, on another it may have some that others ended, but
no upload twice and none that is still open or too young. A run that dies is one that takes no
more steps.

## 3. Runs

| run | asks | instance | states |
|---|---|---|---|
| LockSafe | is a holder alone, does a live lock stay, is `RunLock` implemented, is a dead holder's lock taken over | 3 runs, TTL 2, skew 1, refused creates, 4 instants, `SoloLiveSpec` | 287 k |
| LockTwoStealers | (violation) exclusion without `SoloSteal` | 3 runs | |
| QSafe | nothing lost, nothing unlisted, records agree, the log keeps its lines, `RecycleBin` implemented | one lock, 2 keys, 3 jobs of any kinds, 2 workers, 2 deaths, 1 write, any deletes, 2 seconds | 711 k (symmetric) |
| QApart | what is left of that when jobs do not exclude each other and deletes fail key by key | a lock per job, 2 keys, 3 jobs, requests of one key, 1 death, owner's deletes, 2 seconds | 1.93 M (symmetric) |
| QLive | does every job end | a lock per job, 2 keys, 2 jobs, requests of one key, delete errors | 88 k |
| QVanished | (violation) restorable until purge | 1 job, no deaths | |
| UiSafe | one mutator, own lock, own progress, gate opens, run is reported | 2 runs, 1 seed, 2 other processes, all faults, 1 kill | 59 k |
| UiSeedRace | (violation) one in flight | 1 run, 1 seed, 2 others | |
| SelSafe | selection, exclusions, limits, repetition | 3 keys, pairs of rules over one group, 2 ages, 3 limits, 2 runs at 2 times | 5.58 M |
| ScanReport | loading, meaning, monotonicity, savings | 2 500 rules, 2 buckets of 6 objects, 2 price lists | 27 k |
| UiRun | does what one clean leaves, done or half-done, survive the next ones | 4 keys, 2 matched, 1 protected, 2 contents, dedup requests of 2, an old batch | 4.07 M |
| MultipartSafe | only old ones go, none is left, are the counts true | 2 runs, a store that is strict or not, 2 uploads of one key, one without a date, 2 instants | 5.47 M (symmetric) |

Why these bounds. *Lock*: every interference needs one run that holds or held the lock, one
that takes it over and one that intrudes; TTL 2 with skew 1 leaves one instant in which a lock is live for
everybody and one in which hosts disagree, and four instants let it expire by everybody's clock and
be taken over. *Quarantine*: two keys make a batch partial, a chunk full or not,
and a pool concurrent; three jobs are a quarantine, a restore and a purge, or any of them
twice; two seconds and a retention of one put a purge on either side of the window and two
batches in the same or in different seconds. QApart trades the owner's write for three jobs at once,
in all of whose interleavings a request of one key makes a purge of a batch several steps. Jobs and
keys are interchangeable, so QSafe and QApart use symmetry; they check no liveness. *UI*: two runs compete for flag, `_DIST` and `PROGRESS`;
a seed is the other kind of request; two other processes let one die and leave its lock to
the next. *Selection*: two rules suffice for every order of per-object and keep-newest rules,
three keys for a protected, a kept and a selected member of a group; ages of two values make
ties. `MCSelection` lets conditions accept any keys at first and the same, all or none of them later, protects
key 2 or none, has names only where they matter (per-object rules), and has a key without
a group under one of the keep-newest rules. *UiRun*: four keys are two requests of two, two groups of two or one group beside a protected
key, with a matched and an unmatched one in a group in either order. `MCUiRun` restricts the
buckets a run may start from: one object uploaded in parts, one small one and an old batch of one
key, wherever they make a difference (of two keys where the bucket is empty, for a purge and a
restore that stop between them); what the owners do afterwards is free. *Multipart*: two runs are what it takes to list the same upload; two
uploads of one key, of which one has no known age, tell an abort by id from one by key and make
a run end in its middle; two instants put an upload before, at and after the cutoff. `MCMultipart` gives dry runs
no age limit, as they abort nothing whatever it is.
*ScanReport* enumerates its rules: each kind of condition with good, bad and empty
values, lists with an element that is no text and a list that is none, every operator over up
to two leaves, and negation over groups.

`CHECK_DEADLOCK FALSE` in all configurations: every model stops, legally, when all runs or jobs have
ended and its bounds are used up.

Fairness. LockSafe: weak fairness of each run's next storage call that `SoloSteal` allows
(`Step(r)`), none for crashes, time or starting a second attempt: a process that runs goes on to
its next call, and `SoloSteal` keeps only others waiting while a take-over is about to delete. QLive: weak fairness of a job's calls once it is
*inside* the lock, since a sequential program keeps going; a user need not start a job or confirm a purge, and nobody has to
stop. UiSafe: weak fairness of each request's thread; no fairness for other processes, expiry
or kills. None needs strong fairness: a thread that can take its next step remains able to
(it is either running or refused), and no property asks who wins the lock.

The three violations are listed as findings in `PROJECT.json` with the sentences of the
sources they contradict.

## 4. Proofs

All theorems are for any constants that satisfy the named `ASSUME`s of the module, which are
types and bounds, and were checked by tlapm to the last leaf.

- `BucketLockProofs`. `TypeCorrect` (`Spec`). The other three are about `SoloSpec`. `SoloInv`
  collects what a run knows from its earlier reads: its clock reading is not in the future, the
  lock it is about to delete as stale has expired, the lock it is about to release is its own.
  From it `LiveLockIsKept`. `OwnInv` adds that the lock object of a protected holder is in
  the bucket: nobody can have seen it expired. `MutualExclusion` alone is not inductive: it
  does not say what the lock object contains. From `OwnInv`, `ExclusiveWithinTTL` and
  `LockImplementsRunLock`, the refinement step by step: creation is `Enter`, the delete of the
  release or the tick that ends the TTL is `Leave`. Only the last one needs care: `Tick`
  may end one run's protection, and by exclusion no two.
- `QuarantineProofs`. `TypeCorrect`, and `NothingIsLost`: `Spec => []Preserved`, with
  deaths, failing deletes, vanishing candidates and stale purges, and for any `LockOf`: jobs under
  one lock, each under its own, or anything between. `Preserved` says nothing of objects in
  transit. `PlanInv` adds what the jobs' records are worth: jobs of one lock are not inside
  together (`Exclusive`), what a purge works on was forced or expired when listed (`Sound`),
  whatever a job or a manifest names was put into that batch by a quarantine that has done with it
  (`Traced`), and under several locks no two quarantines took an uncontended key into one batch
  (`Single`). From these, `NoClash`: no two jobs work on an uncontended key in ways that cross.
  `DataInv` says of the storage that all copies of such a key carry the owed version (`Same`), and
  that if one is owed there is a copy *that no job is about to delete* (`Staying`, `Somewhere`),
  which is what a delete by one job needs to know while another is between its copy and its delete.
- `LogIsAppendOnly`, in the same module: under one lock no line of the log is lost. What a job has
  read of the log is what is there until it writes, because others that append are
  locked out (`LogRead`).
- `JobsImplementBin`, in the same module: `Spec /\ ~Apart => ImplementsBin` step by step. `Mapped`
  says that the mapped places are where anything is held (`Has`), which needs `DataInv` and that
  nothing is held of what is no longer owed (`Gone`). Each action of a job has one of a few effects
  on the places of a key (`Adds`, `Takes`, `Purges`), and these are `RecycleBin`'s steps.
- `NothingIsOrphaned`, in the same module: `Spec => []NoOrphans`, also for any `LockOf`. Manifests are
  written from what was read of them calls before, so `FindInv` is about readings: in a batch with
  no excuse (`Excused`, which stays true once it is) every reading of its manifest, as far as the
  job has got with it, still covers all that is held (`InOrder`). It holds as entries are dropped
  only after their objects, and nothing joins a batch once its manifest is written.
- `RecordsAgree`, in the same module: `Spec => []AgreeAtRest` under one lock (`~Apart`) and where
  `delete_many` drops no error (`~DeleteErrors`), hypotheses under which jobs still die, vanish
  under their pool and meet the owners' writes; without the first TLC finds two jobs that lose each
  other's log line, and with dropped errors objects stay behind a manifest that is gone.
  `AgreeAtRest` is silent while a job works, so `BooksInv` says at each position of the one job at
  work on a batch how far its objects, its entries and the keys the log leaves it have come apart
  (`Books`): by the job's `moved`, `mid` and `todo`, and by nothing when it is at rest. A batch
  where a job has died, or that two quarantines share, is `Unsettled`, and for good.
  What a purge found in its listing before it had the lock may be more than there is by now, as
  a restore may have come between; so `Books` compares the log with the listing by inclusion, and
  a quarantine's own line is the first of its batch (only a batch with a `Finished` quarantine is
  logged).
- `UiGateProofs`. `TypeCorrect`, `PageSeesItsRun`, `EndReleasesOwn` from `GateInv` (the flag
  names whoever is in the gate, `_DIST` is its lock), and `GateImplementsRunLock` from
  `LockIsMine` on top of it: whoever is alone owns the lock object.

- `UiRunProofs`, about `RunSpec` and so for any bucket and any old batch, without the restrictions
  of `MCUiRun`. The invariant follows a content from clean to clean. `CleanInv`: what was listed is
  there unless touched, what dedup is about to delete has a twin it keeps, an unmatched one if the
  key is (`Twins`), and before the restore an untouched object lies beside no other content in
  quarantine (`Beside`). Of the keys of a delete chunk those whose deletion reported an error stay
  (`spared`), and what a purge left unlisted lies in a batch it `dropped` an error for. `Safe`: an untouched content is alone under its own key, or under another
  that no *later* clean takes it from (`Firm` mentions `RunOrder`), or was purged. `Settled` is the
  same for unmatched keys, and `Adds` for manifests. `OneCopyIsKept` needs that a group has a member
  that is kept (`KeptExists`): a finite set has a first by any total order, since strict inclusion
  of finite sets is well-founded. Theorems `QuietContentsSurvive`, `UnmatchedContentsSurvive`,
  `RunsAddUp`, `OneCopyIsKept`, `ProtectionsHold`.

- `MultipartProofs`, for any uploads, cleans, age limits and clients. `CleanerInv`: what a clean has
  found is old, and stays so since its cutoff is fixed when it begins; what was open then and is old
  is still ahead of it, found, or no longer open; whatever is recorded as its abort is gone for good,
  so that no other clean ends it again, nor counts it where the store is `strict`. From it `YoungOnesAreSafe`, `NoOldOneIsLeft` and
  `CountsAddUp`. The lock is not needed for any of the three.

- `SelectionProofs`, for any number of keys, rules, groups and runs, any ages, sizes, exclusions and
  limits. `SelectsWhatIsMeant` relates the code's two passes, with sort, slice and the skipping of
  keys that are already selected, to the definition by counting (`Meant`), in every run. A set of keys
  has a sorted sequence (`Sorted`), in which a member's place is the number of its newer fellows
  (`Place`), so that the slice is a count (`RestIs`, `RestIsSurplus`); a key that deserves selection is chosen
  by just one rule (`MeantOnce`, `FirstSurplus`). `SelInv`: the candidates are what is meant by the
  rules the pass has come to (`Chosen`), and of what the last move has left nothing is meant at the
  time of that move. That is what `RepeatsFindNothing` needs, and holds as the members that are kept
  have fewer than `keep_newest` newer ones also among themselves (`FewerMembers`, `NothingLeft`).
  `RunsStayWithinLimits` adds up what the batches took: a key is a candidate once (`CandidatesCount`), what
  is gone grows by the candidates, in number and bytes (`MoveAdds`), and what a scan counts is
  the keys of the beginning, a manifest for each batch, log and lock (`ScannedCount`, `OneMoreBatch`).
  `ExclusionsAlwaysWin` follows from `SelInv`.
- `ScanReportProofs`, for rules with trees of any depth and width, any finite listing and any price
  list. That a recursive function over match trees is what its step says of every node has to be
  proved for each of them (`ValidNodeIs`, `LeavesIs`, `MatchesIs`, `MeaningIs`): TLA+
  only chooses such a function if there is one. They exist by `Recursion` of `DataTheorems`, as each
  step looks only at nodes of less depth. `WhatLoadsRuns` and `SelectsTheMeant` are then inductions on
  depth: the leaves of a valid tree have valid conditions (`ValidLeaves`), so that a rule that loads
  raises only by one of the three exceptions (`ValidRaises`), and a compiled tree matches the objects that it means (`MatchesWhatItMeans`). `ScanInv` ties the outcome to
  what was read. `NarrowerSelectsLess` counts: a member that has `keep_newest` newer ones among fewer
  has them among more (`FewerAreNewer`, `SupersededIn`); `FinerGroupsSelectLess` has the same count
  within smaller groups, as keys alike in `d + 1` segments are alike in `d` (`PrefixOfPrefix`).
  `SavingsStayMarginal`: that prices fall says something of each gigabyte, so the tiers are taken
  gigabyte by gigabyte: the next one costs the price of the tier it lies in (`UnitCost`), which is at most
  that of an earlier one (`Cheaper`), so that what a volume costs at the end of a larger one is at most
  what it costs alone (`TieredIsMarginal`, by induction); `SavingsBounds` sums this over classes. The
  assumptions are that tiers have rising ceilings and falling prices, as `STANDARD_TIERS` has, and
  that prices and overrides are not negative. The last is about the configuration and not validated:
  `load_config` takes any number (`config.py:282`), and a negative override makes savings negative.
- `DataTheorems`: the library's induction theorems have an operator as a parameter, which the
  provers cannot instantiate. `NumberInduction`, `SubsetInduction` and `DepthInduction` state the same
  of a *set* (that of all numbers, subsets or structures for which the claim is true), and follow from
  the library's well-founded orders. `Recursion` has a *function* for the step, of a structure and of
  a guess at what its parts have: there is a function on all structures that agrees with the step
  everywhere. And of sums over finite sets: a sum is what is left without one element plus
  that element, whatever order the fold takes them in, and is additive and monotone.

Only model-checked: liveness (`StaleLockIsTakenOver`, `JobsEnd`, `GateOpens`,
`RunIsReported`; the prover has no `ENABLED`). Every safety property of a passing run is also
a theorem.

## 5. Not modelled, and why

- Reports (`report.py`), `demo.py`, `get_state`, the HTTP handler and `index.html`: formatting
  and reading, no state.
- `transitions.py`: two calls of `monthly_cost`, used by no command.
- YAML syntax, unknown keys, number grammars: `RuleMatch` has "parses" and "does not".
- Manifest checksums: nothing in the models corrupts a manifest. In the code one corrupt
  manifest makes `list_batches` raise, and with it restore and purge of all batches
  (`quarantine.py:236`).
- Adapters other than S3 are parameters of `Quarantine` where they differ in steps: without
  `delete_many` a request has one key (`ChunkSize` 1), without `put_if_absent` jobs do not exclude
  each other (`LockOf`). Azure's `copy` only starts a copy (`azure.py:55`), and the delete that
  follows may come before it has ended: not modelled, as the store's answer to that is not in the
  code. On GCS and Azure `get_text` does not raise `KeyError` for an absent object (`gcs.py:50`,
  `azure.py:64`), so that the first append to the log raises after a quarantine that is done
  (`quarantine.py:182`): in the model, a `Stop` there.
- Sizes of parts and reclaimed bytes: sums that decide nothing.
- Sentences of the documentation the models follow the code against, without a run: `cmd_restore`
  moves objects without `--apply` (`cli.py:218-225`), while the project's README has it that
  "Every mutating command is a dry run unless `--apply` is passed" (`README.md:31`); and
  `step_dedup` of the UI deletes at once (`server.py:464-468`), while the README says that data is
  removed "through a quarantine, never with a direct delete" (`README.md:6-7`). The comment on
  the condition fields says "so the engine and the config validator agree on what a "leaf" looks
  like" (`config.py:28-31`), but on an empty leaf they do not: see `LoadedRulesRun`.

## 6. Plan

Done: the modules above, in the order lock, quarantine, gate, selection, dedup, rules, multipart,
the recycle bin, jobs that do not exclude each other, the cleans of one run; and their theorems.

Left:

1. Azure's asynchronous copy, as a copy that completes at a step of its own.
2. `ImplementsBin` for jobs under several locks, with a step for batches that share a second.
