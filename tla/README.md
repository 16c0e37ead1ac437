# A2A Registry: TLA+ models, model checks and proofs

This directory holds TLA+ models of the A2A Registry, the service through which
devices publish signed conversation histories ("disclosures") to the members of
an organization, and through which those members ask the devices questions.  The
models are translated from the TypeScript sources (`../src`, paths below are
relative to it); TLC checks them on small instances, and TLAPS proves every
invariant, every action property and every refinement that the runs check for
every value of the constants.  Liveness is left to TLC.

1. [The system](#1-the-system)
2. [Modules](#2-modules)
3. [Model to code](#3-model-to-code)
4. [Runs](#4-runs)
5. [Proofs](#5-proofs)
6. [What is not modelled](#6-what-is-not-modelled)
7. [What could come next](#7-what-could-come-next)

To run a check: `tlc -config MCMailbox.cfg MCMailbox`.  To check a proof:
`tlapm MembershipProofs.tla`.  `PROJECT.json` lists the runs, the lines each
definition stands for, the hazards with the properties that cover them, and for
each property a mutation of the code that breaks it.

## 1. The system

One Registry process serves many organizations.  There is exactly one replica
(`design/a2a-registry/SSOT.md:102`), so every piece of durable state has a sole
owner in memory, and concurrency is that of one event loop: callbacks and
awaited promises interleave, threads do not.  What makes the system hard is
what happens at those awaits, at failing writes whose outcome is unknown, and
across restarts.

### Components, their state and how they interact

| Component | State | Operations | Talks to |
|---|---|---|---|
| registry-domain (`packages/a2a/registry-domain`) | none: rules over an access record (control, ingest, terms, version, published hash) | authorize, canUpload, the control, ingest and request transitions, versioned changes | everything that decides access |
| registry-ingest: disclosure aggregate (`registry-ingest/src/aggregate.ts`, `record.ts`, `metadata.ts`) | one row per disclosure: access, signed event chain, checkpoints, audit window | register, append an event or a checkpoint, change terms or control, delete, renew after a directory change | called by the owner |
| registry-ingest: owner (`index.ts`, `audit.ts`) | tables in memory, a promise chain, an operation journal, a cache of active members, subscribers | every disclosure, directory and binding operation, close | storage-domain below, sockets and brokers above |
| registry-ingest: directory and bindings (`directory.ts`, `binding.ts`) | members, roles and teams under one revision; enrollment attempts and trusted devices | put member, put/remove team; start, approve, reject, confirm, revoke | called by the owner |
| storage-domain, storage backends | tables, a write chain | put, batch, open, close | owners above, a file, SQLite or PostgreSQL below |
| mailbox (`packages/a2a/mailbox`) | one record per question: state, version, lease, sealed question and reply | enqueue, dispatch, start/renew/complete execution, status, read reply, cancel, fail, expiry batch, close | an external source of access, sealing, storage-domain |
| mailbox: consumer claims (`receipts.ts`) | request to session table at a receiver | claim, release | storage-domain |
| registry-app: device sockets (`sync-connection.ts`, `binding-producer-auth.ts`, `runtime-store.ts`) | per socket: handshake step, credential lease, store lease; per authenticator: attempts and connections | hello, prove, requests, stop, timers, close | owner (authentication), tenant router (references) |
| registry-app: tenant router (`tenant-runtime-router.ts`) | resident runtimes with reference counts | lease, release, evict the idle one used least recently, close | runtimes (one owner per organization) |
| registry-app: import queue (`saas-import-queue.ts`) | durable imports of an organization | enqueue, dispatch to a device, refresh, complete, fail, close | owner's authority, sockets |
| registry-app: question broker (`saas-question-mailbox.ts`) | none durable beside the mailbox's | ask, deliver, reply, expiry worker | mailbox, sockets, owner |
| registry-app: tenancy (`tenancy-postgres.ts`, `browser-api.ts`) | organizations, memberships, invitations | create, provision; claim, activate, revoke, decline; mirror a directory change | PostgreSQL, the router, the directory |
| registry-app: billing (`tenancy-postgres.ts`, `billing.ts`) | orders, kept provider events | reserve, attach a checkout; provider events | PostgreSQL, the payment provider |
| registry-app: operational alerts (`operational-alert-outbox-sqlite.ts`, `operational-alerts.ts`) | pending and failed alerts with attempts and leases | enqueue, claim, complete, fail, prune, close | SQLite, the operators' endpoint |
| registry-app: admission, audit readers, browser API | token buckets; sessions | take; HTTP routes | the services above |
| codecs and cryptography (`registry-sync`, `protocol`, `device-identity`, `disclosure-crypto`) | none | encode, verify, seal | all |

A device proves its key over a socket, the authenticator leases its
organization's runtime from the router, and the runtime's owner decides each
request in its chain.  A change that takes authority away commits first and is
announced afterwards, in a later turn, to the sockets; caches everywhere are
keyed by the version of the row.  Questions go the other way: a member asks, the
mailbox keeps the question until a device takes it, and the answer until it is
read, expires or has to make room.

### The behaviours that are hard, and what correctness means there

* **Disclosure rows.**  Messages arrive late, twice, forked or re-signed, between
  stops and changes of the directory.  Whatever was written must be readable at
  the next opening (one bad row keeps a whole organization's registry closed), a
  stop must fit however full the row is, a confirmed prefix must never be torn or
  move back, and access taken away must move the version that caches use.
* **The owner.**  A write may fail after having committed, the process may die
  between an attempt's journal entry and its effect, two callers may hold the same
  expected version.  Calls must be atomic, answered truthfully and answered at all;
  the journal must account for every version; subscribers must not be told early
  or never.
* **Enrollment.**  Sequences of commands, each of them legal, must not leave an
  organization without an owner or a record that cannot be parsed; the wall clock
  may be set back between two steps of one attempt; members leave in between.
* **The mailbox.**  A question is sent again because its answer was lost; two
  executors believe they hold a request; authority moves during an await; a full
  table evicts; a failing write leaves the outcome open.
* **Sockets.**  Authority can be lost in any turn of the handshake, and four
  parties (peer, authenticator, runtime, a failing step) release the same lease.
* **Imports.**  A delivery may time out after the device has imported; authority is
  asked for three times and may be lost between any two; one silent device must not
  hold up the queue of a whole organization.
* **Organizations.**  Creating one writes to the control plane, opens a runtime and
  writes again; requests repeat and overlap, and any of the three may fail.
* **Invitations.**  Two stores and no transaction over both: claim, directory entry and
  activation can be cut off, revoked or expired in between, and a failed acceptance
  cleans up after itself while another may have succeeded.
* **Orders.**  Events of the payment provider come late, twice and in any order, and an
  owner with two tabs makes two checkouts.
* **Alerts.**  A lease may run out under an exporter that still sends; attempts must be
  counted exactly, since a row that has used them up blocks all that is behind it.

The complete list, with the line where each hazard bites and the properties that
cover it, is `hazards` in `PROJECT.json`; hazards no property covers say why.

## 2. Modules

| Module | What it is |
|---|---|
| `DisclosureDomain` | authorization and transition rules as pure operators; extended by the registry and by the mailbox |
| `DisclosureAggregate` | one disclosure row: verdicts on events and checkpoints, size, stop reserve, the parser of the next opening |
| `DisclosureRegistry` | the registry as a state machine over rows: one action per owner operation |
| `ConfirmedHistory` | abstract specification: what readers are promised about confirmed history |
| `DisclosureProperties`, `DisclosureProofs`, `MCDisclosure` | properties and the refinement; proofs; the instance |
| `IngestOwner` | the serialized owner: promise chain, journal, failing writes, cache, notices, close, crash, reopen |
| `AtomicOwner` | abstract specification: each call takes effect at most once, at one instant |
| `IngestOwnerProperties`, `IngestOwnerProofs`, `MCIngestOwner` | properties and the refinement; proofs; the instance |
| `Enrollment` | member directory and device bindings under an unreliable clock |
| `EnrollmentPromise` | abstract specification: how trust in a device is given and withdrawn |
| `EnrollmentProperties`, `MCEnrollment` | properties and the refinement, the instance |
| `Mailbox` | the question queue with its owner, authorization leases, executors and expiry worker |
| `QuestionPromise` | abstract specification: one question, at most one answer, nothing comes back |
| `MailboxProperties`, `MailboxProofs`, `MCMailbox` | properties, proofs (refinement included), instances |
| `ProducerSockets` | device sockets, the authenticator and its leases; extends `Enrollment`, whose steps are the owner's commits |
| `ProducerSocketsProperties`, `MCProducerSockets` | properties, the instance |
| `TenantRouter` | the resident runtimes of all organizations: leases, the allocation chain, eviction, close |
| `Provisioning` | creation and use of organizations over the control plane; extends `TenantRouter` |
| `ProvisioningProperties`, `ProvisioningProofs`, `MCProvisioning` | properties and proofs, those of the router included; instances |
| `ImportQueue` | the import queue of one organization, with the socket's and the device's side of a delivery |
| `ImportQueueProperties`, `ImportQueueProofs` | properties, of which `ImportQueue.cfg` is the instance; proofs |
| `Invitations` | invitations and memberships beside the directory; extends `Enrollment` |
| `InvitationsProperties`, `MCInvitations` | properties, the instance |
| `MembershipProofs` | proofs about `Enrollment` and the two that extend it, `Invitations` and `ProducerSockets`, over one invariant of the directory |
| `BillingOrders` | checkouts, orders and provider events |
| `OrderLedger` | abstract specification: an order shows what its set of kept events determines |
| `BillingOrdersProperties`, `BillingOrdersProofs`, `MCBillingOrders` | properties, proofs (refinement included), the instance |
| `AlertOutbox` | the durable alert outbox and the exporters that share it |
| `AlertPromise` | abstract specification: no accepted alert is lost, none is given up early |
| `AlertOutboxProperties`, `AlertOutboxProofs`, `MCAlertOutbox` | properties, proofs (refinement included), the instance |

Three layers of the registry are separated on purpose.  `DisclosureRegistry`
treats each operation of the owner as one step over a store that never fails and
keeps all of the data; `IngestOwner` justifies that step: it keeps the chain, the
awaits and the failures, reduces a row to version and state, and is shown to
implement `AtomicOwner`.  `Enrollment` is again at the level of whole operations,
and `ProducerSockets` composes it with the connections: an owner's commit is an
`Enrollment` step, followed in a later turn by its announcement.  `Invitations`
composes `Enrollment` with the control plane in the same way, and `Provisioning`
composes the control plane with `TenantRouter`.

## 3. Model to code

`PROJECT.json` maps every definition to its lines.  Some conventions hold
everywhere.  An action is a whole operation between two points where other code
can run: where the code awaits and something else may happen, there are two
actions.  A call that is refused and changes nothing, or an exact retry, is not a
step.  Constants bound what the code leaves open; the code's own limits
(`MaxEvents`, `MaxAuditEntries`, `MaxAggregateBytes`, `MaxBindings`, `MaxRequests`,
`Ttl`, ...) are constants too, small in the instances.  Definitions commented as
mutants are the mutated forms named in `PROJECT.json`; no specification uses them.

**Disclosure registry.**  `records[d]` is the stored row: absent, live (`access`,
`events`, `checkpoints`, `audit`) or a tombstone.  Envelopes and markers are
members of finite sets with the fields the code compares (id, sequence, previous
hash, cursor, stream, hash, signature); signatures are taken as verified.
`EventVerdict` and `CheckpointVerdict` are the code's three outcomes: retained
already, append, or freeze as a conflict.  Bytes are counted in units (`ByteLength`):
one for each event, checkpoint and audit entry, some for the terms, plus the widths of
the state names, which a stop lengthens, so that `StopReserveBytes` and `FitStopRecord` (which drops old audit
entries to make a stop fit) do what they do in the code.  `ParseRecord` is the decoder.
`isolated` and `refused` record the two outcomes that must not happen: a stop that
does not fit, and a change that the owner's own decoder rejects.  Deletion walks
the control states `DeletionSteps` gives in a single write, and one directory change
renews all live rows or none (`RenewAll`).

**Owner.**  `disk` is what the backend holds and `memory` the tables in use.
`queue` and `current` are the promise chain; `current.pc` names the await the
running operation stands at: the journal's attempt, authority, the batch, the
publication.  A write lands or is rejected, and a rejected one may have landed
(`Failed`): the owner is then `unavailable`, answers `unknown`, and refuses all that
is queued behind it.  `Close` drains, `Crash` loses everything but `disk`, and
`Reopen` starts over from it.  With `Journaled = FALSE` the attempt is skipped
and reads write nothing; that owner, reads and malformed calls are part of the
model and of its proofs but not of the instance TLC checks.  `cache` is the copy of active members that credentials
are checked against, `heard` the newest version each subscriber was told.

**Enrollment.**  `directory` is the decoded directory record and `bindings` the
table of attempts, with identities drawn from a finite set: an identity is a
random UUID and used once.  `StartBinding` prunes the earliest expired attempt
first, in a write of its own, so `StartOnlyPrunes` is the case where the admission
that follows fails.  `now` is the clock of the current call; `SetClock` sets it
to any value, back too, because the code takes `Date.now()` at each call.  `actor`
is who issued the last command; it is history, and nothing reads it but a property.

**Mailbox.**  `disk` and `memory` as above; `current` is the operation in the owner's
chain, at an await: the eviction that makes room (`evict`), sealing (`seal`), the put
(`write`) or opening a body (`open`).  `access` is the external source of authority:
a version and whether it allows, which may move at any time (`AccessMoves`); an
operation reads it once and `Fence` compares it again before anything is written
or handed out.  `answer` is what the last operation returned.  Texts are model
values and a reply is named for the executor that wrote it, so an answer can be
traced to its grant in `holds`.  Executors complete and renew only with a version
they were granted: the interface checks equality of versions and nothing else, so
a caller that guesses versions is outside the model.  `worker` is the SaaS host's
expiry loop (`runExpiryMaintenance`), which stops for good on the first
round that is refused.  The standalone host (`mailbox-maintenance.ts`) reopens the
store instead and is not modelled.  An abort by the caller and a failing lease,
which the SaaS host treats differently, are both covered by the choice in `Abandon`.

**Sockets.**  `conn[c].step` is where a connection's turn stands; `answered` is an
answer of the owner that the asker has not seen yet.  The lease is taken (and its
subscription made) before the first question, as in `binding-producer-auth.ts:98-104`.
`lost` and `owner = "publishing"` are the turn between a commit and its
announcement.  `references` is the tenant router's count for this runtime: what
`RuntimeHeldByItsUsers` shows of it is what `TenantRouter` takes for granted of its
callers, that each lease is given back once.  `OwnerFails` is the isolation of the owner, and
`Release` its notice "owner-unavailable" followed by reopening at the next call.

**Tenant router.**  `runtimes` are all runtimes ever opened, in order; `resident` is the
map, `recency` the order of `lastUsed`, `queue` and `current` the chain of allocations.  A
lease of a resident runtime is counted at once and granted when its opening has
settled (`Granted`), outside the chain.  `Evicted` and `OpenSettles` are the two awaits
of an allocation; after the first the code does not look again whether the router is
closing, and neither does the action.  A runtime whose closing failed is "stuck": its
storage domain keeps the name (`NameFree`), so the organization cannot be opened again
until the process restarts.  A runtime that stops itself (`Abort`) stays resident and is
handed out until it is evicted, as in the code.

**Provisioning.**  `states[o]` is the control plane's word on an organization, named for
the idempotency key of its creation, and `requests[c].pc` the step a browser request is
at.  `Count` and `Insert` are two steps, as in the code: the lock between them is that of one key.
`MayCommit` is a transaction that is reported as failed and may have committed.  As in the
code, the failure of a *repeated* creation marks as "failed" an organization that an
overlapping one has made active (`tenant-runtime-router.ts:96`); the next request makes it
active again.

**Import queue.**  `disk` is the durable table, `chain` the promise chain and `calls[c].pc`
the await a call stands at: `admit` for a new import; `read`, `grant`, `check`, `send`,
`wait` and `confirm` for a delivery, and `released` once the device has been answered.
`AsRead` is the comparison with the snapshot that was read first.  A write fails as in the
mailbox.  `Confirm` without authority writes "failed" and still answers the device, which
has imported by then (`sync-connection.ts:688`).  Devices are external: they import an
operation at most once, because the session is named for it.

**Invitations.**  `invitations` and `memberships` are the two tables, the directory is
`Enrollment`'s.  `accepts[q].pc` is where `acceptInvitation` stands: reading and changing
the directory as the inviter, activating, looking at the invitation after a failure, and
undoing its own directory entry.  `due` are the invitations whose time is up; whichever transaction
looks next expires them (`Expire`).  `syncs` are committed directory changes on their way
to the control plane; `LoseSync` loses one, and nothing repeats it.  Two effects of the
code are visible here and are kept as they are: declining an invitation removes a
*suspended* membership for good, also one that another accepted invitation gave
(`tenancy-postgres.ts:1414`), and a lost mirror leaves the two stores apart until the
next change of that member.

**Orders.**  `orders[o]` is a row with its times (0 is null), `recorded` the kept events;
`requests` are owners on their way from the reservation of a key to a checkout, and
`sessions`, `sent` and `acknowledged` belong to the provider, which is external.
`RowAllowed` is the table's CHECK constraints: an event whose projection they refuse is
never acknowledged.  A refund or dispute that arrives before its payment sets the time of payment
(`tenancy-postgres.ts:1619`); the payment, arriving later, corrects it only to an earlier time.  That is why
`OrderLedger` says nothing of `paidAt`.

**Alert outbox.**  `due` and `later` are the pending rows in the order of their next
attempt, `lease[a]` the exporter whose token a row holds, `expired` the rows whose lease is
over.  Every transaction is a step; `Send` is the await, after which the exporter may
find its claim taken over (`Holds`).  `Unreadable` alerts were written by another version and fail at
once and for good.  `taken` and `refusals` are history, what the endpoint has seen of each alert.

## 4. Runs

All runs set `CHECK_DEADLOCK FALSE`: each instance has states where nothing is
left to do (identities or versions used up, journal full, all sockets closed),
which is the end of the instance and not a wait.

| Run | States | Shows |
|---|---|---|
| `disclosure` | 23,800 | One disclosure, five envelopes (a chain of three, a fork, a re-signed copy), five checkpoints (late ones, one that claims a later cursor, a re-signed one), two sets of terms, in any order, with every stop and directory renewal between. What is stored parses (`Reopenable`), stops fit, the audit window skips no version, prefixes are whole, lost access moves the version, and the registry implements `ConfirmedHistory`. |
| `owner` | 396 thousand | Two callers with changes that conflict or retire both rows, a directory change that renews both, a sweep and a credential check, failing writes, close, crash. The journal accounts for every version, subscribers and credentials keep up, every call is atomic (`AtomicOwner`) and under fairness answered. |
| `mailbox` | 497 thousand | One question, two executors, a clock that may be set back: replies by the holder only, bodies under current authority only, refinement of `QuestionPromise`, and under fairness expired bodies are erased while the worker runs. |
| `mailbox_room` | 2.8 million | Three questions for two places: the table can always be opened again, and only the oldest reply makes room. |
| `enrollment` | 181 thousand | Three members, a team, two attempts for one place, a clock that moves both ways: what is stored parses, and trust in devices follows `EnrollmentPromise`. |
| `sockets` | 193 thousand | Two sockets, one binding: no usable socket without authority once it was announced, the runtime's references are exactly its users, and under fairness an invalidated socket closes. |
| `provisioning` | 992 thousand | Two callers create and enter two organizations in one place: the router's promises (runtimes of one organization never overlap, none is closed under a lease, close leaves none behind), an active organization has been opened once, leases come back however a creation fails, and under fairness every creation is answered. |
| `imports` | 863 thousand | Two imports for one device, asked for and fetched by two callers, with timeouts, failing writes, lost authority and restarts: an import settles once, completed ones have arrived, nothing is completed or confirmed without the authority it was read under, and under fairness no device holds up the queue. |
| `invitations` | 536 thousand | Two members, two invitations, two accepting requests at once, while the directory changes: nobody is linked without an accepted invitation, an outcome is final, and cleaning up spares members. |
| `billing` | 77 thousand | One order, asked for twice at once, with a payment, a refund, a dispute and an expiry in any order: one checkout, refinement of `OrderLedger`, and under fairness every event is kept. |
| `alerts` | 274 thousand | Two exporters over three alerts, one of them unreadable: refinement of `AlertPromise`, and under fairness every accepted alert is settled while some exporter stays open. |
| `creation_bound` | (violation) | Two creations under different keys are both counted before either is inserted, and the account has more organizations than `maxOrganizationsPerAccount`. |

### The violation

`tenancy-postgres.ts:123` calls the limit on an account's organizations a "hard per-account
creation bound".  `createOrganization` locks the idempotency key, counts the account's
organizations (`:1010`) and inserts, at PostgreSQL's default isolation level.  Creations
under different keys hold different locks, so both may count before either has
inserted.  The run finds the two interleaved requests.

### Bounds, and why they are enough

* *Disclosure.*  Three events, two checkpoints and three audit entries fill each
  table, and nine units of size are reached by rows that are short of each of
  these limits, so every refusal occurs and stops have to drop audit entries.
  Four versions allow a deletion from any control state after a change.  Rows of
  different disclosures meet only in `RenewAll`, which treats them alike, so one
  is enough for TLC; the theorems are about any number.
* *Owner.*  Two callers with the same expected version are a race, and two rows
  make a sweep that is interrupted between them, or refused at the second after
  having erased the first.  A journal of three is filled by interrupted operations.
* *Mailbox.*  A lease of one tick expires before the question does, so that takeover
  and late answers occur; at most four grants (`MaxGranted`) allow a takeover, a
  takeover back and a renewal, and bound versions below `MaxVersion`, so that the
  limit on versions never hides a step.  Two places for three questions make every
  enqueue after the second evict.
* *Enrollment.*  Three revisions give a member a role, a team and their loss, or promote
  one and let the other go; two attempts for one place and a window of two ticks with a clock
  of three values have every order of creation, approval, proof, expiry and pruning.
* *Sockets.*  Two connections share one runtime and one binding, which is where
  releases could be confused; two revisions take authority away and give it back.
* *Provisioning.*  One place for two organizations makes every change of organization an
  eviction.  Three openings let an evicted organization come back; the guard on
  `WillHaveOpened` stops callers from asking, never an allocation under way.  Two
  callers overlap on one organization, or hold one and wait for the other.
* *Imports.*  Two calls are a delivery and whatever races it (a second one, a refresh, a new
  import); two versions take authority away and give it back under another version, which is the case
  `AsRead` exists for.
* *Invitations.*  Two requests accept one invitation for two accounts, or two for one;
  two revisions let an entry be made and taken back, or conflict with another change; two attempts are one retry.
  One mirrored change at a time is late, lost or overtaken by the directory.  Members, invitations and requests are symmetric.
* *Billing.*  Four kinds of event with times out of order cover each pair whose order
  matters; "failed" differs from "expired" only in its priority.  Two checkouts for one order are the race.
* *Alerts.*  Two pending places for three alerts fill the outbox and prune the failed; two
  attempts are one retry; one fault is a crash, a failed transaction or a lease outlived, at any point.

### Fairness, and what justifies it

* `IngestOwner`: weak fairness of `Step`.  The event loop runs what the chain holds,
  and promises of the storage and of the authority settle.  Nothing makes a caller
  call, the owner close or a process restart.
* `Mailbox`: weak fairness of the settling of awaits, strong fairness of `Sweep`: the
  chain is first in, first out, so a round that keeps finding the chain busy gets its
  place in it.  A refused round is a rejected promise that the worker awaits.
* `ProducerSockets`: strong fairness of the turns that wait for the owner's queue
  (again first in, first out), weak fairness of all other turns, of publication and of
  the handshake timer.  The peer is never assumed to do anything.
* `TenantRouter` and `Provisioning`: weak fairness of the chain's steps, of grants and of
  the requests' own steps: openings, closings and transactions settle.  Nobody is assumed to give a lease
  back except the creation that holds it.
* `ImportQueue`: weak fairness of what the queue itself does next for a call, the delivery's
  timer included.  The device is never assumed to answer.
* `BillingOrders`: weak fairness of each delivery: the provider repeats what was not acknowledged.
* `AlertOutbox`: weak fairness of an exporter's own steps, of the passing of a retry's delay, and of
  the expiry of leases nobody works under.  `AcceptedAlertsSettle` asks for an exporter that stays open from
  some time on, as a premise of the property.

`ExpiredBodiesErased` holds only while the worker runs, and that is the code's own
limit: `runExpiryMaintenance` ends on any error but closing, and nothing restarts
it before the runtime is opened anew.

## 5. Proofs

TLAPS checks about 13,760 obligations: `MembershipProofs` 2,583, `IngestOwnerProofs` 2,479,
`ProvisioningProofs` 2,451, `DisclosureProofs` 2,033, `MailboxProofs` 1,713,
`AlertOutboxProofs` 968, `BillingOrdersProofs` 782, `ImportQueueProofs` 751.
The constants are arbitrary, under the named assumptions of the modules that declare
them: types, limits that are positive, finite sets of members, teams, bindings
(`EnrollmentAssumption`), connections (`ConnectionsAssumption`), requests
(`MailboxAssumption`) and rows (`OwnerAssumption`), events
that are told apart by their id (`BillingAssumption`), a router that is none of its
callers (`RouterAssumption`), and null values that are none of the others (`NullAssumption` and its like).  In each module the invariant is shown to hold initially
(`Init...`) and to be kept by every step (`Step...`), with one lemma for each action
or group of actions; the theorems follow from it.

**Disclosure registry** (`InvariantHolds`, and from it `TypeCorrect`,
`ReopenAlwaysSucceeds`, `StopsFit`, `DecoderAgrees`, `PrefixesWhole`, `AuditIsComplete`,
`CachedDecisionsStayRight`, `RegistryKeepsPromise`).
That every row parses is not inductive.  `DisclosureInv` adds what the parser does not
ask and the next step needs.
* *Room for a stop*: `StopReserveBytes(r) <= MaxAggregateBytes`.  Every change but a
  stop is refused unless it leaves that room, and `FitStopFacts` shows that dropping
  audit entries then makes any one stop fit.  The reserve is the same before and
  after a change of control (`SameReserve`), so a second stop fits as well.
* *Cursors ascend along the whole chain* (`CursorsAscend`), where the parser compares
  neighbours.  Without it two checkpoints could not be ordered by their counts from
  their cursors (`MarkersOrdered`), and a late checkpoint could not be shown to leave
  the published one alone.
* *The shape of the audit window* (`RowShape`): not empty, within its limit, no entry
  from a later version.

`AppendEventFacts` and `AppendCheckpointFacts` carry the weight: an accepted
message extends the chain so that all retained checkpoints still sign their
prefixes.  One lemma follows for each action (`RegisterStep`, ..., `RenewAllStep`).

Every step is then one of the `Moves`: a row is registered, rewritten or erased, or
all live rows are renewed, and what a rewrite may do to a row (`Progress`) is to
confirm a longer prefix, to seal it after a conflict, or to administer it under the
next version.  That classification carries three results.  The audit window
explains the version because each move adds the entry of its own version, and dropping old
entries keeps what is left contiguous (`RecentExplains`).  Whoever loses access loses it
in a move that takes a version.  And each move is a step of `ConfirmedHistory`, or
leaves what it sees alone.

**Enrollment** (in `MembershipProofs`: `EnrollmentInvariant`, and from it `EnrollmentAlwaysOpens`, `RemovalAlwaysOpen`, `OwnersAloneTouchManagers`,
`EnrollmentKeepsPromise`).
The invariant is types, `DirectoryReopens` and `BindingsReopen`.  `RemovalParses` shows
that letting a member go leaves a directory that parses: an owner other than the
member remains, and the member leaves all teams in the same change.
`OwnersAloneTouchManagers` is an action property by cases on the command.  The
refinement maps each step to a step of `EnrollmentPromise` or a stutter
(`PromiseStep`); `DepartedStay` is the part about members who left: `removed` is
final, so a binding never passes to somebody who comes back.

**Owner** (`OwnerInvariant`, and from it `DecidesOnDurableState`, `ListenersAreTold`,
`CredentialsAreActive`, `OwnerIsAtomic`, `JournalIsComplete`, `NobodyIsForgotten`).  `OwnerInv` says of each await what the operation may rely on:
memory equals disk while the owner serves (`ServesDurableState`); a batch under way
moves versions forward, only those it will announce, and the active members only in a
change that will refresh the cache (`BatchOK`); cache and subscribers lag only during the
publication of that very operation (`CacheOK`, `HeardOK`).

For the refinement, `BatchMeans` remembers from the decision to the answer what the batch does
to the tables, or why nothing is to be done.  A call takes effect in the step in which its
batch reaches the disk, acknowledged or not; everything else is an answer or a stutter.
The attempt to prove it corrected `AtomicOwner`: a sweep
works on one row after another, and when a later one is refused the
sweep is answered "rejected" although it has erased the earlier ones
(`index.ts:905-914`), so "rejected" promises "without effect" for all
calls but a sweep.  The instance now has a second retired row, which makes that case occur.

`JournalIsComplete` equates two sums.  A sum over a set is a recursive function on its subsets, chosen
by CHOOSE: `SumIsTotal` shows that it exists and counts the elements of a finite set, one
for each unit of each term (`Units`), by a smallest counterexample
in a well-founded order (`WFMin`), which takes a set where the induction theorems take an
operator.  Adding versions is then adding elements (`OneTermChanged`,
`SomeTermsOneMore`).  `AccountInv` is the inductive part: the batch under way is balanced as well, and a decision
still has, as last entry of the journal, the one it will complete.

**Mailbox** (`MailboxInvariant`, and from it `MailboxAlwaysOpens`, `AnswersAreDurable`,
`HoldersReply`, `BodiesAreAuthorized`, `MailboxKeepsPromise`, `OldestReplyGoesFirst`,
`NoBodyEscapesExpiry`).  `Legal(old, new)` is the set of changes one write
may make to one request: it is asked, worked on, answered, stopped, or its reply dropped.
`CurrentInv` says that the record an operation is about to write is such a
change of the record that is durable, and still will be after each await; the refinement of
`QuestionPromise` is then by cases on `Legal`, and the same for a write that was reported as failed.  `RoomInv` is the accounting of
places: whoever is about to write a new request has one, and while it evicts, the
place it needs is that of its victim.  `DropInv` adds that the victim is the oldest kept reply and the table full, and that
any other reply about to be dropped has expired or lost its access.  `OldestReplyGoesFirst` has a
hypothesis of its own, `ClockSteps \subseteq Nat`: a clock that is set back can un-expire
a reply between the decision to drop it and the write, so the statement is about a
clock that is not.  The run checks it for such an instance; the module's other theorems let the clock move
both ways.

**Import queue** (`QueueInvariant`, and from it `CompletedHaveArrived`, `SettleOnce`,
`TakenUnderAuthority`, `NoTurnIsLost`).  `CallAgrees` ties what a call holds to its record: the record of a running delivery
is still the queued one it selected, because one operation runs at a time
(`OneRuns`).  That the answer "completed" comes from a device that has imported is carried
from the answer to the record in the same way.

**Invitations** (in `MembershipProofs`: `InvitationsInvariant`, and from it `MembersWereInvited`,
`OutcomesStay`, `UndoingSparesMembers`).  A directory step leaves the control plane alone and the reverse, so
`ControlInv` is preserved action by action, and the directory's part is that of enrollment.
The weight is in the mirroring: a suspended membership is resumed only beside an accepted invitation.
`UndoInv` follows one failed acceptance: what the request has seen (`ReliesOn`) stays true however the other
requests, the mirror and the directory move (`ControlMoves`, `DirectoryMoves`), because
an invitation is claimed by one account and its outcome is final.  It shows more than was asked: an entry
is removed only when the account's membership is itself "removed".

**Sockets** (in `MembershipProofs`: `SocketsInvariant`, and from it `SocketsAreAuthorized`, `RuntimeIsHeld`,
`InvalidatedAreStoppedAtOnce`).
A connection that may go on (`Speaks`), or has an answer on its way that would let it, speaks for a binding that stands
or whose loss is about to be announced (`lost`).  The case that needs it is the answer
that was computed before a revocation and read after it; the lease is there before the
question is asked, so the announcement finds it.  `references` is the number of leases and of
stores held; `Sound` says which steps hold which.

**Router and provisioning** (`ProvisioningInvariant`, and from it `RuntimesFollowOneAnother`,
`LeasesKeepRuntimesOpen`, `ClosedRouterIsEmpty`, `ActiveIsEstablished`, `NoLeaseIsLeftBehind`,
`WaitingIsAnswerable`).
`RouterInv` has three parts.  `QueueInv`: a caller is in the chain once, or is the one being served.  `MapInv`: the
runtimes in the map are those that are opening, open or stopped by themselves; who is opening or
closing is so for the allocation under way, or for the close; and the unfinished runtimes are one for each
organization at most, and no more than `MaxActive`.  `LeaseInv`: the references of a runtime are exactly
its users (`Users`), so what is evicted has none; a caller that waits does so
for a runtime that is not closing.  `Fits` ties each request's step to
what its caller has in the router, which is what makes no way out of a creation leave a
lease behind.

**Orders** (`BillingInvariant`, and from it `OneCheckout`, `NoEventRefused`,
`OrdersKeepLedger`).  `Accounts(o)` equates what a row shows with what `OrderLedger`
computes from the set of kept events; that one more event changes both sides alike, in whatever order it
comes, is the core of the proof.  `NoEventRefused`: whatever has been kept, the table's CHECK constraints accept the projection of any next event.

**Alerts** (`OutboxInvariant`, and from it `NoRowBlocksTheOutbox`,
`OutboxKeepsPromise`).  `RowsInv` gives each pending alert one place in one of the two queues.
`ClaimsInv` counts attempts behind refusals, with one in reserve for the
exporter that still holds the lease of an alert it has seen refused, so an alert
is given up only after as many refusals as the policy says.  `NoRowBlocksTheOutbox` is why
`claim` never meets a pending row that it refuses for its attempts.

**Half of liveness.**  That something must happen in the end is a matter of fairness,
and TLC's.  That it can still happen is an invariant, and that is where a lost wakeup or a broken chain would
show: whoever waits for the owner is being served or in its chain
(`NobodyIsForgotten`), has one place in the import queue (`NoTurnIsLost`), or waits for an
allocation or an opening that the router is at or will come to (`WaitingIsAnswerable`); an
authenticated socket that was invalidated has been stopped in the same turn
(`InvalidatedAreStoppedAtOnce`); the expiry worker selects every expired body, and its write
erases it (`NoBodyEscapesExpiry`); no event is refused for good (`NoEventRefused`), and no
alert blocks those behind it (`NoRowBlocksTheOutbox`).  Each comes from the module's invariant, the
first four with a conjunct of their own that every step keeps: joining a
chain leaves the others in it, its head leaves it served or refused, and nothing else touches it.

Proved and not in a run, because a run would add
nothing to the proof: the theorems of the paragraph above, `TypeCorrect`, `DecoderAgrees`, `RemovalAlwaysOpen`, `OwnersAloneTouchManagers`,
`DecidesOnDurableState` and `AnswersAreDurable`.

**Only model-checked.**  Liveness: `EveryCallSettles`, `ExpiredBodiesErased`,
`InvalidatedSocketsClose`, `CreationsSettle`, `CallsSettle`, `EventsAreRecorded` and
`AcceptedAlertsSettle`.  With fairness and ENABLED they are out of reach of these provers;
their safety halves, above, are proved.

## 6. What is not modelled

`components` in `PROJECT.json` lists all parts with a reason each.  In short:

* The question broker's delivery over a socket (`saas-question-mailbox.ts`): the question is
  sent outside the owner's queue and authorized again afterwards (`:457`); the mailbox's
  own half of this, the fence after each await, is in `Mailbox`.
* Consumer claims, the standalone mailbox host and admission budgets: sequential code over one
  record at a time, or a second host of operations that are modelled.
* Within the modelled tenancy: accounts and their linking, slugs, row security, the limit on pending
  invitations, and the moment between looking up the inviter's role and the transaction
  that trusts it.  Within the alerts: the exporter that has no outbox and keeps its alerts in memory, and rate limits; the
  clock is taken not to run backwards between attempts, since it orders them.
* Taken as given: signatures, hashes, sealing and codecs; the storage backends, as
  far as their failure goes beyond a write that is rejected, having landed or not.
* Left out of the modelled parts: names, titles and other text no rule depends on;
  requested scopes, device keys and codes of a binding; records in the formats of
  earlier versions; the idle timer, presence and frame decoding of a socket;
  paging and inspection of the audit; the wrap-around of versions, which the code
  refuses (`CanIncrement`) at the last safe integer.
* Not state machines: HTTP routes, the web client, adapters to a local Harness,
  deployment scripts, vendored code.

## 7. What could come next

* Models: delivery of questions over `Mailbox` (authorization in two phases around
  the send); consumer claims; storage-domain's own write chain, against which
  `IngestOwner`, `Mailbox` and `ImportQueue` would be shown to work.
* Proofs: the same for the models above; and that the queue of each owner serves
  its callers in the order in which they came.
