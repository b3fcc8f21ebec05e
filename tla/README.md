# TLA+ verification of the Meshanics MCU agent

This directory holds a TLA+ development for the device agent in `lib/`: the
over-the-air update and its anti-rollback records, the download and the manifest
verifier, the agent thread among its neighbours, first-boot enrollment, the text
formats it exchanges, and the log ring.
Modules are model-checked with TLC on small instances; every safety property is
also proved with TLAPS for every value of the constants (section 4).

## 1. The system

| Component | State it keeps | Operations | Source |
|---|---|---|---|
| Agent thread | lifecycle state, identity and pinned key in RAM | `agent_main`, `boot_confirm`, `poll_once`, `establish_identity`, status page, log shipping | `lib/meshanics_agent.c` |
| Boot decision | none (pure) | `ota_plan_boot`; also `Content-Range` parsing, heartbeat JSON | `lib/ota/ota.c` |
| Anti-rollback records | NVS records 1-4: applied, pending, failed counter, attempted version | read, store, clear each | `lib/plat/plat_counter.c`, `plat_store.c` |
| Image slots | slot 0, slot 1, MCUboot trailer | `plat_stage_image`, `plat_commit_and_reboot`, `plat_confirm_image`, `plat_reboot` | `lib/plat/plat_mcuboot.c` |
| Network operations | WiFi flag, TLS credentials | WiFi up, register, heartbeat, manifest fetch, firmware download | `lib/plat/plat_net.c` |
| Enrollment | key pair and credentials in RAM | key + CSR, claim, manifest-key fetch, retry | `lib/provision/enroll.c` |
| Identity store | four NVS records | exists, load, save | `lib/provision/identity.c` |
| Manifest verifier | none (pure) | protobuf decoding, signature, field checks, `md_check_rollback` | `lib/verify/manifest_verify.c` |
| Claim protocol | none (pure) | JSON, base64 and PEM extraction | `lib/provision/claim_proto.c` |
| Log buffer | byte ring, head, length, spin lock | `ring_put`, `applog_snapshot` | `lib/applog/applog.c` |
| Ed25519, provisioning data, sample | - | wrapper around vendored code; compile-time data; example | `lib/verify/ed25519_fiat.c`, `lib/provision/provisioning.c`, `samples/` |

How they interact. MCUboot starts an image; the application starts the agent
thread; `agent_main` brings WiFi up, loads or obtains the identity, registers
TLS credentials, calls `boot_confirm(1)`, then alternates heartbeat and OTA
poll. `poll_once` fetches and verifies a manifest, compares it with the applied
and the failed counter, streams the image to slot 1, checks its digest, stores
the attempted version and the pending counter, asks MCUboot for a test swap and
reboots. The next boot's `boot_confirm` reads those records and decides: the
image is new and reached the network (confirm, promote, clear), or the pending
target did not survive (clear, record as failed). The control plane sees only
heartbeats.

What is hard. Nearly every decision of one boot is read from flash written, one
record at a time, by an earlier boot; power can be lost between any two writes;
most return codes of those writes are ignored; the bootloader acts in between;
the release assigned may change between the manifest and the download. The
agent itself is one thread, so concurrency is between it, the application that
starts it, the WiFi callback, clients of its status page, the bootloader, the
power supply and the control plane. Its parsers read bytes before they are
authenticated, and a download arrives in pieces nobody chooses.

What makes each component correct:

- *update*: the device never runs below its applied counter, always has an image
  to fall back to during a trial, promotes only what MCUboot keeps, never
  reboot-loops on a bad target, and applies a good one in the end;
- *failure record*: it names, and the heartbeat reports, only releases that were
  really rejected, and such a release is not tried again;
- *enrollment*: an identity the next boot accepts is whole, is the one in use,
  is never overwritten, and is obtained in the end while the token is good;
- *log buffer*: a snapshot is the newest text in order, whoever logs meanwhile;
- *download*: success means that the flash holds exactly the image the manifest
  names; a good answer is staged however it is cut; staging always returns;
- *manifest verifier*: it never leaves its buffer, returns signed bytes only, and
  returns on every input;
- *agent thread*: started once, it misses no connection, and while clients of the
  status page let it go on it sends heartbeats, answers log requests and stops when
  decommissioned;
- *formats*: a reader gives back what was written, whatever characters it holds.

## 2. Modules

| Module | Models |
|---|---|
| `PlatCounter` | the four records; a read may fail (and then yields 0), a write or delete may fail (and then changes nothing) |
| `Mcuboot` | slots, trailer, swap request; swap, revert, refusal at a reset. The bootloader is external: its contract is taken from what the agent relies on |
| `Ota` | `ota_plan_boot` |
| `Agent` | the agent thread composed with the three above and with the environment |
| `DeviceAbs` | the abstract promise: one running and one known-good image, try newer, fall back, keep, raise the floor |
| `AgentClaims` | statements of headers and comments that the code does not keep |
| `Enroll` | `establish_identity`, `meshanics_enroll`, the identity records, the TLS credential store |
| `AppLog` | the log ring: `ring_put` by several threads, `applog_snapshot`, the spin lock |
| `Download` | `plat_stage_image`: the streaming loop of `plat_net_firmware_download`, `stage_sink`, flash_img's RAM block, `verify_slot_sha256` |
| `Manifest`, `MCManifest` | `md_verify`: varints byte by byte, both field loops, the ordered checks, validation; three messages for TLC |
| `AgentThread` | `meshanics_agent_start`, `plat_net_wifi_up` with its callback, `http_serve_pending`, heartbeat, log shipping, decommissioning |
| `ClaimProto`, `OtaText` | the readers and writers of `claim_proto.c` and `ota.c`, as functions on texts |
| `Formats` | one call of such a function on each of a bounded set of inputs |
| `AgentProofs`, `AgentThreadProofs`, `EnrollProofs`, `AppLogProofs`, `DownloadProofs`, `ManifestProofs`, `ClaimProofs`, `OtaTextProofs` | theorems |

**Agent.** `pc` is the thread's next step; `"reset"` is MCUboot's turn and
`"halted"` a thread that returned. Each flash write is an action, so that power
can fail between any two; reads are joined to the step that uses them.
`Plan` ... `ForgetAttempted` are the eight steps of `boot_confirm` in source
order; `PollTarget`/`PollIdle`, `StageOpen`, `StageImage`/`StageFails`,
`StoreAttempted`, `StorePending`, `RequestUpgrade` are `poll_once` with
`plat_stage_image` and `plat_commit_and_reboot`. A release is its rollback
counter, its version a function of it; slot 1 is `Partial` from the first byte
written until the digest check. Manifest verification is abstracted to
"the answer is the assigned release, or no valid answer".

**What happens around the thread** is chosen by the constant `Env` (listed at
the head of the module): power loss, WiFi, start, identity and network failures,
failing NVS writes, NVS reads, confirm writes and upgrade requests, assignment of
an older release, decommissioning. `NoNet`, `Refused` and `Vetoed` are releases
that cannot reach the network, that MCUboot refuses, and whose `health()` says no.

**Enroll** refines what `Agent` treats as the three steps `identity`, `enroll`,
`credentials`. A key pair is the number of its generation, a certificate the
number of the key it is for, manifest key and key id the signing epoch; so
"mixing two attempts" is visible as two different numbers. The retry loop, each
of the four record writes and each group of credentials is a step. `https` reports a
failed `send` like a failed `connect` and `https_retry` repeats both, so a claim may
have been granted whose answer the device never reads (`Unreachable`). The runs
have the eight credential slots of `samples/sensor-node/prj.conf:36`. Its comment expects
the enrollment credentials beside the operational set; in the code they are freed first,
and `CredsInv` says what the store holds at each step.

**AppLog.** Each byte is a step of its own and the lock is a variable, so that what
the lock is for is part of the model. A byte is named by the thread that logged it
and its distance from the end of its chunk; `log`, a history variable, is everything
ever logged, and `mark` its length when a snapshot took the lock.

**Download** refines what `Agent` treats as the step `StageImage`. A byte is named
by its position in the response, so that a lost, repeated or misplaced byte is
visible in `slot`; `recv` returns any part of what is left. flash_img is external: it
holds back less than a block until it is flushed (`durable`). The digest is abstracted
to "every byte hashed is the manifest's", `genuine` says whether the body is that image.

**Manifest** reads a byte when the code does: the one sent, or, `MaxDamage` times,
another. Widths are constants (`VARINT` for 2^64, `WORD` for 2^32, the device's
`size_t`), so that wrapping happens on small numbers. Comparisons of texts (alg, key
id, hex digits) and the signature are Boolean choices; the order in which they are
made is the code's.

**AgentThread** keeps what `Agent` reduces to one step and reduces to one step what
`Agent` details (`Boot`, `Prepare`, `Poll`). `joined`, `shipped` and `told` are
history variables. `ready` says that an accepted client has sent its request or
closed the connection, which is what `zsock_recv` waits for. Clients come as often as
they like, `Backlog` of them waiting at a time, and need not send anything.

**ClaimProto, OtaText, Formats.** A text is a sequence of characters; long keys and
the PEM markers are one symbol. The DER prefix, key length and buffer of
`claim_ed25519_pub_from_pem` have their real sizes (12, 32, 48). The properties do
not compare two parsers: each input is generated from what it stands for (a key, a
range, three values), and that is what the result is compared with. `FetchKey`
composes the reader and the PEM decoder as `meshanics_enroll` does. The width of
`parse_u64`'s numbers (`UINT64`) and the sizes of all buffers are constants.
`ota_parse_content_range` has no caller at this commit and is checked for what `ota.h`
says of it. The accumulator of the base64 decoder is a signed `int` that is shifted
until its upper bits are lost; GCC defines that shift, so `b64step` keeps the lower
bits, which are all that is ever stored.

## 3. Runs

| Run | Instance | Shows |
|---|---|---|
| `faults_safety` | 2 releases, one of them vetoed by `health()`, 2 power losses, every fault but failing confirm writes and NVS reads | `NoDowngrade`, `FallbackIntact`, `OnlineIsKept`, `RequestedIsPending`, `PromotedIsKept`, the inductive `RollbackInv`, and that the agent implements `DeviceAbs` |
| `update` | 3 releases: one without network, one refused, one good; 2 power losses; lossy network | liveness `BadTargetIdles`, `GoodTargetIsApplied`; and the truth of the failure record, the report and the skip while no power was lost |
| `enroll_safety` | 3 losses, 2 signing epochs, 3 tries, every fault but failing NVS reads | `StoredIsWhole`, `OnlineIsStored`, `OnlyOperational`, `NeverReenrolls` |
| `enroll_live` | one-time token, route that settles late, 3 power losses, key rotation, 8 credential slots | liveness `EnrollsEventually`: online, or the token was used up by an attempt that power loss cut short |
| `applog` | ring of 3, 2 threads, chunks of 1-2, buffers of 0-5 bytes, 6 bytes logged | `SnapshotIsNewest`, `ChunksWhole` |
| `download` | buffers of 4, blocks and reads of 2, slot of 5; images of 0-6, heads of 2-5, bodies of 0-7 bytes; network and flash faults | `StagedIsExact`, `SinkIsPrefix`, `GoodImageIsStaged`, liveness `StagingReturns` |
| `manifest` | 3 messages of up to 45 bytes, cut at 8 lengths, 2 damaged bytes of 13 kinds; 15-bit varints, 10-bit `size_t` | `InBounds`, `OnlySigned`, `ReadExactly`, liveness `VerifyReturns`; all ten results of `md_verify` occur |
| `agent_thread` | 2 start calls, 2 connect requests, 2 polls, 2 ticks, 2 waiting connections, 2 log requests; start, WiFi, listen, accept and network faults; any number of clients | `StartedOnce`, `NoLostJoin`, `ShipsWhatIsWanted`, liveness `BeatsUnlessHeld`, `LogsShipped`, `OffboardStops` |
| `formats` | 12 968 inputs | `ClaimRoundTrip`, `KeyDelivered`, `RangeParsed`, `HeartbeatReadsBack` |
| `claim_*` | the smallest instance that refutes the statement | section 6 |

*Bounds.* `MaxCounter = 2` gives a factory image, a release and a newer one: an
old image below the floor, the floor, and one above it, which is all that the
comparisons of `ota_plan_boot` and `md_check_rollback` tell apart. The liveness
run has three releases so that a good one can follow two different bad ones.
`MaxLosses = 2` lets a second loss hit the recovery from the first; the theorems
have no such bound. `Attempts` stands for the 20 tries of `https_retry`; three
distinguish first, middle and last. The ring of 3 wraps twice within the 6 bytes
logged, and buffers are smaller than, equal to and larger than the ring. `gen` is bounded by the losses. In the
agent and enrollment no width matters: counters are only compared and stored.
In `download` an image is empty, shorter than, equal to and longer than a buffer,
a multiple of a block and not, and larger than the slot; a head fills the buffer
exactly and exceeds it. In `manifest` a varint has up to three bytes of seven bits
in fifteen, so that the last one overflows as the tenth byte of 64 bits does, and a
length may exceed `size_t`. Two waiting connections (the backlog of `zsock_listen`),
ticks, requests and polls are enough for one to wait while the other is served, and
for the last poll to race the callback; the number of clients is not bounded.
In `formats` `UINT64` is 16 and the numbers 15 and 16 are on both sides of the
limit; values have up to three characters, enough for an escape before a quote.

*Deadlock.* Runs with faults may halt (`agent_main` returns), and `download`,
`manifest` and `formats` model a call that returns, so they do not check deadlock.
`update` and `applog` have no such fault and do.

*Fairness.* `FairSpec` assumes only that the device keeps running
(`WF_vars(Device)`): the thread is scheduled, its sleeps end, MCUboot boots.
`LossySpec` adds strong fairness for the three requests that are repeated on
every poll: a manifest fetch, an image request and a download that are tried for
ever succeed eventually. Nothing is assumed of the control plane or of power
beyond the bound on losses. `enroll_live` uses weak fairness of the device; its
route comes up within the tries of `https_retry`, since a request that fails for good
ends the thread.
`download` and `manifest` assume that the function goes on: a `recv` returns because
`tls_connect` sets a receive timeout. `agent_thread` assumes that both threads are
scheduled and that a heartbeat and an upload tried for ever get through. Nothing is
assumed of status clients: the liveness properties except the behaviours in which
they hold the thread in `http_serve_pending` for ever (`HeldByClients`), and
`claim_status_server` shows that these exist.

## 4. Proofs

All theorems hold for every number of releases, every number of power losses,
every `NoNet`, `Refused`, `Vetoed` and, unless stated, every `Env`/`Faults`.

- `AgentProofs`: `TypeCorrect`; `RequestedIsPendingHolds`, for every `Env`, from
  the invariant `CommitOrder` (from the digest check on slot 1 holds the target;
  from the pending record on it is pending; a request is followed by the reset).
- `AgentProofs`, anti-rollback, under `ReliableFlash` (neither the confirm write nor an NVS
  read fails; NVS writes still may): `RollbackInvariant`, and from it
  `NoDowngradeHolds`, `FallbackIntactHolds`, `PromotedIsKeptHolds`,
  `OnlineIsKeptHolds`.
  `NoDowngrade` alone is not inductive: whether a revert goes below the floor
  depends on the image waiting in slot 1, whether a promotion is right depends on
  the pending record naming the running image, and that depends on the order of
  staging in an earlier boot. `RollbackInv` is the conjunction of these links:
  the image on trial is the pending one and newer than the floor, its fallback is
  intact (`TrialInv`); a request is for the pending release above the floor
  (`RequestInv`); the decision `boot_confirm` took is still right when it acts
  (`PlanInv`); past the confirm write the image is kept (`KeptInv`); a target in
  progress stays above the floor (`StageInv`). The hypothesis is needed:
  findings 4 and 5 of section 6 are counterexamples without it.
  The same invariant gives `AgentImplementsDevice`: the known-good image is slot 1
  during a trial and slot 0 otherwise; MCUboot's swap is `Try`, its revert
  `FallBack`, the confirm write `Keep`, the promotion `Raise`.
- `AgentProofs`, blame, on top of `RollbackInv` and under `ReliableFlash`: who is blamed
  for a failed update. The three properties are about behaviours in which power was not
  lost; each theorem adds the faults it has to exclude and no other.
  - `FailedWasRejectedHolds` excludes none: NVS writes and upgrade requests may fail,
    and older releases be assigned. `BlameInv`: a boot of a kept image finds a pending
    record only if MCUboot rejected that release. It needs that the only reset without
    a requested swap or a running trial is one with no pending record.
  - `ReportedWasRejectedHolds` excludes failing NVS writes and upgrade requests; after
    such a failure the attempted version names a release that never ran (finding 8 of section 6).
    `ReportInv`
    follows that record from the write in `poll_once` through commit, trial and either
    end of the trial.
  - `NoReattemptHolds` excludes failing NVS writes and the assignment of older
    releases. There is one failed record for any number of rejected releases, so
    `MemoryInv` says why one is enough: every release tried is newer than all those
    rejected before, every rejected one is covered by the applied or the failed
    counter or is about to be recorded, and the failed record is cleared only by a
    promotion above all of them.
- `AgentProofs`, reset budget: `ResetsBounded` is the safety core of `BadTargetIdles`.
  Without power loss, failing NVS writes and assignment of older releases, and under
  `ReliableFlash`, the device resets at most twice per release: `Budget`, which counts
  the trials and the ends of trials still possible, lies in `0..2 * MaxCounter` in every
  state and every step to `"reset"` that the agent or MCUboot can
  take uses one up.
- `AgentThreadProofs`, for all bounds and faults: `StartedOnceHolds`,
  `NoLostJoinHolds`, `ShipsWhatIsWantedHolds`, and `ToldIsSilent`, the safety half of
  `OffboardStops`. `ThreadInv` adds what the properties need from the other side: a
  call of `meshanics_agent_start` in progress is the first one (`StartInv`), the
  connected flag was set by a request of this wait (`JoinInv`), and log ids are fresh,
  so that a pending one was never answered (`LogInv`).
- `EnrollProofs`: `EnrollTypeCorrect`, `OnlineIsStoredHolds` and `OnlyOperationalHolds`
  (from `CredsInv`: what the credential store holds at each step) for all faults;
  `EnrollInvariant`, `StoredIsWholeHolds`, `NeverReenrollsHolds` when NVS reads do
  not fail. `EnrollInv` says that the record saved last (`PUB`) is the commit
  point: while it is absent the device may enroll, what is collected and saved so
  far belongs together, and once it is there nobody enrolls.

- `AppLogProofs`, for every ring size, chunk size, buffer size and set of threads:
  `RingTypeCorrect`, `SnapshotInvariant`, `SnapshotIsNewestHolds`,
  `ChunksWholeHolds`. `SnapshotInv` relates the ring to the history (the j-th newest
  byte is j cells behind `ring_head`), says that the copy runs under the lock over a
  ring that stands still, and that a returned copy stays right. The arithmetic
  (`ModOnce`, `Behind`, `CopyIndex`) is kept in lemmas.

- `DownloadProofs`, for every size of buffers, block, slot, image, head and body and
  all faults: `StagedIsExactHolds`, `SinkIsPrefixHolds`, `GoodImageIsStagedHolds`,
  from `DownloadInv`. That the digest matched is not enough for an exact image: the
  invariant says where in the stream the next body byte is read (`StreamInv`), that a
  complete image is flushed (`FlushInv`), that what matched was read back from flash
  (`HashInv`) and that a good answer is never given up (`GoodInv`). `StagingBounded`
  is the bound behind `StagingReturns`: the bytes still to be received and hashed plus
  the steps ahead become less with every step.
- `ManifestProofs`, for every width, length of buffer, set of messages and number of
  damaged bytes: `InBoundsHolds`, `OnlySignedHolds`, from `ManifestInv`, which adds
  the message each step belongs to (`PhaseInv`) and that every slice yielded so far
  lies in the signed bytes (`YieldInv`). `ReadExactlyHolds`: a number that fits is read
  exactly. The number that a
  sequence of bytes denotes is defined by two recursive functions; `SolvedInv` states
  the equations that define them, that they can be solved for the bytes read so far,
  and that every solution yields `acc` and `unit`. It is kept byte by byte as they
  arrive, so no induction over the sequence is needed. `VerifyBounded` is the bound
  behind `VerifyReturns`: at most 16 steps per byte of the buffer, and 14.

- `ClaimProofs`, for every length of text and every buffer size: `ClaimReadsBack`, for
  any three texts over any characters (the C string's NUL excepted), not only those of
  the run: a request of `claim_build_request` that fits gives token, device id and CSR
  back, and one that does not fit is refused. `ClaimRoundTripHolds` follows for the
  specification. The argument: a quote inside an escaped value always stands behind a
  backslash, so no place inside a value passes for a key; the reader, started behind
  the opening quote, stands at every stop (the place of a whole escape) with exactly the
  characters written so far, and ends at the first bare quote. The induction over the
  text is on the set of the stops already shown right (`Induction`), with one
  instance per reader, so no library theorem with an operator parameter is needed.
  `KeyDeliveredHolds` is the other half of enrollment: the answer with the manifest key.
  It follows from `AnyAnswerReads`, which holds for every DER, key id, other value, spacing,
  escaping, order of the members and line width, and rests on two theorems of its own.
  `ObjectReads`: in an object of three members no quote but the one that opens a member
  stands before its name and a colon, so a value that looks like `"k":` is not taken
  for a key, and each member is read to its own closing quote. `PemReadsKey`: `BEGIN` and
  `END` are found because base64 holds no dash; behind `k` characters of base64 the loop
  has stored `6k div 8` bytes, exactly those encoded, and holds the bits left over; line ends
  are skipped, `=` ends it, and the 49th byte is refused. So a PEM is accepted exactly when
  it encodes 44 bytes with the Ed25519 prefix.
- `OtaTextProofs`, on top of it: `HeartbeatReadsAnyText` (any detail, reverted version
  and buffer size) and `HeartbeatReadsBackHolds`: `sanitise` leaves nothing that an
  escape is needed for, and the text between two values holds no key of another member.
  `NumberExact`: `parse_u64` returns the number its digits denote when that is below
  `UINT64`. `RangeReadsAnyText`: for every header with any digits, blanks and tail,
  `ota_parse_content_range` returns start, end and total exactly when they are coherent,
  and nothing else when the form is broken; `RangeParsedHolds` follows.

Only model-checked: liveness under fairness, which the prover does not reach (for
`md_verify` and `plat_stage_image` the bound on the steps is proved, for the update the
number of resets; what remains is that an enabled step is taken). The inductive
invariants that no run lists (`BlameInv`, `ReportInv`, `MemoryInv`, `ThreadInv`,
`CredsInv`) are written as state predicates of their modules, so that they can be given to TLC as invariants; it confirms them
under the hypotheses of their theorems.

## 5. Mutants

Every property checked by a passing run has a plausible bug, written next to the
definition it replaces (comment "Mutant"), under which TLC finds it violated: a
promotion without comparison, a dropped rollback check, a swallowed flash error,
records written in another order, a retry loop that runs once too often.

## 6. Findings

The first three are the counterexamples of `claim_*` runs; `PROJECT.json` quotes the
lines.

1. `claim_healthy_not_failed`: power lost after `plat_confirm_image` and before
   the promotion. The next boot sees a confirmed image with a pending counter and
   records the running, healthy release as failed; its counter is never promoted.
2. `claim_trial_decided`: on a trial image, a failure of identity or credentials
   ends the thread without a reboot, so the image is neither kept nor reverted.
3. `claim_status_server`: a client that connects to the status page and sends
   nothing blocks `zsock_recv` for ever, and `http_serve_pending` serves on while
   connections keep arriving; either way there is no heartbeat and no poll.

The others are refuted by TLC with the configuration of the run named, changed as given.
No passing property covers them: each is stated for what the code does keep.

4. The promotion does not depend on the confirm write having succeeded
   (`meshanics_agent.c:137`), though `plat_counter.c:17` says "on a confirmed boot":
   the floor is raised to an image that MCUboot then reverts.
   *`faults_safety`, `Env = {"confirm"}`: `PromotedIsKept`.*
5. A counter that cannot be read is taken for 0 (`plat_counter.c:33`), so an older
   release passes the check of what `plat_counter.c:5` calls "the freshness authority".
   *`faults_safety`, `Env = {"nvs_read", "retarget"}`: `NoDowngrade`.*
6. `health()` returning false changes a heartbeat flag, after the image was confirmed
   (`meshanics_agent.c:381`); `agent.h:45` says it rejects the image. So
   `GoodTargetIsApplied` is stated for releases that are not vetoed.
   *`faults_safety`, module `AgentClaims`: `VetoRejects`.*
7. When the identity cannot be saved, `meshanics_agent.c:309` promises to enroll again on
   the next boot; the token it presents then is one-time (`README.md:77`) and used up. The
   same happens when power is lost between the claim and the last record: the exception
   (`TokenLost`) of `EnrollsEventually`.
   *`enroll_live`, `Faults = {"nvs_write", "power"}`: `RetryIsHonoured`.*
8. With an older failure on record, a commit that fails after the attempted version was
   stored makes the heartbeat report as reverted a version that never ran
   (`plat_net.c:288`); the comment above it says "swapped in and reverted".
   *`faults_safety`, `NoNet = {1}`, `Env = {"nvs_write"}`: `ReportedWasRejected`.*
9. `manifest_verify.c:17` says a varint of more than 64 bits returns -1; it is truncated.
   `ReadExactly` is about numbers that fit. *`manifest`: `WideRejected`.*
10. `ota.h:20` says any malformed `Content-Range` returns 0; text behind the total is
    accepted and numbers wrap at 64 bits. `RangeParsed` is about the other ways to be
    malformed, and about numbers that fit. *`formats`: `MalformedRejected`.*

Further disagreements met while modelling, described here and not run:

- power lost between the pending record and the swap request records as failed a
  release that was never swapped in (`plat_mcuboot.c:167`): this is why
  `FailedWasRejected`, `ReportedWasRejected` and `NoReattempt` are stated for
  `losses = 0`;
- power lost between clearing the pending and storing the failed record lets the
  bad target be tried again (`meshanics_agent.c:145`); so does a second bad target,
  as one failed counter is remembered (`meshanics_agent.c:89`), when an older
  release is assigned again;
- OFFLINE is final: the thread returned, though `agent.h:41` says "retrying";
- with a stored identity an image is confirmed before the control plane answered
  anything, though `plat.h` calls that the health signal;
- `plat.h:77` says "permanent swap"; the code requests a revertable test swap;
- an identity record that cannot be read counts as absent, and the device enrolls
  over a live identity (`plat_store.c:77`); hence the hypothesis of
  `NeverReenrollsHolds`;
- `schema_version` and field numbers are cut to 32 bits, so 2^32 + 1 passes for schema 1, though
  `manifest_verify.h:33` says any other value is rejected;
- `append_escaped` leaves control characters other than newline, return and tab as
  they are; `ota_heartbeat_json` sanitises detail and reverted version but not the
  two versions; with an applied version of more than 45 to 65 characters and a reverted one the
  body exceeds its 256 bytes and no heartbeat is sent;
- `json_extract_string` takes the first member with the name, nested or not, though
  `claim_proto.h:28` says top-level (the heartbeat relies on it for `request_id`);
- `plat_net_wifi_up` waits three seconds for DHCP and never checks the lease;
- `meshanics_agent_start` tests and sets `started` without a lock; two threads
  calling it at once could create the thread twice (the header: "Call exactly once");
- a rotated manifest key never reaches an enrolled device, which fetches the key
  only while enrolling.

## 7. Not modelled

Request lines, headers and the text of the status page (I/O without effect on the
state above); `http_status` is the code of a response, `recv_all` its outcome; X.509,
CSR, TLS and Ed25519 (vendored cryptography, assumed correct); the sample
application; `ota_chunk_len`, a pure function without a caller; `meshanics_report_metric` and the getters of `agent.h`, which keep no state the agent uses. One NVS write or delete is taken to be atomic, as
NVS is designed, and MCUboot's swap to be resumable, as it is. An assigned
release's counter is at least 1.

## 8. Plan

In order of importance:

1. (done) `PlatCounter`, `Mcuboot`, `Ota`, `Agent`, `DeviceAbs`; anti-rollback and
   refinement theorems.
2. (done) `Enroll` and its theorems.
3. (done) `AppLog` and its theorems.
4. (done) `Download`, `Manifest` and their theorems.
5. (done) `AgentThread`, `ClaimProto`, `OtaText`, `Formats`.
6. (done) Theorems for every safety property of the agent, its thread, enrollment,
   log ring, download and manifest verifier; bounds on the steps of `md_verify` and
   `plat_stage_image`.
7. (done) Theorems for the text formats: claim request, manifest key, heartbeat, ranges.
8. Open: `Download` as an implementation of the staging steps of `Agent`.
