# A verification project for Aafno Praman

Aafno Praman issues academic and employment credentials for Nepal: an approved
organisation drafts a record, its holder confirms it, and the record's hash is
anchored in a permissioned registry contract, where anybody can verify it. A
Django backend (`src/backend/apps`) keeps the records and the custodial keys, a
Solidity contract (`src/contracts/contracts/CredentialRegistry.sol`) keeps the
hashes, a Next.js frontend (`src/frontend`) talks to the backend.

What makes it hard is not any one function: a database and a chain are written
one after the other by requests, by two scheduled commands and by operators, all
at once; the chain call can be refused, lost, slow, or answered after its caller
gave up; and what is on the chain can never be taken back. In the browser, one
tab keeps a session, a wallet and a cache of what the server said, each in several
places at once, while timers, answers and events come in any order. The modules
here model the contract, the path to it, and the consoles.

Paths in this file are relative to `src/`; `apps/` is `backend/apps/`, and in the
sections on the consoles they are relative to `src/frontend/src/`.

## Inventory

| Part | State it keeps | Operations | What makes it correct |
|---|---|---|---|
| Registry contract (`contracts/contracts/CredentialRegistry.sol`) | registrar, issuers, anchors, reasons, two index arrays | hand-over, approve / suspend / reinstate issuer, anchor, anchorBatch, revoke, supersede; views | append-only history, exact indices, corrections that resolve, suspension not retroactive |
| Consent gate (`apps/credentials/confirmations.py`, `confirm_views.py`, `offer_views.py`, `expire_offers`) | record status, one `CredentialConfirmation` per record, token hash | create offer, peek, accept / decline (by link or dashboard), resend, expire | nothing reaches the chain without a confirmation; one answer; expiry lapses only what is unanswered |
| Anchoring service (`apps/ledger/services.py`, `anchor_pending`) | `LedgerAnchor` and `RevocationEvent` rows, record status | freeze, anchor one, anchor batch, revoke, retry | database first; no record lost; nothing claimed that the chain does not hold |
| Ledger client (`apps/ledger/client.py`) | nonce locks, the node | send (estimate, sign, submit, wait), verify | rejection, outage and timeout told apart; no nonce used twice |
| Issuance and claims (`apps/credentials/services.py`, `views.py`) | records, batches, row errors | issue, claim, endorse, reject, CSV import, revoke | one live record per credential; a rejected claim never anchored; no row of a CSV lost |
| Issuer onboarding (`apps/organizations`) | organisation status, issuer keys | apply, approve, reject, suspend, reinstate, invite | database and chain agree on who may issue |
| Reconciliation command (`chain_sync`) | none of its own | compare, repair | repair converges and forgets no revocation |
| Verification (`apps/verification/services.py`) | verification log | verify, look up, check subject | the outcome follows from chain and database as documented |
| Quota (`QuotaService`) | the log, subscriptions | status, capacity, count | at most the plan's look-ups are served |
| Share links (`apps/verification/views.py`, `models.py`) | view counter, expiry, passphrase | create, view, revoke | at most `max_views` views |
| Canonical form (`apps/ledger/canonical.py`, `credentials/payloads.py`) | none | canonicalise, hash, dedupe key | equal records, equal bytes; different records, different bytes |
| Accounts (`apps/accounts`) | users, profiles, attested ids | register, provision, attest, attach pending records | a pending record reaches exactly its holder |
| Audit (`apps/audit`) | append-only events | record, list | every operation leaves its event |
| Browser session (`frontend/src/lib/auth`, `lib/api/client.ts`, `components/auth`) | tokens in memory and in localStorage, user, timer, the refresh in flight, the route | sign in, register, refresh by timer / by 401 / on load, resend, sign out, guard | one refresh; a session is one user's, whole, and ends whole; every visit settles |
| Browser wallet (`lib/wallet`, `components/auth/wallet-gate.tsx`) | provider, address, network, remembered connection | restore on load, connect, switch or add network, disconnect, events | what the gate believes is what the wallet says |
| Console data (`lib/api/hooks.ts`, `components/providers.tsx`) | the query cache | every read and write, retry, staleness, invalidation, ledger poll | one's own writes are seen; no read is asked for ever |
| User interface pages (`app/`, `components/`) | fields, results, errors, open panels, reasons, phases of a public link | fill, send, be answered, leave, open again; decide; view; confirm | what is saved is told; what is shown is so; a reason is for the item it was written for |

How they interact. Requests run with `ATOMIC_REQUESTS = False`: each ORM call
outside a `transaction.atomic` block commits on its own. Accepting an offer
commits the confirmation and the status together, then, in `on_commit`, calls the
anchoring service in the same request; an exception there is logged and dropped.
`anchor_pending` (cron) calls the same service on rows left `PENDING`,
`expire_offers` (cron) moves stale offers to `EXPIRED`; nothing excludes two of
them, or one of them and a request, on one record. The nonce lock is an
in-process lock; the row lock of `_lock_open_confirmation` covers the answering
transaction only; `endorse_claim`, `reject_claim`, the registrar's decisions and
the view counter of a share link read and write without one. The unique indices on the hash and on the dedupe key (while the
status is live) are the only cross-record coordination.

In the browser JavaScript runs one turn at a time, so what interleaves are turns:
clicks, timers, answers, the wallet's events. `AuthProvider` hands its tokens to
every `apiFetch`; `ProtectedRoute` follows its status; `WalletGate` stands between
an organisation's console and its pages and unmounts them when it closes; every
page reads and writes through `hooks.ts`, whose cache outlives pages, and
sign-outs.

## Modules

| Module | What it is | Status |
|---|---|---|
| `CredentialRegistry` | the contract: one action per function that writes storage | done |
| `CredentialRegistryProofs` | its theorems | done (see Proofs) |
| `MCCredentialRegistry` | its instance for TLC | done |
| `AnchorPipeline` | consent gate + anchoring service + client outcomes + retry, expiry, revocation, suspension, crashes; composes `CredentialRegistry` | done |
| `ConsentedPublication` | the abstract promise `AnchorPipeline` implements | done |
| `AnchorPipelineProofs` | its theorems, the refinement among them | done (see Proofs) |
| `MCAnchorPipeline` | instances of the pipeline | done |
| `AuthSession` | the tab's session: tokens, refresh, calls, routes | done |
| `ConsoleData` | every query and mutation of the consoles against the cache's rules | done |
| `WalletGate` | MetaMask's stream of messages and what the page makes of it | done |
| `Forms` | the eleven forms: fields, submission, answer, result, error | done |
| `Desks` | the four kinds of card or panel on which something is decided | done |
| `PublicPages` | the shared passport and the confirmation page, behind their links | done |
| `PublicPagesProofs` | its theorems | done (see Proofs) |
| `DesksProofs`, `FormsProofs` | the theorems of `Desks` and of `Forms` | done (see Proofs) |
| `AuthSessionProofs`, `ConsoleDataProofs` | the theorems of the session and of the cache | done (see Proofs) |
| `ScreensProofs` | the theorems of `WalletGate`, and of `Screens` from those of its four parts | done (see Proofs) |
| `Screens` | the four above as one system that TLC explores, one screen per behaviour | done |
| `MCAuthSession`, `MCConsoleData`, `MCScreens` | their instances | done |

### CredentialRegistry

Variables are the contract's storage variables by name (`issuers` is `_issuers`
and so on) and `now`, the block timestamp. A mapping is total, zeroed at the
start. A call is one step (the EVM runs calls one at a time); a call that
reverts changes nothing, so it is a step not taken. `Anchor`, `AnchorBatch` and
`Supersede` inline `_anchor`; the batch loop is stated as what it does: it goes
through exactly if every element is non-zero, not anchored, and different from
the elements before it. Left out: events, issuer names (kept only as the
non-emptiness check), and the `uint64` width of timestamps, which block time does
not reach.

### AnchorPipeline

Actors are web requests (`Web`), runs of `anchor_pending` (`Retriers`) and runs
of `expire_offers` (`Sweepers`), any number of which may be concurrent. `job[w]`
is what a Python call holds on its stack: where it is (`pc`), the record object
it loaded, the row it created, the rows it still has to go through, the keys it
selected. **What was read earlier is used as it was read**: the retry loop uses
the record's status and the issuer's standing from when its queryset was
evaluated (`item.seen`, `item.mayIssue`), `_mark_failed_attempt` adds one to the
attempts of its copy, the expiry command updates the keys it selected.

A step is one thing the database or the node makes atomic:

| Code | Actions |
|---|---|
| `create_offer` | `CreateOffer` |
| `_lock_open_confirmation`, `_accept`, `_decline` | `LockOpenConfirmation`, then `Accept`, `AcceptConflicts` or `Decline` |
| `anchor_record` | `AnchorRefused` or `RecordAttempt`, then one of `SubmitAnchor`, `AnchorAlreadyOnChain`, `AnchorRejected`, `AnchorOutage`; after submission `AnchorReceipt`, `AnchorReverted`, `AnchorTimeout` or `AnchorPollFails`; then `MarkIssued` or `MarkIssuedConflicts` |
| `retry_pending_anchors` | `StartRetry`, then per row `VerifyOutage`, `Reconcile` or `Resubmit` (which goes through `anchor_record`) |
| `revoke_record` | `BeginRevoke`, then `SubmitRevoke`, `RevokeRejected` or `RevokeOutage`; `RevokeReceipt`, `RevokeTimeout` or `RevokePollFails`; `RevokeSave` |
| `expire_stale_offers` | `SelectStale`, `ExpireSelected` |
| `suspend_organization`, `reinstate_organization` | `SuspendOrg`, `ReinstateOrg` |
| the node | `MineNext`: the issuer key's transactions in nonce order, each run by the contract's own `Anchor` or `Revoke` |
| a process dying | `Crash`: its transaction rolls back, what it submitted lives on |

A submission that fails may have been accepted all the same: the client reports an
answer of the node that is lost like a node that cannot be reached
(`client.py:184`), so `AnchorOutage` and `RevokeOutage` leave the transaction in the
mempool or not (`SubmissionFails`). While the receipt is polled for only
`TimeExhausted` is caught: any other failure (`AnchorPollFails`, `RevokePollFails`)
goes past the service, and in a retry run it writes off the row the run came from.

Abstractions. A record's hash is identified with the record, since the canonical
payload holds the record's id. One organisation with one key is enough: nothing
in the pipeline relates two. A read followed at once by the write it guards, with
no client call in between, is one step. The nonce race of two processes is one of
the ways `AnchorOutage` happens. `limit` (50 rows a run) is larger than any
backlog here. `ensure_gas` swallows its errors; an unfunded key shows as
`AnchorOutage`. The early return of `anchor_record` for an issued record is not
an action: no caller reaches it while what is anchored stays anchored. Whether
the node names a custom error in its message is the constant `NamesReverts`.

### ConsentedPublication

The promise, with no request or transaction in it: asked once, answered once;
published only when confirmed and only once; withdrawn only on a recorded order;
reported as issued only what is public. `PublishesByConsent` in `AnchorPipeline`
is the refinement mapping: the answer is the confirmation row, what is public is
the contract's storage, an order is a revocation event, a report is the status
`ISSUED`.

### AuthSession

A step is what happens between two awaits. State by the names of
`auth-context.tsx`: `tokens` is `tokensRef`, `stored` is localStorage, `inFlight` is
`inFlightRefresh` (0 for null), `timer` is `refreshTimer`; `refreshes` are the
`POST /auth/refresh/` requests under way with who awaits each, `call` the
`apiFetch` calls of the page (and `me`, bootstrap's), `entering` the sign-in or
registration under way. A token pair is the user it speaks for and a number.

| Code | Actions |
|---|---|
| `requestRefresh`, `scheduleRefresh` | `Await`, `TimerFires`, `RefreshGranted`, `RefreshFailed` (with `Finally` and `Rearm`) |
| `apiFetch` | `SendCall`, `ReplyOk`, `Unauthorized`, `ReplyError` |
| bootstrap | `Load`, `MeOk`, and `Unauthorized` / `ReplyError` of `me` |
| `login`, `register`, `logout` | `SubmitLogin`, `SubmitRegister`, `AccountCreated`, `SignedIn`, `EntryFailed`, `SignOut` |
| `ProtectedRoute`, `app/page.tsx`, links | `Guard`, `LandingRedirect`, `FollowLink` |
| the server | `Expire`, `Deactivate` |

The server grants every refresh whose token has not expired, a deactivated
account's too: `RefreshView` is the library's view unchanged and does not look at
`is_active`; only an access token is refused for it (`Accepted`). So a tab that is
open stays signed in for as long as its timer fires, with every call refused;
`DeadSessionNotRestored` is about the next page load.

`overlap` is a history variable: since the page loaded, somebody signed in or out
while a refresh or bootstrap was unanswered. The code does go wrong then (see
below), and `SessionCoherent`, `OneRefresh`, `SessionKeptAlive` and
`DeadSessionNotRestored` exempt exactly these behaviours. `RedirectsLand` leaves out the step in which a
sign-in that is still under way finishes: it goes where its `?next=` says, also when
the landing page has meanwhile sent its user home, and the guard redirects once more.

### ConsoleData

Queries do not affect each other, so one of them, chosen at the start, is watched:
its data on the server is a version that every write touching it raises. What each
page of each console reads and may write, and what each mutation's `onSuccess`
invalidates, are tables translated from the pages and from `hooks.ts`
(`CitizenPages` ... `AdminPages`, `Layout`, `Invalidates`); `Touches` is what each
write changes on the server, of the answers the console reads: it is translated
from the serializers and querysets behind them, which show more than the table the
write goes to (an organisation its documents and plan, a link the number of its
records, a candidate the count of credentials issued, the ledger the node's block). Pages that are alike for the watched query are one.
The cache (`Mount`, `Invalidate`, `ReadArrives`) is react-query's, modelled from how
it is used; `Retry` and `staleTime` are `providers.tsx`'s. `known` is the newest
version whose write the user has had acknowledged. Exempt, by name: the pairs of a write and a
query it changes that its hook leaves out (`LeftOut` lists each), and an answer that was already under way and was
joined by the invalidation (`overtaken`).

### WalletGate

MetaMask (external) sends the page one stream, `inbox`, of answers and events, taken
in order; `installed`, `exposed`, `onChain`, `knows` are what it is, `ready`,
`address`, `chainId`, `hint` what the page believes. `Status` is the context's
`status`, `GateOpen` the gate's decision. `DetectFails` is a provider that throws: the
`Promise.all` is settled by the first failure, so an answer that arrives after it is
dropped (`DetectAnswer`). The second read of `connect`, `eth_chainId`, may fail as well
(`ServeConnectChain`).
`overtaken` names the two ways the page ends up wrong. A provider may also never
answer a read: nothing has a timeout, so the gate then detects for ever
(`StillSilent`).

### Forms

A behaviour is about one of eleven forms, opened, left and opened again. Each form
is a record of what distinguishes it: what its handler refuses to send, what it
sends, where success is shown, whether it clears the fields, whether a toast tells
it. `log` is every submission with what became of it on the server (`saves`) and
what the user was told. A filled form is abstracted to whom or what it is about and
to two boxes where these decide what may be sent (current job / end date; share all
/ some). `saves` counts what the server took; `leftover` says that a refused issue,
job or claim left its DRAFT, and its holder's account, behind: `_create_record`
commits before `_guard_duplicate` raises (`MayLeaveDraft`). `LeaveForm` is any unmount: a link, the gate closing, the session ending.

### Desks

Decisions on claims (`ClaimCard`), issued records (`RevokePanel`), organisations
(`OrganizationCard`) and offers (`OfferCard`). `seen` is what the list last fetched,
`status` what the server holds; colleagues decide too. The server's look at the
status (`Check`) and its write (`Record`) are two steps except for offers, where
`select_for_update` makes them one. A reason is abstracted to the item it was typed
for. `switched`, `raced` and `misled` name what the code lets through.

### PublicPages

One link, opened in several tabs. The server reads a share link once (`ServeShare`)
and counts the view from what it read (`CountView`); a confirmation is answered
under its row lock (`ServeConfirm`). `Phase` is what a tab makes of an answer.
Only the confirmation row is here: that the record behind an answered one may still be
written `EXPIRED` is `AnchorPipeline`'s (`expiry_race`).
`overlapped`: two views counted over each other; `unheard`: a tab lost an answer.

### Screens

The four modules above share no state (what they do share is in `AuthSession` and
`ConsoleData`), so a behaviour is about one screen and the others rest. This is a sum
of systems, not a product of their state spaces, and `Resting` keeps it so.

## Runs

Passing:

| Run | Instance | Shows |
|---|---|---|
| `registry` | 2 accounts, 3 hashes (symmetric), 2 timestamps, batches up to 3 with `MAX_BATCH` 2 | the six contract properties |
| `pipeline_faults` | 1 record, 2 requests (symmetric), 1 retry run, 1 expiry run, any 3 faults of all four kinds | `ConsentBeforeChain`, `DatabaseFirst`, `NoFalseClaim`, `AnswerIsFinal` |
| `pipeline_delivery` | 1 record, 2 requests, 1 retry run, any 2 outages, lost answers, timeouts or crashes, fairness (288 thousand states) | `NothingForgotten`, `AttemptsSettle` |
| `pipeline_pairs` | 2 records of one credential, 1 request, 1 retry run, 1 expiry run, 2 outages or timeouts, a node that does not name its errors | `PublishesByConsent` (refinement), `OneAnchorPerCredential` |
| `session` | a citizen and an employer's member, 1 concurrent call besides bootstrap's, 2 pairs, 2 refreshes at once, 1 reload | `SessionCoherent`, `OneRefresh`, `SessionKeptAlive`, `NoCallStranded`, `RedirectsLand`, `EveryVisitSettles`, `DeadSessionNotRestored` |
| `data` | every query of every console against every write, 2 writes in flight, 3 versions | `OwnWritesSeen`, `OwnWritesShown`, `EveryReadSettles`, `LedgerFollowed` |
| `screens` | 2 accounts, networks, subjects, items and tabs; 3 wallet messages on their way, 2 changes in the wallet, 2 prompts; 2 submissions, 2 visits; 2 decisions here and 1 by a colleague; a limit of 1 view, 4 requests | `BeliefMatches`, `GateSettles`; `SavedIsTold`, `ErrorIsHonest`, `WorkKept`, `ViewIsOfDraft`, `JobsFitTheConstraint`; `ReasonIsForIt`, `MovesAreLegal`; `ViewsAsAllowed`, `OutcomeIsTrue` |

Why the bounds are enough. Contract: two accounts are an issuer and a registrar
who may be the same, hand over, or suspend each other; three hashes give a
correction of a correction and a fork; two timestamps tell "before" from "at or
after"; batches one longer than `MAX_BATCH` meet the size check. Pipeline: the
races found and excluded all have two actors and one record, or two records that
share a dedupe key; three faults let a timeout, the crash of the retry that
follows it and a suspension between the two all happen in one behaviour. The
backlog stays finite because each extra row costs a fault or a concurrent run.
Session: the mixing of two sessions needs two users and a refresh that outlives
one of them; the first pair expires and its rotation is the second. Data: an old
answer, a write and a colleague's write are three versions; two writes let one
invalidation meet another's fetch. Screens: every property there relates one item,
subject or tab to another one, so two of each; one view allowed and two tabs are
enough to pass a limit; two submissions are a retry, two visits an answer that
arrives in another life of the form; two decisions from here and one of a colleague
reach every status and come back to one. Symmetry is used only in runs without liveness, over values (hashes, requests)
that are told apart by nothing but equality. `CHECK_DEADLOCK FALSE` is set where the system rightly stops: in the pipeline with
every offer answered and every job done, in the session and on the screens when the
model's bounds on loads, sends and decisions are used up. The data run checks
deadlock.

Violations. These runs check what a comment or docstring says and the code does
not do; PROJECT.json's findings quote the lines.

| Run | Documented | What happens |
|---|---|---|
| `expiry_race` | "Lapse offers nobody answered." | select, answer, update by key: an answered offer is set to `EXPIRED` |
| `revocation_undone` | "The off-chain revocation stands" | `mark_issued` of a request still running overwrites `REVOKED` |
| `revocation_offchain` | "the retry command reconciles it" | nothing reads `RevocationEvent`; the chain never learns |
| `claim_filed_twice` | "the backend would reject the duplicate anyway" (`app/citizen/claims/new/page.tsx:77`) | a claim under review has no dedupe key and `PENDING_REVIEW` is not a live status: sent again, it is taken again |
| `lost_timeout` | "the record stays PENDING_ANCHOR and the retry command finishes the job" | after a timeout, or a lost answer, it resubmits before the first transaction is mined; both rows end `FAILED`, the record stays `PENDING_ANCHOR` |

Other disagreements between code and comments, visible in the modelled actions
and left without a run of their own. On the way to the chain: a retry opens a row with `attempts = 1`, so
`MAX_ANCHOR_ATTEMPTS` bounds nothing (`RecordAttempt` against `Retryable`); the
expiry race frees a dedupe key while its record is being anchored (the exemption
in `OneAnchorPerCredential`); a retry run that overlaps a live request can leave
an issued record with `FAILED` rows only (`Raise` writes from a stale copy);
`AlreadyAnchored` is recognised by its name in the message while `_decode_revert`
says nodes send selectors (`NamesReverts`); a process that dies after the consent
and outside the row's `PENDING` window leaves a record that no run retries, although
`retry_pending_anchors` "reconciles records stuck in PENDING_ANCHOR": before its first
row there is no row, and between confirming the row and marking the record
(`services.py:192-193`) the row is `CONFIRMED`, which is not selected.

In the consoles:

- A refresh that outlives a sign-out stores its pair all the same, and one that
  outlives the next sign-in replaces that user's pair by the old one's; a call
  refused meanwhile is sent again with whatever `tokensRef` holds
  (`auth-context.tsx:182-215`; exempted as `overlap`).
- `client.ts:67-69` says the refresh answers null "when the session is genuinely
  over"; any failure of it, the network's too, does, and ends the session.
- `register` reports "Could not create the account." also when the account was
  created and only the sign-in that follows failed (`AccountCreated`, `EntryFailed`).
- The query cache is not cleared at sign-out: the next user of the tab sees what
  the last one's queries left until they are asked again.
- `hooks.ts`'s header says that accepting refreshes the access log; the mutation
  does not. A change of plan and a new document do not refresh the organisation,
  answering an offer not the share links, endorsing a claim, a batch and a revocation
  not the candidates' counts, a look-up and a change of plan not the activity list:
  what is on the screen is old until the query goes stale and is mounted again
  (`LeftOut`).
- Editing either field of the profile seeds both from the cache, though
  `app/citizen/profile/page.tsx:36-42` says untouched fields follow the server: the
  other one is then sent back as it was.
- The wallet: an event between the two answers of the mount's `Promise.all` is
  overwritten by them; a disconnect between `connect`'s two awaits is remembered as
  a connection (`overtaken`); `accountsChanged` after a local disconnect connects
  again; signing out does not disconnect.
- The revocation panel has no key, so its reason goes along when it is opened for
  another record (`switched`).
- A registrar whose list is old may approve what a colleague rejected, or reject what
  is on the ledger: the server refuses only what is already approved (`misled`,
  `raced`). `apps/organizations/services.py:103` says of the second that "it was never on it".
- Concurrent views of a share link are counted once (`overlapped`).
- An issue, a job or a claim that is refused as a duplicate leaves a DRAFT in the
  issuer's history, which nothing removes (`MayLeaveDraft`); the duplicate guard does
  not count it.
- The tab of a deactivated account refreshes its session for as long as it is open.
- A wallet that does not answer keeps the gate at its spinner (`StillSilent`).
- A confirmation whose answer was lost is shown as a link that is no longer valid
  (`unheard`); a shared passport that could not be fetched is shown as gone.
- The batch upload sends the new file while the preview still shows the last one
  (`FileRead` after `Submit`); a verdict stays beside a file or number that was
  changed after it (`typed`); a provisioned account whose answer is lost keeps a
  temporary password nobody saw.

## Fairness

The pipeline's `FairSpec` assumes: a process that is in the middle of a job goes on with it
(weak fairness on its steps; a crash is not prevented by it); an answer that
holds the row lock is committed or rolled back; `anchor_pending` is started again
while there is a backlog (it is a cron job); a submitted transaction is mined; a
suspension is lifted. Nothing is assumed of users: offers may stay unanswered,
revocations may never be asked for. Faults are bounded in number, so the node is
reachable in the end: this is what "finishes the job later" presupposes.

What the code then keeps is `AttemptsSettle`: once an attempt has a row, every
attempt is settled in the end and the hash is on the chain (or the record revoked),
through outages, lost answers, timeouts and crashes. What it does not keep is
that the database says so: the record itself may stay in `PENDING_ANCHOR`
(`ConsentIsAnchored` in `lost_timeout`; a crash between the row's confirmation and
`mark_issued` does the same).
Nor does it keep a record whose process died after the consent and before its first
row, which `NothingForgotten` names (`CutShort`), nor one whose issuer was suspended
in that gap, for `IssuerNotApproved` is raised before there is a row to retry:
suspension is therefore not among this run's faults.

In the consoles, people owe nothing: no fairness on any click. `AuthSession`: a
request is answered or fails (browsers time out), an armed timer fires, effects run.
`ConsoleData`: the same, and the poll's timer fires; only for the ledger's query a
node that is asked for ever answers in the end (strong fairness on its answers),
since nothing follows a chain whose every answer fails. `WalletGate`: the page takes
the messages that have arrived, and without a provider detection settles by itself
(weak fairness on `Receive` and on `DetectFails` when none is installed). Nothing makes
a provider answer, a read or a prompt: `GateSettles` says that the spinner stays for
ever only while a read of the mount is unanswered for ever.

## Proofs

### The contract

`CredentialRegistryProofs` proves, with the TLA+ proof system, that every property
the `registry` run checks holds for every set of accounts, hashes and texts, every
batch limit and every last timestamp. The only assumption is `RegistryAssumption`:
the zero values are not real ones, the deployer is an account, the limits are
positive.

| Theorem | States |
|---|---|
| `RegistryTypeOK` | `Spec => []TypeOK` |
| `RegistryAppendOnly` | `Spec => AppendOnly` |
| `RegistryRevocationExplained` | `Spec => []RevocationExplained` |
| `RegistryIssuedInGoodStanding` | `Spec => []IssuedInGoodStanding` |
| `RegistryIndexExact` | `Spec => []IndexExact` |
| `RegistryCorrectionsResolve` | `Spec => []CorrectionsResolve` |

The argument. The inductive invariant is

    TypeOK /\ ClockAhead /\ IndexExact /\ CorrectionsResolve
           /\ RevocationExplained /\ IssuedInGoodStanding

and each conjunct is proved inductive relative to the ones it needs, so that each
theorem stands alone:

- `ClockAhead` (every date in storage is at most `now`) is the strengthening
  `RevocationExplained` and `IssuedInGoodStanding` need: without it a record dated
  in the future could be revoked before it exists, and an anchor could follow the
  suspension that is set now. TLC confirmed it before it was proved.
- `IndexExact` is split into its anchor half and its issuer half. Both rest on two
  lemmas about sequences (`AppendIndex`, `ConcatIndex`): appending new elements adds
  exactly these and repeats none. The batch's `Distinct` guard, which is the
  contract's in-loop check, is what the second one needs.
- `CorrectionsResolve` needs the anchor half of `IndexExact`: a link's target comes
  later in the index, so it is anchored, so it is never the fresh hash a new
  correction writes - hence no two links share a target. `AppendOnly`'s step gives
  that the order of index entries, and the issuer of a target, never change.

The layout: one `...Effect` lemma per contract function says which entries it writes
and how (the actions are opened there only); `Steps` splits `[Next]_vars`; each
`Next...` lemma has one step per call.

### The pipeline

`AnchorPipelineProofs` proves every safety property the pipeline's runs check, and
the refinement, for any number of records, credentials, requests and command runs,
and for any number of faults of all four kinds (`MaxFaults`, `MaxAttempts` and
`NamesReverts` are arbitrary). The assumption is `PipelineAssumption`: every record has a
credential, the special values are none of the real ones, the bounds are numbers.

| Theorem | States |
|---|---|
| `PipelineTypeOK` | `Spec => []TypeOK` |
| `PipelineConsentBeforeChain` | `Spec => []ConsentBeforeChain` |
| `PipelineDatabaseFirst` | `Spec => []DatabaseFirst` |
| `PipelineNoFalseClaim` | `Spec => []NoFalseClaim` |
| `PipelineOneAnchorPerCredential` | `Spec => []OneAnchorPerCredential` |
| `PipelineAnswerIsFinal` | `Spec => AnswerIsFinal` |
| `PipelinePublishesByConsent` | `Spec => PublishesByConsent` |
| `PipelineForgetsNothing` | `StandingKept /\ Spec => []NothingForgotten` |

The argument. None of these is inductive, because a step is taken on what a worker
read earlier. `Inv` says what each worker relies on at each of its steps
(`WorkerOK`): that the record it anchors is confirmed, that the row it will write to
is the row of that record, that a record it will mark is anchored. What makes these
survive the steps of all the others is that every such fact only grows - a
confirmation, an anchor, a revocation, a row and its record are never taken back -
which is `Grows`, and `OthersKeep` is the lemma that uses it. So each action is
looked at for its own worker only. Two parts are not monotone and need an argument
of their own:

- `AnsweringOK`: an offer being answered is open and is being answered by one worker.
  It is the row lock that keeps it; without it (`LockOpenConfirmation_NoLock`)
  `AnswerIsFinal` fails.
- `LinksOK`: a transaction someone waits for belongs to the step they are at, and they
  wait for no other. Hence a receipt is never about another record or another call, which
  is what `NoFalseClaim` rests on. `Abandon` keeps it when a worker times out or dies.

Consent and rows meet in `OnChainHasRow`: whatever is on the chain or on its way has
a row, and rows are only made for confirmed records. `OneAnchorPerCredential` needs a
second, small invariant (`KeysOK`): the live statuses respect the unique index, and a
confirmed record leaves them only as `EXPIRED`. For the refinement, `StepsSeen`
names the eight ways a step can show outside, and `StepPromise` maps each to a step
of `ConsentedPublication`. TLC checked `Inv` on the instances of `pipeline_faults` and
`pipeline_pairs` before it was proved.

`PipelineForgetsNothing` is the safety half of `AttemptsSettle`. `StandingKept` assumes
that nobody is suspended and that a row has more than the two attempts one failure
counts (the code's `MAX_ANCHOR_ATTEMPTS` is 5); outages, answers of the node that are
lost, polls that fail, timeouts and crashes may come in any number. Then a record in
`PENDING_ANCHOR` always has a worker bringing it to its anchor, or a row that
`anchor_pending` will select, or its hash is on the chain already, or it is the one whose
process died before its first row. The code writes rows off in several places, and
the theorem needs that each of them is the right one. `Served` says why:

- an attempt is refused, or reverts, only because the hash is there already
  (`InGoodStanding`, `SecondsOnly`): nobody is suspended;
- as long as the hash is not there, the youngest row of a waiting record is open
  (`Open`): what a run writes off is the row it came from, and it has opened a newer
  one by then (`NewerRow`);
- a status read earlier errs in one direction: a record that waits now was seen
  waiting (`Informed`), because a consented record never comes to wait again. So a retry
  run that writes a row off, or that confirms one and does not mark its record, does so
  for a record that waits no longer.

The exemption for a hash that is on the chain already cannot be dropped: such a record
may be `PENDING_ANCHOR` for ever (`lost_timeout`, or a crash before `mark_issued`). `Served` was checked
by TLC on the instance of `pipeline_delivery` before it was proved.

### The public pages

`PublicPagesProofs` proves the two properties of the public pages for any number
of tabs, any number of requests and any limit on views: `PublicViewsAsAllowed`
(`PublicSpec => []ViewsAsAllowed`) and `PublicOutcomeIsTrue` (`PublicSpec =>
[]OutcomeIsTrue`), with their types and counters (`PublicTypesCorrect`). The assumption
is that the two bounds are numbers. The first theorem rests on `ShareInv`: what a
request was let through for is decided when it reads the link, so it carries it until
its answer arrives; and the counter is exactly what was given out for as long as no two
views were counted over each other. The second rests on `ConfirmInv`: an answer on
its way already says what the server holds, and the server never changes it again. The
types need `Budget`: every view given out is of a request of its own, so the views
given and the requests still waiting are together no more than were made.

### The desks

`DesksProofs` proves both properties of the desks, for any number of items, of
decisions sent and of decisions of colleagues, without an assumption on the constants:
`DesksReasonIsForIt` (`DesksSpec => []ReasonIsForIt`) and `DesksMovesAreLegal`
(`DesksSpec => MovesAreLegal`). The first rests on `ReasonInv`: a card holds only its
own reason; the one revocation panel, as long as it was not moved, is open on at most
one record, and a reason is in it only while it is open on the record it was typed for
(`PanelsHold`); a request keeps the reason it was sent with, whatever becomes of its
card (`RequestsHold`). The second rests on `Granted`: a request let through carries a
status its act is not refused in, and a card that showed a status offered the act in
it. `LegalMove` then goes through the desks one by one; only for organisations are the
server's guards not enough by themselves, which is why the property leaves out
decisions taken from a card that no longer showed its status.

### The forms

`FormsProofs` proves the five properties of the forms that hold, for any number of
subjects, submissions and visits: `FormsSavedIsTold`, `FormsErrorIsHonest`,
`FormsViewIsOfDraft`, `FormsJobsFit` and `FormsWorkKept` (the sixth, `ClaimFiledOnce`,
does not hold: see `claim_filed_twice`). The assumption is `FormsAssumption`: blank is
no subject, and a form may be opened once at least. The inductive invariant `FormsInv` says of each submission what the server
did with it, that its user was told once it is over, and that on the screen it was sent
from the fields still hold it for as long as nothing was typed (`EntryOK`); that an
error shown is of a submission that is over and was not taken, or whose answer was
lost (`ErrorOK`), and a DRAFT was left by an issue, a job or a claim only (`LeftOK`); and that a result shown was saved on this very visit (`ShownOK`).
The button that is disabled while a request is under way is what makes it inductive:
when another submission is sent, no older one is left that could answer about it. TLC
checked `FormsInv` with two subjects, three submissions and two visits before it was
proved. `Pages` collects what the eleven screens do with an answer, so that they are
told apart in one lemma only.

`FormsTypeCorrect` adds the state's shape (`Fits`: what is shown, and the error, belong
to a submission there is). `DesksTypeCorrect` does the same for the desks, where the
part that is not obvious is `OneHere`: a card that was closed, filtered away and
opened again still has at most one decision under way.

### The session

`AuthSessionProofs` proves the six safety properties of the session for any users with
any roles, any number of calls at once, of reloads, of token pairs and of refreshes at
once. The assumptions are `SessionAssumption` and `ConsoleAssumption`: everybody has a
role and a kind of organisation or none, the special values are none of the real ones,
and there may be one refresh at least.

| Theorem | States |
|---|---|
| `SessionTypeCorrect` | `Spec => []TypeOK` |
| `CallsAreWokenUp` | `Spec => []NoCallStranded` |
| `SessionIsCoherent` | `Spec => []SessionCoherent` |
| `RefreshesOnce` | `Spec => []OneRefresh` |
| `SessionIsKeptAlive` | `Spec => []SessionKeptAlive` |
| `RedirectsLandProperly` | `Spec => RedirectsLand` |

The argument. That no call is stranded rests on the types alone: whoever waits is on
the list of a refresh, and its answer, granted or failed, wakes the whole list. The
next three are one statement, `Agreement`, about the places a session is kept in:
`tokensRef` and localStorage hold the same pair; the refresh in flight, if any, is the
only one and is of that pair; and, by status, what else may be going on - while the
page loads, bootstrap is at exactly one of three points (`Booting`); signed in, the
timer is armed or a refresh that will re-arm it is under way (`SignedInWell`); signed
out, nothing is (`SignedOutWell`). `SessionCoherent` alone is not inductive: the answer
to a refresh of another pair than the one held would break it. `Agreement` is
kept until somebody signs in or out over an unfinished request, which is what
`overlap` records: `SessionInv == Typed /\ NoCallStranded /\ (~overlap => Agreement)`,
which TLC checked on the instance of `session` first.
`RedirectsLand` rests on `HomeInPlace`: for every role and kind of organisation,
`homeFor` names a console whose guard admits its user. Trying the proof showed that an
earlier form of the property was false; TLC found the behaviour with three token pairs,
and it is the sign-in described under AuthSession.

### The cache

`ConsoleDataProofs` proves, for any number of versions and of writes in flight,
`DataTypeCorrect` (`Spec => []TypeOK`) and `OwnWritesAreSeen` (`Spec =>
[]OwnWritesSeen`); the assumption is that the bounds are numbers (`BoundsAssumption`).
The second rests on one fact about the tables, `EveryWriteCovered`: for every write of
every console, each query it changes on the server is under one of the prefixes that
its hook invalidates, but for the pairs `LeftOut` lists. `OwnWritesSeen` alone is not
inductive: an answer that was read before a write would break it on arrival.
`AnswerFresh` says that an answer under way that no acknowledged write has overtaken is
not older than any of them.

### The wallet gate, and the screens together

`ScreensProofs` proves `GateTypeCorrect` and `GateBelievesWhatIsSo` (`[]WalletTypeOK`
and `[]BeliefMatches`) for any accounts and networks, any number of changes in the
wallet and any length of the stream. The assumption is `WalletAssumption`: the configured
chain is one, the special values are none of the real ones, the bounds are numbers.
`BeliefMatches` speaks of an empty stream and is far from inductive. What is: whatever
the page believes of the account (or of the network) is so, unless an event about it is
on its way (`Beliefs`), and the last such event on its way says what MetaMask has now
(`Queue`, with `LastSays`); at most one answer to `connect` is on its way, to the step
that waits for it (`ConnectOrder`); the mount asks for nothing else before it is
ready (`MountFirst`). A lemma per way a stream may change (append one or two messages,
take the first) keeps the sequences out of the actions' proofs. TLC checked `WalletInv`
first, on a larger instance than the run's (658,732 states).

`ScreensAreTheirParts` then says that `Screens`, the specification TLC explores,
implements each of its four parts: every step is one of one part, and the others
stutter. So `ScreensTypeCorrect` and `ScreensKeepTheirWord` give every safety property
of the `screens` run for that very specification, from the theorems of the parts.

### Only model-checked

Every invariant and every action property that a passing run checks is proved. What
stays with TLC is liveness, since neither fairness nor `ENABLED` is within the prover's
reach: `AttemptsSettle`, `EveryVisitSettles`, `DeadSessionNotRestored`, `OwnWritesShown`,
`EveryReadSettles`, `LedgerFollowed`, `GateSettles`. So do the five properties that do
not hold, of which TLC shows a counterexample.

## Not modelled, and why

Out of what a state machine would tell anybody: layout, formatting, badges and the
generated API types; serialisers, pagination, throttling (framework configuration);
e-mail (sent after commit and forgotten); seeding and deployment scripts. Audit
events are written beside each operation and never read back by one.

Left out of the modules that are there:

- `AnchorPipeline`: the CSV import, whose rows and batch anchor share one database
  transaction; `chain_sync` and its `--repair`; the nonce lock inside the client;
  the creation and storage of custodial keys; several organisations.
- The consent gate: resending a link while the old one is being redeemed, and the
  three transactions of `issue_record`.
- Claims: concurrent endorsement and rejection on the server (their pages are in
  `Desks` and `Forms`).
- The verification engine's decision and the verification quota on the server; what
  an account is bound to.
- The consoles: other tabs of the same browser (they share `localStorage`), the back
  button, fields that hold only blanks, a double click inside one render.

Hazards that fall in these are listed in `PROJECT.json` with the reason no property
covers them.

## Plan

Done: the contract and its theorems; the pipeline, its theorems and its refinement;
the browser's session, cache, wallet, forms, desks and public pages; the theorems of
all of these, and of the screens together.

Left, in order of what matters most:

1. `ConsentGate`: tokens, resend, expiry and the three transactions of
   `issue_record`; abstract: a link that works at most once.
2. `ClaimReview`: claim, guard, endorse, reject by concurrent staff; property: a
   rejected claim is not anchored, one live record per key.
3. `BatchImport`: rows, per-row savepoints, the batch anchor inside the
   transaction, commit or rollback; property: anchored hashes have records.
4. `IssuerOnboarding`: approval chain-first, key creation, timeouts, suspension
   and reinstatement against the contract; property: who may issue in the
   database may issue on the chain. `ChainSync` on top: repair converges.
5. `VerificationOutcome`: the decision as an operator over database and chain
   states, checked against the documented precedence. `QuotaMeter`: a
   check-then-act counter against its bound.
6. `NonceLock` (client), `SubjectBinding` (accounts).
7. The safety halves of the browser's liveness properties: that a page that loads,
   and a gate that detects, always has an answer coming.
