# dojo-signer: a verification project

TLA+ models of the dojo-signer app (Rust, `src/src/*.rs`), the TLC runs that
check them on small instances, and TLAPS proofs of what matters most for every
instance. `PROJECT.json` maps each definition to the lines it stands for and
lists runs, mutants, hazards, findings and theorems.

dojo-signer runs on a Passport Prime (build `keyos`) or, for development, on an
ordinary host ("hosted"). It signs coinjoins pushed by a companion, sends from a
single-sig BIP84 wallet to addresses and BIP47 payment codes, and keeps an n-of-n
MuSig2 vault whose devices talk only by showing and scanning QR codes.

Contents: 1 inventory, 2 modules, 3 runs, 4 proofs, 5 what the code gets wrong,
6 what is not modelled, 7 plan, 8 how to run it.

## 1. Inventory

### Threads, handlers, tasks

One UI thread runs everything that is not blocking: Slint callbacks
(`global.on_*`), to completion, and tasks (`spawn_local`) from one `await` to the
next. Blocking node and relay calls go to worker threads by `run_blocking`
(main.rs:526); the vault's balance scan has a thread of its own (main.rs:3699).
State shared between them is in statics (main.rs:60-82) and in `config.json`,
which is loaded and saved whole, without a lock.

### Components

| component | code | state | operations |
|---|---|---|---|
| Vault setup | vault.rs `VaultConfig`, main.rs:122-147, 2301-2366 | `VAULT_CONFIG`, scanned codes, `vault_participants` in config.json | show and scan participant codes, BUILD VAULT, restore at boot |
| Vault spend ceremony, R1 to R4 | vault.rs `VaultSpend`, `VaultTx`; main.rs:2612-3146, 3342 | `VAULT_SPEND`, `VAULT_TX`, `vault_sig`, `vault_signed_tx` | new spend, send, nonce, session, sign, the four scans, finalize, broadcast |
| Threshold ECDH, R0 | vault.rs:210-270, main.rs:2660-2761, 3159-3338 | `VAULT_PENDING_SEND`, `VAULT_ECDH_SHARES`, `bip47_indices` | start a send to a payment code, scan a share, finish |
| MuSig2 arithmetic | musig.rs | none | key and nonce aggregation, tweaks, sign, verify, aggregate |
| Vault balance and addresses | main.rs:2555-2610, 3695-3886 | `VAULT_UTXOS`, `vault_receive_index`, the balance on the screen | hand out an address, refresh on a thread or a task, clear, pick the largest coin |
| Configuration | main.rs:287-497 | `config.json` | load, save; a dozen writers |
| Credentials at rest | cred.rs, main.rs:412-497, 1900-1975 | `password`, `password_enc` in config.json | CONNECT, encrypt at save, decrypt at boot |
| BIP47 and plain sends | main.rs:1165-1261 and the builders 788-1160 | config.json, the coins a node reports | notify, build, broadcast, take the index |
| Coin choice and amounts | main.rs:788-1051, vault.rs:796-874 | none between calls | greedy choice, fee, change, dust |
| Coinjoin queue | main.rs:1976-2238, coinjoin.rs | `PENDING_PSBT`, `PENDING_SIGNING`, the mix status | push, APPROVE, REJECT, sign and send again until answered |
| Home screen | main.rs:148-180, 545-735, 3460-3650 | the screen | balance, transaction list and pool statistics, fetched by threads and shown; PROBE saves a relay |
| Relay, Electrum, tracker | relay.rs, electrum.rs, track.rs | none that is read back | one request, one answer; the tracker is a best-effort POST /track_address to a local bwt |
| BIP47 codes | bip47.rs | none | parse, derive, blind |
| Messages, UTXO list, UI | message.rs, utxo.rs, ui/ | the screen | verify a signature, format |

### How they interact

* QR codes carry a device's nonce, session, partial signature or ECDH share to
  the others. They can be scanned late, twice, in another order, or during
  another send. A QR says little about what it belongs to: the share QR has
  neither vault, recipient nor index, the session QR not the taproot flag.
* All sends, vault and single-sig, take BIP47 indices and change indices from the
  one `config.json`; `send_bip47` keeps its copy over two broadcasts.
* A vault send joins three components: R0 finds the address, the transaction
  builder makes `VAULT_TX` from a discovered coin, the ceremony signs it.
* A balance scan works on a copy of the vault and replaces `VAULT_UTXOS` when it
  ends, whatever happened to the vault meanwhile; sends pick from that set.
* Every save moves the node's password from its plaintext field to its envelope,
  so every writer of the file is a writer of the credential.
* The companion pushes PSBTs while earlier approvals are still being sent.

### What is hard, and what makes each component correct

* Ceremony: order and repetition of scans, a nonce regenerated or a vault rebuilt
  between two rounds, a session adopted from another spend. Correct: R4 accepts
  only what every participant signed, a message keeps its child index, BROADCAST
  sends what R4 showed.
* R0: every device takes the index from its own file. Correct: a payment counts
  one share of each participant, among them one of the device's own for this very
  send, the recipient can derive the address, and its index stays taken.
* Arithmetic: keys, tweaks and nonces of either parity, carries out of 32 bytes,
  lists of keys in another order. Correct: what all sign verifies, a partial
  signature verifies for its signer and session only, shares add up to the secret.
* Setup and balance: devices scanned twice, scans that end after a clear or a
  rebuild, queries that fail. Correct: the keys that sign are the ones aggregated,
  a clean scan is exact, a picked coin is one the vault can spend, the screen and
  the set agree once nothing runs, every scan ends.
* Configuration: lost updates, restarts and lost answers between any two steps.
  Correct: counters never fall behind what was settled, a BIP47 index is taken
  only by a payment, no address is used twice.
* Credential: saves that overlap or are cut short, a security server that does not
  answer. Correct: no save writes a password in plaintext, the next start shows the
  last password or none, the file parses at rest.
* Coin choice: the fee rises with each coin, sums saturate. Correct: amounts add
  up, "insufficient" is said only when it is true, the two transactions of a first
  contact spend different coins.
* Coinjoin queue: a push between reading the screen and pressing APPROVE, answers
  lost, approvals overtaking each other. Correct: what is signed is what was
  shown, once per push; a signed request arrives; a rejected one does not leave.

The 36 hazards of `PROJECT.json` name these at their lines, with the properties
that would notice, or the reason none does. A few are
what a violation run shows (section 5).
Where a passing property has to exclude the hazard's own event to hold (a refresh
that overlaps another, a vault replaced, a query that failed, a key not available),
it is not listed as covering it.

## 2. The modules

| module | models | shape |
|---|---|---|
| `VaultSigning` | what the vault promises: a statement is released only once all its signers approved it, and settles only once released | abstract specification |
| `VaultCeremony` | R1 to R4 on any number of devices | one action per handler, the QRs shown so far as growing sets |
| `VaultEcdh` | R0 on any number of devices and recipients | the same |
| `Musig`, `VaultKeys` | the arithmetic under both: musig.rs, and what vault.rs makes of it | operators over a group of prime order; the inputs one after the other |
| `VaultDiscovery` | one device's setup, addresses, balance scans and picked coin | one action per handler and per step of a scan |
| `AppConfig` | every writer of config.json: handlers, send tasks, hosted workers, restarts | load and save are separate actions |
| `NodeCredential` | the password and the bytes of the file under those writers | a save is write, then cut |
| `SpendAmounts` | u64 arithmetic of amounts, fees, change | operators |
| `CoinSelection` | the coins of a hosted send: notification, then payment; and a vault's single coin | one action per stage of the builders |
| `CoinjoinQueue` | the approval queue, tasks and link | one action per stretch between awaits |
| `MC...` | small instances for TLC | constants, symmetry, scenarios |
| `FoldTheorems` | induction over numbers, finite sets and folds, sums over sets | lemmas |
| `...Proofs` | theorems | extends the module and TLAPS; `VaultKeysProofs` is about `VaultEcdh`, `Musig` and `VaultKeys` |

### VaultCeremony

`spend[d]` is `VAULT_SPEND` of device d, `tx[d]` `VAULT_TX`, `sig[d]` the
verified signature, `signedTx[d]` what R4 put on the screen. `nonceQrs`,
`sessionQrs` and `psigQrs` are the payloads ever shown; a scan takes any of them.
A handler holds `VAULT_SPEND` from start to end, so it is one action. A failed
handler that changes only an error text is not a step.

The cryptography is symbolic. A key is its device, a nonce its device and the
number of the draw, a sum of nonces the function that counts each of them, a
partial signature its signer, nonce and session. It verifies against exactly
these, and a sum of partial signatures verifies exactly when each key and each
nonce of the session contributes once; `VaultKeys` checks that the arithmetic does
that. `finalize` is modelled as the code does it, including the triple a device
adds for itself and the one that may have been scanned under its own key, the
per-partial check and the final check against the vault the device has *now*.

`VaultSigning` is refined by `approvals` = partial signatures shown, `released` =
signatures R4 accepted, `settled` = transactions the network took. The network is
external: it takes a signature of the transaction's own message by the tweaked key
it spends.

`MCVaultCeremony` runs two scenarios, chosen at the start. "pair": d1 and d2, one
transaction and one authorisation, every handler at any time. "three": d1
coordinates the ceremony of three devices.

### VaultEcdh

A share is the point `k_d * B_i`: which device, in which vault, for which
recipient and index. `ScanShare` keeps the first share of a key; `Finish` reads
the index anew (main.rs:3240), saves the next one, and may or may not find a coin.
Both ends of the round clear the pending send. Sums of the wrong points are taken
to be no recipient's secret.

The counters are those of config.json, which the single-sig wallet writes too.
`held[s]` is the copy that a running `send_bip47` (main.rs:1171), or a hosted
builder's worker (main.rs:835), loaded; `SingleSigSave` writes it back whole, a send's
with its own recipient's index taken (main.rs:1245), so every other recipient's counter
is what it was at the load; `SingleSigFails` saves nothing. A handler of the UI thread
loads and saves without another between (only a worker's save may be, which the
handler then overwrites: for the counters, as if the worker had saved first), so
`Finish` is one step. History: `early`, the sends and
workers under way since before the payment a device is making, and `putBack`, that one
of them has saved since.

### Musig and VaultKeys

A point is its discrete logarithm, so a secret key and its point are one number; x
and parity are those of a group in which P and -P share x. The order and the width
of 2^256 are constants; 11 and 16 keep the ratio that one subtraction reduces a
hash, and let sums carry. What a hash gives is an input, any value of the width.
`TweakOnce`, `SessionValues`, `Sign`, `PartialSigVerify` and `PartialSigAgg` follow
the functions of musig.rs with their error cases; `Tweaks`, `MakeSession` and
`Finalizes` those of vault.rs. `KeySort` gives an order with no key after a larger
one, which fixes the result (`SortAnyOrder`, section 4). `given` takes every input within
the bounds.

In the code's group a product is 0, or a sum at infinity, for one hash in 2^256;
in a small one it happens, and the code then returns an error. `Degenerate` names
the ways: the key or its tweaks, the nonce at infinity, the nonce coefficient 0 (so
that b.R2 has no key, musig.rs:625-628), a nonce, a share or a partial signature
that is 0.

### VaultDiscovery

`collected` are the codes scanned, `vault` is `VAULT_CONFIG`, `stored` the list in
config.json. `scan[t]` is a running refresh with the vault it was started for, the
index it asks next and what it found: `Query` once per index, which may fail,
`Store` to replace `VAULT_UTXOS`, `Post` to the event loop, `Show`. On the device
the last two follow without a step between them, on a hosted build the thread and
the UI interleave. `Restart` keeps the file only. The chain is external, and every
coin, paid to either kind of address, may be paid and spent at any time. `fresh`,
`overlap` and `rebuilt` are history: they name the circumstances in which the code
can be right at all.

### AppConfig

`ui` is the one handler of the UI thread with the configuration it loaded;
`send[s]` a send task with the configuration `send_bip47` loaded at its start
(main.rs:1171) and what its worker thread loaded (main.rs:836). A save writes the
whole record. The node, the coins and the relay are free to answer anything; the
network may take a payment and the answer be lost (`Deliver` then `PayFails`).
`quiet` is the file when nothing last ran. `hosted` and `vaultSends`, fixed from
the start, choose the build and whether the vault's own sends take place;
`FreshFile` starts without a file. "settings" stands for the writers that change
no counter: node, relay (also its probe), pool.

### NodeCredential

The same writers, of which only the password matters here. A save is `Write`, which
leaves the tail of a longer file, then `Truncate` at the length written; `WriteCut`
and `Restart` end it between. `disk.length` and `whole` say whether the bytes parse;
a file that does not is loaded as the default. `ProtectNodePassword` moves the
password to its envelope, or drops it when the key is not available. History:
`last` (the password last connected with), `lapse`, `disturbed`.

### SpendAmounts and CoinSelection

The builders ask the node for the coins twice; each answer is any subset, because
failed queries are skipped and the node may not have seen the notification.
Constants stand for 2^64 - 1, 546 and the sizes in virtual bytes, so that TLC
reaches saturation and dust with small numbers, and the proofs cover the real
ones. `VaultBuild` is the amount part of `VaultTx::build` on one coin.

### CoinjoinQueue

A request stands for its bytes and for what is parsed from them; `Valid` are those
that parse. The mix id is `hex_short` of the PSBT's first bytes (main.rs:3435),
so several requests may share one; `MixId` is a constant. `Unanswered` is the loop
of main.rs:2061-2067, which yields and sends again for ever.

## 3. The runs

All pass runs exhaust their state space. `CHECK_DEADLOCK FALSE` is set only for
`Ceremony` and `CoinsSend`, whose behaviours end (no restart in "three" and in the
send).

| run | question | instance |
|---|---|---|
| `Ceremony` | Does R4 accept only what all signed, do message and index stay together, does BROADCAST send what R4 showed, does the ceremony implement `VaultSigning`? | "pair": 2 devices with every handler, rebuild and restart, 1 transaction, 1 authorisation, two spends of d1, one of d2, a nonce each. "three": 3 devices, d1 may rebuild its vault with or without d3, d2 may draw a second nonce. 129 429 states |
| `Config` | Can a stale save reach behind the last quiet file? Is an index taken only by a payment? | a hosted build with the vault's sends beside one send, workers and handlers racing; a device with two sends to two recipients; 1 691 723 states |
| `Credential` | Does a save write plaintext, does a start show an old password, does the file parse at rest? | 2 passwords, 3 loads not yet saved, 2 file sizes, both builds, every cut; 820 301 states |
| `Discovery` | Is a clean scan exact, is the picked coin spendable, do screen and set agree at rest, does every scan end? | codes a, another of a's, b, c; a coin of the first vault and one of the vault that replaces it, 2 watched indices, 2 scans at a time, both builds; 283 094 states; liveness |
| `EcdhTwo` | Does a payment count the device's own share for this very send, who can be left out of it, and what can put its index back? Is the arithmetic right? | chosen at the start: one vault of 2 devices, 2 recipients, 3 shares in circulation, a single-sig send or worker on either device with the copy it loaded; 3 devices, vaults that share d2, which collects, rebuilt at will; 3 keys and nonce pairs of both parities, hashes below the order, above it, and the order itself (which reduces to 0), vaults of 2 and 3. 754 669 states |
| `CoinsSend` | Is the greedy choice right, up to saturation? Is a vault's transaction? | 4 coins of 5 values, among them sums that saturate, 6 amounts, 4 fees, u64 of 21; 206 058 states |
| `CoinjoinApproval` | Is what is signed what was shown, once per push, under its own mix id, and does it arrive? | 3 requests, one malformed, one pushed twice, 2 approvals in flight; liveness |
| `CeremonyAdopted` | violation of `SignedTxIsSpendable` | see section 5 |
| `EcdhSkew` | violation of `RecipientCanSpend` | |
| `ConfigChange` | violation of `ChangeNeverReused` | |
| `CoinjoinReject` | violation of `RejectedStays` | |
| `DiscoveryReceive` | violation of `ShownAddressIsWatched` | |

The bounds: `MaxNonce`, `MaxSpends`, `MaxSessions` (ceremony), `MaxIndex`,
`MaxNotify`, the sets of sends (configuration), `Writer`, `MaxSize` (credential),
`Offered`, `MaxIndex`, `MaxReceive`, `Task` (discovery), `Send`, `MaxIndex`, `MaxQr` (R0),
`Key`, `HashValue`, `NoncePair` (arithmetic), `Task`, `MaxDeliver` (coinjoin). They
suffice for the cases that make the code hard. Two
spends on a device are needed for a signature of the last one to meet the next
transaction. Three devices are needed for a participant to be left out while two
triples are still enough for `finalize`. A second nonce is needed for a session
over the first. Two sends are needed for one's stale copy to meet the other's
save, in R0 one send and a payment; two recipients for a share of another send, and
for a copy that takes one's index and puts back the other's; three devices for one
outside a vault of two. Two file sizes are needed for a
shorter file over a longer one, three loads for a save between the load and the
save of each of two others. Two scans are needed for a late one to end after
another, a third code for the vault to be replaced. Four coins are needed for the
choice to use more than one and leave one. A request pushed twice is needed for a
second approval of it. What TLC cannot reach (several sessions with three
devices, many sends and overlapping vaults in R0, other orders and widths) the theorems cover,
where there is one, as they hold for all values of the bounds.

Each property has a mutant: a plausible bug in one mapped definition, under which
its run finds the property violated.

### Fairness

Two liveness properties. `SignedIsPublished`, under `FairSpec` of `CoinjoinQueue`:
weak fairness of signing, as tasks are polled again by the executor (`spawn_local`,
`yield_now`); strong fairness of `Taken` and `Answered`, as the loop sends for ever
and a companion asked for ever is assumed to take a request and to be heard at some
time. Pushes, APPROVE and REJECT have no fairness, and a restart may come at any
time: what it drops is in `lost`, and the property says published or lost.

`ScansEnd`, under `FairSpec` of `VaultDiscovery`: weak fairness of each scan's next
step, as a query ends with an answer or at its timeout (electrum.rs), and of the
event loop's `Show`. The app may restart at any time; the property excludes only
that it does so for ever.

## 4. The proofs

TLAPS checks, for all values of the constants that satisfy the named assumptions:

* `VaultCeremonyProofs`: `TypeCorrect`, `AllOfN`, `IndexAndMsgTogether`,
  `BroadcastShown`, `Refinement`. A valid aggregate has one contribution of each
  key, each over the session itself, so what R4 accepts needs that each partial
  signature a device holds was shown by its signer: `SigningInv` says so of
  `spend` and `psigQrs`, and is what makes `AcceptedSignedByAll` inductive.
  `IndexInv` carries message and index together through the open spends and the
  pools; `BroadcastIsWhatR4Showed` needs that a held signature and a transaction
  imply the signed one. `Refinement` maps each action to an abstract step or a
  stutter, with `SigAccepted` (a held signature is one R4 accepted) for the
  broadcast: R3 approves, R4 releases, the broadcast settles.
* `AppConfigProofs`: `TypeCorrect`, `QuietFilePersists`, `IndexTakenByPayments`.
  `KeptInv` says that every copy of the configuration in flight, in a handler, a
  send or a worker, is not behind the quiet file: a copy is loaded after the last
  quiet moment, so a stale save cannot reach behind it. `PaidInv` says that all
  indices below a recipient's counter, in the file *and in every copy*, are paid,
  when the vault sends nothing (`vaultSends` is false).
* `VaultKeysProofs`, about `VaultEcdh`: `TypeCorrect`, `DifferentDevices`,
  `LeftOut`, `OnlyEarlySends`, `OwnShare`, for any devices, vaults and sends. A payment
  counts as many shares as its vault has participants, no two of one device
  (`DifferentInv`); `LeftOut` follows by counting: whoever is missing is made up for by
  devices outside the vault (`AsManyDevices`, `MissingReplaced`). Nothing is assumed
  of how the vaults overlap. `BackInv` says that a payment's index is passed by the
  counter *and by every copy loaded since*, until an earlier copy is saved: that is
  what keeps a later send's save, however it overlaps with others, from undoing it.
  `OwnInv` says that a pending send has the device's own share from its start.
* `VaultKeysProofs`, about `Musig` and `VaultKeys`: `SignaturesFinalize`,
  `PartialsAreOwn`, `SharesAreSecret`, `SortAnyOrder`, `BytesRight`; see "The arithmetic" below.
* `VaultDiscoveryProofs`: `TypeCorrect`, `IdentityKept`, `FreshExact`, `PickPays`,
  `BalanceShown`. `IdentityKept` is an induction over the list of codes
  (`KeptRight`): after each code, the codes kept are those of the list so far, one
  of each key, and the keys seen are theirs. `FreshExact`
  rests on what a clean scan has found so far: exactly the node's coins at the
  indices already asked. `PickPays` says that every coin in a scan or in the set is
  one of the scan's vault at its index, and that without a rebuild there is one
  vault only. `BalanceShown` orders store, post and show: without overlap, the one
  scan or posted balance under way is the last word, and it is of the set.
* `NodeCredentialProofs`: `TypeCorrect`, `PasswordEnveloped`, `ShowsLast`,
  `RestParses`. `PasswordEnveloped` is kept by the write alone. `ShowsLast` says of
  every copy in flight that it holds the last password, nothing, or is marked old.
  `RestParses` counts writers: with none undisturbed and one alone, the file's
  length is the one it will be cut to.
* `CoinjoinQueueProofs`: `TypeCorrect`, `OneApprovalPerPush`, `ResponseNamed`,
  `SignsTheScreen`. `QueueShown` says that a queued request that parses is both
  the one parsed and the one on the screen, which survives a malformed push
  because that one does not parse.
* `CoinSelectionProofs`: `TypeCorrect`, `Apart`, `AmountsCorrect`, `VaultAmounts`,
  `VaultBalanced` about `VaultTx::build`, `Fewest`, `PoorMeansPoor`. The inductive
  invariant keeps the notification's coin out of what may still be picked, and what
  was built its total's split; the arithmetic is in `PaymentBalanced` and
  `VaultSplitRight`, from the observation that a saturated sum below the largest u64
  did not saturate. `GreedyInv` says of the coins picked that none left is larger,
  that `total` is their sum up to saturation, and that no choice of fewer coins pays;
  `SumLargest`, that no set of as many coins holds more, carries it over a pick.
* `FoldTheorems`: the lemmas the proofs about lists and sums rest on, see below.

### Induction

The library's induction theorems take a predicate as an operator, which the provers
here cannot instantiate. `FoldTheorems` states induction with the *set* of what
satisfies the predicate instead, from the least element of a well-founded order
(`WFMin`): `NatInduct` over numbers, `RemoveInduct` over the subsets of a finite
set. From it follow what the folds of the community modules compute: `FoldSteps`
gives the results of `FoldLeft` after each element, `SumExists` the sums of
`MapThenSumSet`, whichever element is taken first. The lists of codes, the sums of
coins, and the sums of keys, nonces, tweaks, partial signatures and shares are all
such folds.

### The arithmetic

`Same(a, b)` says that two integers have the same remainder modulo the order. Each
operation of `Musig` gives a scalar with the remainder of the integer operation it
stands for (`AddSame`, `MulSame`, `NegSame`, `XSame`), each fold one with the
remainder of a sum of integers along its list (`NonceSame`, `PartialsSame`,
`KeyAggSame`, `TotalLinear`), and two scalars with the same remainder are equal
(`SameScalar`). So a theorem about the group becomes one about integers:

* `SharesAreSecret`: each share is the recipient's key times a weight that depends
  on the participant's key alone, so the sum is that of a *set* of weights
  (`TotalOfSet`) and any order of the participants gives the aggregate key's.
* `PartialsAreOwn`: what `partial_sig_verify` asks of a partial signature has one
  solution below the order, and `Sign` gives it.
* `SignaturesFinalize`: the sum of the partial signatures is the signed sum of the
  nonces plus the challenge times the aggregate key with the session's sign
  (`HonestSum`); `TweakSame` carries key, sign and accumulated tweak through the
  tweaks; the sign of the output key that `partial_sig_agg` puts before the
  accumulated tweak is the one the signers gave their keys, so that what is left is
  the nonce with an even y.

* `SortAnyOrder`: the same keys in any order sort to the same list. Where two sorted
  lists first differed, one would have more keys up to a rank than the other
  (`SortedBelow`), but a permutation keeps those counts (`CountSame`).

`KeysInv` says that what is computed with is the input of a vault (`VaultKeysRight`:
different keys, sorted), and nothing of the bounds: the theorems hold for any number
of participants, any hashes and nonces, and any order and width with one
subtraction between them.

Assumptions: each module's `ConstantsOK`, `SizesOK`, `InputsOK` or `OrderOK`,
evaluated by TLC in its runs, and the symbolic view of the cryptography, which is in
the definitions.

Model-checked only: `SignedIsPublished` and `ScansEnd`, as liveness under fairness
is out of the prover's reach. Every invariant and action property that a passing run
checks is also a theorem.

What the attempts found in the models: `FewestCoins` claimed that the coins picked
always hold enough, which a saturated total does not show, and `FailsOnlyWhenPoor`,
by a missing parenthesis, spoke of the choice of no coin too; `Degenerate` left out the nonce coefficient that reduces
to 0, for which TLC, given such a hash, had a counterexample. The properties, and the
values the runs take, are corrected accordingly.

## 5. What the code gets wrong

Each of these is a run that TLC refutes, and a finding with the quoted line.

* `EcdhSkew` - R0 takes the index from each device's own config.json, but only the
  device that finishes moves its own. On the second send to a recipient the shares
  are over different child keys, the QR does not say so, and the address paid
  belongs to no one.
* `CeremonyAdopted` - R4 attaches its signature to `VAULT_TX` although the spend it
  signed was adopted from another device's session, and reports a signed
  transaction.
* `ConfigChange` - `send_bip47` saves, after its broadcast, the file it loaded
  before its own worker took a change index: the next send uses that address again.
* `CoinjoinReject` - REJECT writes the screen only: the request stays queued and an
  approval in flight goes on.
* `DiscoveryReceive` - VAULT RECEIVE displays the P2PKH address of the index
  (vault.rs:162), while the scan, the tracker and the ceremony use its P2TR one: a
  payment to it is not found (README.md:200, main.rs:2580).

Met while modelling, visible in the models and kept out of the runs, since they
share a cause with one above or rest on a looser sentence:

* Without a config.json the vault's receive counter starts at `Default`'s 0, not at
  serde's 1 (main.rs:340): the first address is the notification index.
* A single-sig send that loaded config.json before R0 ended saves its copy afterwards
  (main.rs:1246; a hosted worker, main.rs:838), as in `ConfigChange`: the index just
  paid is the "next unused" one of main.rs:310 again, and the vault's next payment to
  that recipient has the same address. `OnlyEarlyPutsBack` says that nothing else does
  this.
* The vault's send saves the BIP47 index before it picks a coin and builds
  (main.rs:3249), against README.md:481 "Failed sends never consume a BIP47 index";
  `IndexOnlyAfterPayment` is about runs in which the vault does not send.
* The save of `ConfigChange` also puts back a `vault_receive_index` taken meanwhile,
  so an address displayed is displayed again (README.md:150), and a password that
  CONNECT cleared meanwhile.
* A payment whose answer is lost leaves its BIP47 index the next one (main.rs:1242).
* SCAN ECDH asks for no membership (main.rs:3165): the share of a device outside the
  vault counts in a participant's place, and the address paid is then no one's.
* A single-sig send between R0 and its end moves the index under the share already
  shown (main.rs:3240); `OwnShareIsForThisSend` says which case that is.
* The vault's sends multiply with its aggregate *account* key (`identity_secret`,
  main.rs:2720, vault.rs:238); BIP47, and the app's own sends, use the notification
  key, child 0 (bip47.rs:299-301, 344). `SharesGiveSecret` states the former.
* `set_session` takes the taproot flag from the spend the signer happened to open
  (vault.rs:515): a signer that opened an authorisation cannot sign a send.
* main.rs:139 says that every device computes the same code. Devices that scanned
  different codes of one key, or did not add their own, do not.
* A scan none of whose queries was answered stores the empty set, although
  main.rs:3695-3698 says that an unreachable server keeps the balance. A scan that
  ends after a clear puts the old set back, although main.rs:3854-3857 says that
  stale coins can never be shown or picked.
* main.rs:428-430 says that the password is kept when the key is unavailable; the
  code drops it (437-442), keeps the envelope of the password before, and any save
  during an outage erases a legacy plaintext one. A boot during an outage shows no
  password, and CONNECT then removes the envelope.
* Saves of two threads can leave a file that does not parse, which loads as the
  defaults; the next save makes that permanent.
* APPROVE without a queued request shows SUCCESS, also while an earlier approval is
  still being sent (main.rs:2115).

## 6. Not modelled, and why

* Hashes, key derivation, encodings of points, parsing and PSBT encoding, nonce
  generation: pure functions with vectors in the repository's tests. `Musig` models
  what is computed from their results.
* HTTP, Electrum and tracker clients: one request and one answer; their callers'
  models let every answer happen.
* What a torn write does to the counters: `NodeCredential` says when the file does
  not parse, and then all counters are at their defaults; `AppConfig`, whose
  properties would all fail at once, takes a save as whole.
* The secrecy of keys and nonces: the models are about what is signed and paid.
* The home screen (balance, transactions, pool statistics), message verification,
  the UTXO list: results are shown and not read back.
* Demo handlers (`KEYOS_DEMO_*`), layout, text, the generated router.
* The builders of the device that leave the coin choice to the bdk wallet.

## 7. Plan

Done, in order of importance: the ceremony and its abstract specification; the
configuration; R0; the coinjoin queue; amounts and coin choice; setup and balance;
the credential and torn writes; the arithmetic.

Next:

1. `VaultSend`, composing R0, `AppConfig`'s counters, discovery and the ceremony:
   one send from the recipient typed to the transaction broadcast.
2. Setup on several devices: when do two of them build the same vault.
3. Theorems: that `VaultEcdh`'s counters implement `AppConfig`'s view of them;
   that `VaultKeys` implements the symbolic signatures of `VaultCeremony`.
4. `ChangeNeverReused` across the wrap of the change index.

## 8. Running

`tlc -workers 2 -config Ceremony.cfg MCVaultCeremony.tla`, and so on as
`PROJECT.json` lists; `tlapm VaultCeremonyProofs.tla` for the proofs. Each run ends
within two minutes or so, each proof module within three.
