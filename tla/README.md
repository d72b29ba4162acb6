# TLA+ models of the strongSwan QKD plugins

The repository holds two strongSwan plugins: `qkd`, a key exchange method whose
secret is a key that a quantum key distribution network has already delivered
to both sites, and `qkd-kem`, which runs a hybrid KEM of an OpenSSL provider.
The code is small and sequential; what is hard is that it serves two daemons
that never share memory, that the methods of a key exchange object are called
by somebody else in an order nobody tells them, and that every call may fail
half way. These modules model that, TLC checks them on small instances, and
TLAPS proves their safety properties for every instance.

## 1. Inventory

| Component | Code | State | Operations | Talks to |
|---|---|---|---|---|
| ETSI adapter, 014 build | `src/qkd/qkd_etsi_adapter.c` with `ETSI_014_API` | the handle its caller owns: `key_id`, `key` | `qkd_open/close/get_key_id/set_key_id/get_key/get_shared_secret/get_stored_key_id/is_key_id_null` | the KMEs: `GET_KEY`, `GET_KEY_WITH_IDS` |
| ETSI adapter, 004 build | same file with `ETSI_004_API` | the handle, with `is_connected` | the same functions | the KMEs: `OPEN_CONNECT`, `GET_KEY`, `CLOSE` |
| `qkd` key exchange | `src/qkd/qkd_kex.c` | `handle`, `key_retrieved`, `shared_secret` of every object | `qkd_kex_create`, `get_public_key`, `set_public_key`, `get_shared_secret`, `destroy` | the adapter; called by the IKE daemon |
| `qkd-kem` key exchange | `src/qkd-kem/qkd_kem.c` | `ctx`, `key`, `ciphertext` and its length, `shared_secret` and its length | the same methods, `encaps_shared_secret`, `set_ciphertext` | an OpenSSL provider |
| plugin registration | `qkd_plugin.c`, `qkd_kem_plugin.c`, numbers in `qkd_kex.h`, `qkd_kem.h`, names in `qkd_kem.c` | what strongSwan was told: proposal tokens, constructors | `plugin_create`, `get_features`, `destroy` | the plugin loader, the proposal parser and the crypto factory of strongSwan |
| timing log | `log_time` in both | none | append a line to a file | the file system |
| build | `configure.ac`, `Makefile.am`, `scripts/` | none | choose initiation mode and API version | |
| IKE daemons (external) | strongSwan | progress of each exchange, KE payloads | call the methods | each other, over a network |
| KMEs (external) | ETSI API wrapper | keys, or key streams | | each other, out of band |

Hard behaviours and what makes each component correct:

- **Roles are inferred.** No method is told whether it serves the IKE initiator
  or the responder. It looks at whether the handle has a key ID, or at the
  length of a value. Correct: the ID never changes while the object lives, both
  sides settle on the same key, an exchange uses up one key.
- **Retry.** A daemon may build its request twice from one object (a COOKIE
  notification). Correct: the second call meets the decision of the first.
- **Partial failure.** A key may be gone from the KME before decoding fails; an
  ID is stored before its key is fetched; a stream is joined before a key is
  taken from it. Correct: the other side never goes on alone with a key, no
  stream is left open.
- **Message order.** The client-mode initiator has its key from the start and
  must not use it until the responder has it too.
- **Shared KMEs.** Exchanges run in parallel against one store. Correct: no
  key, and no part of one, crosses from one exchange to another.
- **Build time against run time.** The API version is compiled in, but
  `get_shared_secret` asks an environment variable; the initiation mode is
  chosen on each side separately.
- **Registration.** A method is entered in four tables kept apart: token, number,
  feature, KEM name. Daemons exchange only the number. Correct: both sides run
  the algorithm both configured by name, and what they settled on exists.
- **`qkd-kem`.** Buffers and lengths survive failed calls; some results are
  tested with `!`, some with `<= 0`; `get_shared_secret` always succeeds.
  Correct: one key pair per exchange however often the request is built, no
  unwritten buffer leaves the object, both sides hold the encapsulated secret.

`PROJECT.json` lists each of these as a hazard at the line where it bites, with
the properties that would catch it.

## 2. Plan

1. *(done)* `IkeExchange`, `QkdEtsi014`, `QkdKex014`, the abstract
   `KeyAgreement`, and the proofs of the 014 method.
2. *(done)* `QkdEtsi004`, `QkdKex004`.
3. *(done)* `QkdKemProvider`, `QkdKem`.
4. *(done)* Proofs for `QkdKex004`: `ConnectedToItsId`, `ConfirmedKey`,
   `NoOrphanStream`, `RetrievedKey`, `CloseReleases` and the refinement.
5. *(done)* Proofs for `QkdKem`: `TypeOK`, `RequestStable`, `NothingUnwritten`,
   `SecretObtained`, `DecapsulationSuccessful` and the refinement.
6. *(done)* Key bytes of the 004 build: a chunk shorter than the key leaves part
   of `key_buffer` unwritten (`Torn`).
7. *(done)* `QkdPlugins`: the tables of the two plugins and what two daemons make
   of them.
8. *(done)* The 014 proofs without a hypothesis on the deployment; agreement in
   mixed deployments with repeated requests.
9. *(done)* `ConfirmedKey` of the 014 build as a theorem for initiators of both
   modes; `HeldKeyKept` as a theorem for every environment.
10. *(done)* Proofs for `QkdPlugins`, and what `KeyAgreement` means for the
    methods that implement it.
11. Liveness of `qkd-kem` under repeated requests.

## 3. The modules

    Chunk               None: an empty chunk or a NULL pointer
    IkeExchange         the two IKE daemons of every exchange (external)
    KeyAgreement        abstract: what a key exchange method promises
    QkdEtsi014          adapter and KMEs, ETSI 014 build (operators)
    QkdKex014           the qkd method on top: EXTENDS IkeExchange, QkdEtsi014
    QkdEtsi004          adapter and KMEs, ETSI 004 build (operators)
    QkdKex004           the qkd method on top: EXTENDS IkeExchange, QkdEtsi004
    QkdKemProvider      the OpenSSL provider (external, operators)
    QkdKem              the qkd-kem method: EXTENDS IkeExchange, QkdKemProvider
    QkdPlugins          loading, configuration and negotiation of the methods
    QkdKex014Inv, QkdKex004Inv, QkdKemInv, QkdPluginsInv
                        the inductive invariants
    QkdKex014Proofs, QkdKex014Agreement, QkdKex014Refinement, QkdKex004Proofs,
    QkdKemProofs, QkdPluginsProofs, KeyAgreementProofs, IkeExchangeProofs
                        the proofs
    MCQkdKex014, MCQkdKex004, MCQkdKem, MCQkdPlugins    values for TLC

**`IkeExchange`.** `pc[<<x, s>>]` is how far the daemon of side `s` is with
exchange `x`: *absent, created, sent, peer_set, keyed, failed, gone*. The
initiator creates its object, asks for its public value, feeds the answer in,
asks for the secret; the responder creates its object when a request arrives,
feeds it in, answers, asks for the secret. `net` only grows, so a payload may
arrive late, twice or never, and a responder may see any request of its
exchange. `MaxGets` bounds how often a request is built. With `Aborts` a daemon
may destroy its object at any point. strongSwan is not part of the repository:
this order is the one the comments of both plugins describe.

**`QkdEtsi014`, `QkdEtsi004`.** The adapter's only state is its caller's handle,
so each function is an operator from the handle and the KMEs to the set of its
possible outcomes `[ret, handle, kme]`, one for every way through the function.
A key is named by its ID: what the properties tell apart is *which* key
somebody has. In the 014 build the KMEs hold the status of each key (stored,
issued, delivered); a KME may or may not deliver a key twice. In the 004 build
they hold the streams opened, the ends connected to each and the ends served;
an answer may be lost, and `misled` remembers whom. The 004 adapter asks for a
key once, at index 0, and copies `QKD_KEY_SIZE` bytes out of a stack buffer
whatever was written to it: `GET_KEY` returns that buffer, which holds the key
of the stream or, with `ShortChunks`, is `Torn`.

**`QkdKex014`, `QkdKex004`.** One action per method. An action is the whole
method: the call into the adapter, the handle it leaves, the flag, the copy of
the secret, and what the daemon does with the result. `Mode[<<x, s>>]` is
the initiation mode the plugin of side `s` of exchange `x` was built with (the
exchanges of a model need not be between the same daemons), `Env004` the sides
started with `ETSI_API_VERSION=004`. The code excludes server-initiated 004
builds (`configure.ac:149`) and the 004 code returns before it looks at the
mode, so `QkdKex004` has none. `drawnFor` and `openedFor` are history
variables: the exchange for which a key or a stream left the KMEs. They drive
the properties and the refinement, never an action.

**`QkdKem`.** One action per method again. `object[o]` holds the key pair, the
ciphertext with the length expected of it, and the shared secret. A key pair
or a secret is a name; a ciphertext names the pair it was made for and the
secret inside. The provider draws fresh names, and a call returns 1 or one of
`Errors` (0, -1), which the code tests with `<= 0` in one place and with `!` in
another; both tests are modelled on the code returned. `Noise` is a buffer that
was allocated and not written, and what decapsulation with a foreign key yields.
`qkd_kem_create` loads the provider
through `load_provider_to_context`, which may fail. The `EVP_PKEY_CTX` is left out: every method makes the context it needs and
fails if it cannot. The initiation mode changes only log messages here.

**`QkdPlugins`.** What comes before any of this. Each daemon's loader creates the
plugins (`plugin_create` registers tokens at once, or fails), asks them for their
features, and parses the configuration: a token that is not registered is
refused, one whose number nothing provides is not. Where the features cannot be
loaded (the factory may demand that a method be tested first, which none of these
can be) the loader drops the plugin, but its tokens stay: stage *unloaded*. That
it loads all features of a plugin or none is a simplification. The daemons negotiate a
number that is in both proposals, and each factory calls a constructor
registered for it; `Constructed` is what that object runs, the KEM `get_kem_name`
finds or pure QKD. `KemMethods`, `KemTokens`, `Provided` and `KemNames` are the
four tables, transcribed separately, each from its own place.

Definitions marked `Variant` are the code with one plausible slip; the
manifest names for each property a variant that breaks it.

## 4. The properties and the runs

All runs are exhaustive, with symmetry for safety in whatever the run does not
tell apart, and the liveness runs have no faults and no symmetry. `kex014` and
`kex014_live` have three exchanges and two keys, so the store really runs out:
two exchanges draw the keys and the third finds none, at any point of the three.
`mixed` has two exchanges and three keys: the one that may draw two can, and the
other still gets one. In the 004 runs two exchanges open streams of their own.
`kex014` and `mixed` also run one side with `ETSI_API_VERSION=004`, so that a
held key is fetched a second time: the responders in `kex014`, because an
initiator's own fetch would count as delivery for `ConfirmedKey`, the initiators
in `mixed`.

| Run | Setting | Checks |
|---|---|---|
| `kex014` | 014; one exchange between client-mode daemons, two between server-mode daemons, the same KMEs with two keys; responders with `ETSI_API_VERSION=004`; every fault, requests built twice | `TypeOK`, `Agreement`, `Isolation`, `OneKeyPerExchange`, `ConfirmedKey`, `IndInv`, `KeyIdStable`, `HeldKeyKept`, `ImplementsKeyAgreement` |
| `mixed` | 014; a client-mode and a server-mode daemon, each initiating one exchange; initiators with `ETSI_API_VERSION=004`; every fault, requests built twice | `AgreesUnlessRepeated`, `OneKeyUnlessRepeated`, `IndInv`, `KeyIdStable` |
| `kex014_live` | the exchanges and keys of `kex014`, no faults, no aborts, no `ETSI_API_VERSION=004` | `Completes` |
| `stream` | 004, every fault but short chunks, requests built twice | `TypeOK`, `ConnectedToItsId`, `NoOrphanStream`, `RetrievedKey`, `ConfirmedKey`, `IndInv`, `ImplementsKeyAgreement` |
| `stream_live` | 004, no faults, requests built twice | `Completes`, `StreamsClosed`, `CloseReleases` |
| `kem` | `qkd-kem`, every call may fail with 0, requests built twice | `TypeOK`, `RequestStable`, `NothingUnwritten`, `SecretObtained`, `DecapsulationSuccessful`, `IndInv`, `ImplementsKeyAgreement` |
| `plugins` | two daemons, every token configured alone against the same one and against all, one pair with nothing in common, one with a choice; creating a plugin or loading its features may fail | `TypeOK`, `ConfiguredAlgorithm`, `NegotiatedMethodExists`, `IndInv`, `Connects` |
| `cookie`, `env004`, `close_fails`, `short_chunk`, `kem_negative` | see section 6 | one property each, violated |

`kex014` and `mixed` need both modes in one model, so symmetry is in the keys
only, and in the two exchanges of one mode in `kex014`. `Completes` of the 014
build excuses an exchange the others left no key for, and one whose client-mode
initiator repeats its request: the second one is empty, and if the responder
takes that one first it refuses it (section 6). `stream_live` assumes `ServesAlone`: the responder closes its end as soon
as it has its secret, and the initiator takes its key after that, with status
`PEER_NOT_CONNECTED` (`qkd_etsi_adapter.c:478`). With a KME that does not serve
an end left alone, `Completes` fails: the 004 method depends on this.

*Deadlock* is checked where it means something; `AllDone` is the stuttering of a
system in which every exchange is over, or was never requested. Two runs switch
it off. In `kex014_live` the initiator of an excused exchange may wait for an
answer that never comes: what ends that wait in a daemon is its time-out, an
abort, and the run has none. In `plugins` the daemons stop when they have their
objects and have unloaded their plugins, or could not agree.

**Fairness.** `FairSpec` asks, for each object, weak fairness of the next call
and of its destruction. The plugin has no thread of its own: a worker of the
daemon takes up the next job of each IKE_SA, and no call can take the
possibility of another object's call away for ever. In `QkdPlugins` each daemon's
start-up runs through, and the negotiation takes place when it can. Nothing is assumed about
which payload arrives, which key a KME hands out, or how failures fall.

## 5. The proofs

Each proof is for every value of the constants: any sets of exchanges, keys,
key pairs and daemons, any `MaxGets`, with or without faults and aborts. They
rest on the assumptions the modules name (`IkeAssumption`, `Etsi014Assumption`,
`Kex014Assumption`, `Etsi004Assumption`, `Kex004Assumption`,
`ProviderAssumption`, `KemAssumption`, `PluginsAssumption`), which TLC evaluates
in the runs: the constants have their types, and `None`, `Noise`, `Torn` and
`Refused` are told from the values they stand next to. Every safety invariant
and every action property of a passing run is a theorem, and so are the
refinements.

Each component has an inductive invariant `IndInv`, with the same shape: what a
property says of the end of an exchange is not inductive, and `IndInv` adds what
each object, payload and external party knows on the way there. TLC checks each
one in a run before it is proved.

Some theorems have a hypothesis, which each names. They exclude what section 6
shows to go wrong, and the passing runs are instances of them:

| Hypothesis | Says | Needed because |
|---|---|---|
| `Compatible` | no client-mode initiator repeats its request to a server-mode responder | such an exchange draws two keys |
| `WholeKeys` | the KMEs deliver a key in one piece | `short_chunk` |
| `~OpenFails /\ ~CloseFails` | `OPEN_CONNECT` and `CLOSE` do not fail | `close_fails` |
| `NoNegative` | no provider call fails with a negative value | `kem_negative` |

**ETSI 014**

1. *Ownership* (`QkdKex014Proofs`). `Isolation` is not inductive: to know that a
   secret belongs to its exchange one must know it of the handle it came from,
   of the payload the ID came in, and that the KMEs never issue a key twice.
   `Ownership` says this of handles (`HandleOwn`), payloads (`MessageOwn`),
   secrets (`SecretOwn`) and of the KMEs' ledger, next to `TypeOK`. It holds in
   every deployment; `TypeCorrect` and `IsolationInvariant` follow.
2. *Flow* (`QkdKex014Agreement`). That an exchange draws one key depends on the
   roles the methods infer. `Flow(x)` says where exchange `x` can be: nothing
   was drawn before the first request (`Quiet`), who has an ID in which state
   (`Roles`), who draws in which mode (`ServerFlow`, `ClientFlow`) and that an
   initiator went on only with an answer (`Answered`). With it
   `IndInv`, which is `Ownership`, `Flow`, `Fetched` and `KeyOfItsId` (the key in
   a handle is that of the ID in it), is inductive in every deployment.
   The one case in which an exchange may draw two keys is named in it:
   `MixedRepeat(x)`, a client-mode initiator that has built its request twice
   for a server-mode responder. The second request is empty, the responder takes
   it as its cue to draw a key of its own, and both sides finish with different
   secrets. `OneKeyUnlessRepeatedTheorem` and `AgreesUnlessRepeatedTheorem` say
   that nothing else does this. A deployment in which it cannot happen is
   `Compatible`, and there `OneKeyTheorem`, `AgreementTheorem` and
   `ConfirmedKeyTheorem` hold outright. The last has two reasons: a client-mode
   initiator goes on with an answer, which the responder sends when it has
   fetched the key (`ClientFlow`, `Answered`); a server-mode initiator has no key
   but one it fetched itself (`Fetched`), because no answer it gets is empty.
3. *Refinement* (`QkdKex014Refinement`). With `agreed[x]` the key drawn for `x`
   and `obtained` the daemons' secrets, each action is a step of `KeyAgreement`
   or stutters, in `Compatible` deployments. `KeyIdStableTheorem` and
   `HeldKeyKeptTheorem` are about single steps and need no hypothesis. The second
   covers daemons with `ETSI_API_VERSION=004`: `env004` shows that they may be
   refused the key they hold, the theorem that they are never handed another. It
   rests on `KeyOfItsId`, because the second fetch is by the ID in the handle, and
   `qkd_set_key_id` would leave an old key next to a new ID; `Roles` shows that it
   is called only for handles without an ID.

**ETSI 004** (`QkdKex004Proofs`). `IndInv` says that a handle and the KMEs
agree on the stream an object is connected to, unless the KMEs misled its owner
(`EndKnown`), that it knows a stream of its own exchange only (`HandleOwn`),
that an exchange opens one stream and names no other (`OneStream`), and that a
responder which has accepted a request was served by that stream (`Answered`).
`ConnectedToItsId` and `NoOrphanStream` are the two halves of `EndKnown`;
`ConfirmedKey` follows from `Answered`; both hold with every fault. The proof
first reduces each adapter function to its effect on handle and KMEs, one lemma
each (`GetKeyIdOutcome` to `CloseOutcome`), then preserves the parts by what a
call may touch. `RetrievedKey` and the refinement need `WholeKeys`,
`CloseReleases` that `OPEN_CONNECT` and `CLOSE` do not fail.

**`qkd-kem`** (`QkdKemProofs`). `IndInv` says that the requests of an exchange
name the pair its initiator's object has (`Requests`), that each answer is a
ciphertext made for such a request with the secret the responder holds
(`Answers`), and that an exchange uses one secret. `RequestStable` and
`NothingUnwritten` hold whatever failing calls return. That the initiator's
secret is that secret (`SecretObtained`, `DecapsulationSuccessful`, the
refinement) needs `NoNegative`: the invariant itself allows `Noise` there when
a call may fail with a negative value.

**Registration** (`QkdPluginsProofs`). `IndInv` ties what parser and factory
know to the plugins loaded (`Registered`, `Constructors`) and follows a number
from the configuration (`Parsed`) through the negotiation (`Settled`) to the
object (`Runs`). The rest is about the tables: the number of each of the 19
tokens is among its plugin's features, is given to no other token, and makes
the constructor run the algorithm the token is documented to name. So the
factory lacks a constructor for a number settled on only where the plugin that
named it is *unloaded*. `NegotiatedMethodExists` and `ConfiguredAlgorithm` follow, for any daemons and
configurations.

**The promise** (`KeyAgreementProofs`). `PromiseAgrees` and `PromiseStands` say
what `KeyAgreement` is worth: sides that were handed a key were handed the same
one, no other exchange was handed it, and no side is handed another. With the
refinements each method has this as `DaemonsAgree`.

*Only model-checked*: liveness (`Completes` of both builds, `StreamsClosed`,
`Connects`), which is out of the prover's reach, and the runs of section 6,
which are counterexamples.

## 6. Where code and comments disagree

- `cookie`: `get_public_key` says of its empty value that it is the responder's
  (`qkd_kex.c:105`). An initiator's second call takes the same branch and sends
  an empty request, which a client-initiated responder refuses
  (`qkd_kex.c:193`).
- `env004`: `get_shared_secret` makes sure "for ETSI 004" that the key was
  retrieved (`qkd_kex.c:268`). The test reads the environment, so a 014 build
  started with `ETSI_API_VERSION=004` asks its KME for a key it holds, and fails
  if the KME delivers a key once.
- `close_fails`: `qkd_close` reports success and drops the only copy of the
  stream ID also when `CLOSE` failed.
- `short_chunk`: `qkd_get_key` is documented to get the key of the current ID
  (`qkd_etsi_adapter.h:84`). The 004 build asks once, for one chunk, of the size
  the environment (`QKD_KEY_CHUNK_SIZE`) or the KME has set, and copies 32 bytes
  of `key_buffer` (`qkd_etsi_adapter.c:489`): with a shorter chunk the rest is
  whatever the stack held, and the call returns `TRUE`. The run shows one such
  buffer taken for the key.
- `kem_negative`: `set_ciphertext` tests the provider's results with `!`
  (`qkd_kem.c:315`, `322`, `347`). OpenSSL's calls return 0 *or a negative value*
  on failure; a negative one is logged as "Decapsulation successful"
  (`qkd_kem.c:359`) and the unwritten buffer becomes the initiator's secret.

Found while reading, not shown by a run yet: `qkd_get_key_id` is documented to
retrieve the key (`qkd_etsi_adapter.h:63`), its 004 build only opens the stream;
the server-initiated comments of `qkd_kem.c` (402, 413, 516) give the two sides
roles that the code, the same in both modes, does not have; the check for a
wrong ciphertext size (`qkd_kem.c:294`) cannot refuse a first answer, whose own
length becomes the expected one; `base64_decode` compares a `size_t` with
`<= 0` (`qkd_etsi_adapter.c:96`); `KE_QKD` is an enumeration constant of value
65516 in `qkd_plugin.h:19` and a macro of value 65535 in `qkd_kex.h:17`, which
`#ifndef` does not keep from being defined. Every file that uses it sees the macro,
so the plugin works; `Connects` fails for a constructor that sees the other one.

## 7. Not modelled

The timing log (I/O that no state depends on) and the build scripts. Of the IKE
daemons and the KMEs, which are not part of the repository, only what the plugins
see of them. Liveness of `qkd-kem` is not checked. Within the modelled
parts: bytes and lengths of keys, UUID and base64 text, QoS parameters and
metadata, memory allocation beyond "may fail", logging. A fetched key of
another size than 32 bytes, which is logged and used, is not told from others:
both sides read the same key of the KMEs. A 004 chunk larger than the 32 bytes
of `key_buffer` (`qkd_etsi_adapter.c:468`), which `GET_KEY` would write past its
end, is not modelled: `ShortChunks` is about smaller ones. A base64 text that
cannot be decoded makes the call fail in the model, also where the test of a
`size_t` for `<= 0` (`qkd_etsi_adapter.c:96`) lets an error value pass. NULL objects and the
`this`/`value` checks that guard against them cannot occur in the order the
daemon calls the methods, which `HandleOwn` shows: a live object has a handle.
