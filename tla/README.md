# A TLA+ verification of TrustFlow

TrustFlow moves encrypted data into and out of trusted execution environments
(TEEs) and attests those environments. This directory holds TLA+ models of its
protocols and algorithms, TLC configurations that check them on small
instances, and TLAPS proofs of the properties that matter most.

`PROJECT.json` is the index: components, runs, mutants (a plausible bug for
every property of every passing run), the map from definitions to source
lines, findings, hazards and theorems.

## The system

| Part | Source | Module |
| --- | --- | --- |
| Upload of data to a TEE node: the uploader's Python task and the receiver's Rust `dmserver` | `dm_component/componentize/main.py`, `server/src` | `DataUpload`, `SealedStore`, `DataUploadProofs` |
| Export of data from a TEE node | `main.py`, `server/src/service/download.rs`, `get_domain_data.rs` | `DataExport`, `DataExportProofs` |
| Start of every task: component declarations, reader of the parameters, driver; authorization, its withdrawal, deletion | `dm_component/componentize/component`, `compdef.py`, `kuscia`, `main.py` | `ComponentEval`, `DataTasks`, `DataTasksProofs` |
| Data capsule proxy: its start, input into, and results out of, an application in a TEE; its object storage (OSS) client | `trustflow/proxy/data_capsule_proxy` | `DataCapsuleProxy`, `DataCapsuleProxyProofs`, `DataCapsuleFilesProofs` |
| Capsule Manager client: requests with their reports, envelopes | `capsule_manager_client.cc`, `proxy/utils/crypto_util.h`, `ra_util.cc` | `CapsuleManagerClient` |
| Encrypted file format | `trustflow/proxy/utils/crypto_util.cc` | `CryptoFile`, `CryptoFileProofs` |
| Report generation, collateral, verification and policies for SGX2, TDX, CSV; the reports of the RA proxy | `trustflow/attestation`, `trustflow/proxy/ra_proxy` | `Attestation`, `AttestationProofs` |
| C interface of the attestation library, and its Rust binding | `generator_wrapper_c_api.cc`, `verifier_wrapper_c_api.cc`, `cargo/trustflow-attestation-rs` | `AttestationApi`, `AttestationApiProofs` |

How they interact. An owner *uploads* a file: it is encrypted under a fresh
key, sent to the `dmserver` of a TEE node, listed in that node's data mesh, and
its key is registered with the Capsule Manager. Inside the TEE the *data
capsule proxy* proves itself with an *attestation report*, gets the key,
fetches and decrypts the file for the application, and later encrypts the
application's result and registers its key. A receiver *exports* the result:
it gets the key, downloads the file from the node's `dmserver`, decrypts it
and lists it in its own data mesh. The Capsule Manager, the data meshes, OSS
and the quote libraries are not in this repository. They are modelled by how
the code uses them, as calls that may succeed, fail, or succeed and lose their
answer.

## Modules

### DataUpload and SealedStore

`DataUpload` has the uploader (`up`, `attempt`), one `handle_upload` task per
attempt (`handler`), the temporary file and the file in the data source
(`temp`, `dest`), the data mesh (`registered`), the `dmserver` process with its
graceful shutdown (`stop`, `server`) and the Capsule Manager (`key`). Files are
sequences of chunk numbers, written chunk by chunk at an offset or appended as
the open mode says, so that handlers can disturb each other. Handlers stop at
every error, hyper drops them at their await points when the connection
closes, the uploader's connection may break and its process may die.

`Overlap` says whether a request that the uploader has given up on may still
run when the retry arrives. The back-off is at least four seconds. With
`~Overlap` this outlasts the abandoned request, otherwise not; the code
guarantees neither.

`SealedStore` is the promise to whoever uses the data: the key is released
only when the store holds the complete ciphertext and the data is listed, and
neither changes afterwards. `DataUpload` implements it (`SealedSpec`) without
overlap. (The diagram in `dm_component/README.md` draws the registration of the
key before the upload; the code does it last, so a crash can leave listed data
without a key.) Running the whole task again with a new key is not modelled.

### DataExport

The receiver's six steps with their retries, the sender's server, and an owner
who meanwhile uploads a new version over the file (truncation, then chunk by
chunk), registers its key, or deletes the key. `handle_download` streams the
file as it is at each read, so a stream may end early or mix versions and still
have status 200. `decrypt_file` (external) accepts only a whole version under
its own key.

### ComponentEval and DataTasks

`ComponentEval` has no state. It gives the sanity checks of a declaration
(`float_attr`, `int_attr`, `str_attr`, `bool_attr`, `io_declared`), the check for
duplicate names and the resulting definition (`Defined`, `definition`), and the
reader (`Accepts` when its constructor returns, `Read` for what it then
answers). Protobuf stores floats in single precision (`Single`); declarations
are checked in double precision before. `AtomicFields` are the fields of the
protobuf message, which is not in this repository. The declaration sets
`has_lower_bound`, the reader looks at `lower_bound_enabled`. With the fields
shown in `docs/architecture/apps/split.md` a declared bound is an error at
import, and with both kinds of fields it would not be checked; no component of
`compdef.py` declares one.

`DataTasks` runs one process per party (`stage`): import of the declarations,
configuration, certificate, choice of the body, reading (`reader`), body. It
extends `DataExport`, whose receiver and server steps are the bodies of the two
parties of an export; an upload is modelled in `DataUpload`, and here it returns
or raises. Authorization, its withdrawal and deletion are one call of the
Capsule Manager each, which is answered, refused, or done with a lost answer;
`capsule` holds the policies (data, scope, grantees, columns) and the keys. An
authorization takes its scope from the parameter `project_id`, a withdrawal from
the task's configuration (`main.py` 232 and 449). Tasks start with policies of
both scopes and of other data, so that a call that touches too much or too
little shows. A task may bring one component of its own
beside those of `compdef.py`, so that all kinds of attributes are read.

### DataCapsuleProxy

Every request runs its handler (`pc`, `key`, `todo`) and one thread per file
(`worker`). Directories, temporary directories and OSS prefixes are functions
from names to contents in `fs`; a content is a value and the key it is
encrypted under. Each call may fail. Threads open (truncate) their output, then
fill it or throw, in any order; `Join` takes the results and `Unwind` is the
destruction of the futures that waits for the rest. `found` is a history
variable: what a request found in its temporary directory. A single file is a
directory of one. The application's directory holds no `.enc` names. `Overlap`
allows requests on the same path at the same time.

A call of the Capsule Manager takes three steps, as in the code: the client
fetches its certificate (`GetRaCert`), sends a request in an envelope for that
certificate (`Send`), and takes the answer (`GotDataKeys`, `ResultRegistered`,
`WriteTlsCert`). In between the Capsule Manager handles the request or refuses
it, the deadline passes, or the Capsule Manager restarts with another
certificate and cannot open the envelope. A registration whose client has given
up may still be handled later. `main` is a request too: with `cm_init_config`
it fetches the TLS asset and writes its certificate and its key as two steps,
and the process serves after that. A kill (`ProxyKilled`) ends threads where
they are, answers callers with an error and starts `main` again. `Sessions` says
which requests a run has and how often each fault happens.

### CapsuleManagerClient

Has no state: the messages and envelopes of the client, and what the Capsule
Manager (external) verifies of them. Encryption is a record that only the named
key opens, a signature names its key, SHA-256 is injective. On every platform but
`sim` a message carries a report over itself (`Attested`); that a report is
accepted only for the data it was generated for is `VerdictSound` of
`Attestation`.

### CryptoFile

`EncryptFile` and `DecryptFile` with their loops, one block per step, and in
between a file that is cut or extended at its end, given another packet count
and block length, or all of these. Products of the 64-bit `packet_cnt` and the 32-bit `block_len` are taken modulo `Word`.
AES-GCM is modelled by what authenticates: a read that is exactly one written
block. A block carries no position, as in the code, so order and completeness
must follow from the arithmetic, and they follow only as far as the header goes:
a file cut at the end of a block, with a packet count lowered to match, decrypts
without an error to that many blocks (`DecryptsCounted`). Blocks that change
places within a file are not modelled. Input/output errors are in
`DataCapsuleProxy`; the byte order of the header fields is not modelled.

### Attestation and AttestationApi

One report from `GenerateReport` through delivery to the verdict, with one
action per platform for generation, initialisation and platform verification. A
report has labels (version, type, platform), collateral and a quote: its layout
(size, `tee_type` and version, as the parsers see them), the data it binds, and
the signatures that no longer fit (`broken`). It arrives as it was made, or
altered (`DeliverAltered`): any label and any collateral, which no signature
covers, any layout and other data, which break the quote's signature, and any
one broken signature, all in one report. The label picks the verifier
(`Create`), an unknown one none (`CreateError`); JSON with the fields of the
other vendor does not parse (`DcapJson`, `CsvJson`); a quote too short, or for
TDX of another `tee_type` or version, is refused by the parser (`ParseError`).
Two things are taken of Intel's libraries: `sgx_qv_verify_quote` accepts no
quote of a TD, as nothing after it looks at `tee_type`, while
`tdx_qv_verify_quote` may accept any quote of Intel's, as the parser looks at
it. The policy is chosen when the report has been parsed, which is where
`VerifyAttributes` first reads it. A BackgroundCheck report that is relabelled
as a Passport and given collateral is accepted: neither is part of what is
signed, and `VerdictSound` does not speak of them. That `anonce` of a CSV quote,
which masks its fields, is altered is not modelled apart from the quote's data.

Hex, hashing and case-insensitive comparison are
modelled by what they do: `Sha256` is injective and the hash of a text is not
the hash of the bytes it decodes to. `AttrsIsMatch` goes through the attributes
in the order of the code, and `VerifyAttributes` through the entries, one per
step. The CSV verifier overwrites the public key attribute with bytes read past the
end of `user_data` (`csv_verifier.cc` 400-401, against the comment at 370-371);
the model has it be the hash, zeros or foreign bytes, but not by chance the hash
of a text of the policy. `GetRaCert` gives the parameters of the
RA proxy's report, over its certificate and the caller's nonce.

`AttestationApi` puts the C functions around these steps:
`GenerateAttestationReport`, then in the verifying party's process calls of
`ParseAttributesFromReport` and `AttestationReportVerify`. Each gets a buffer
for the message, one for the stack trace and one for the output, with their
lengths, and overwrites the lengths. The Rust binding makes new, cleared
buffers and has none for the stack trace. A C program may pass its buffers, and
the lengths of the last call, again. Characters are the number of the call that
wrote them, so that a text of an earlier call is told apart. `strncpy` pads with
zeros and does not end a text that fills the buffer; the terminator is set
after it (`Ended`). A behaviour of `AttestationApi` is one of `Attestation`.

## Runs

Passing runs (distinct states):

| Run | Shows |
| --- | --- |
| `upload` (3 attempts, 2 chunks) | `AckedMeansStored`: an acknowledged upload is stored completely and listed, whatever earlier attempts left; `SealedSpec`: refinement of `SealedStore`; `ShutdownCompletes`, `UploaderEnds` |
| `upload_overlap` (2 attempts, overlapping) | `KeyAfterShutdown`: the key still waits for listing and shutdown; `ShutdownCompletes` |
| `tasks` (all kinds of tasks, right and wrong parameters, added components; exports of 3 versions of 2 chunks, 3 attempts; 14,303) | `ListedComplete`: only one complete version is listed; `CapsuleFollows`: authorization, withdrawal and deletion change what their parameters ask for and nothing else; `ChoicesAccepted`: an accepted declaration can be used as declared; `ParamsMeet`: a body reads what was given in the field of its kind, zero or empty for what was given in another, or the default of an optional attribute; what is no list, and the default of a list, is allowed; no component with bounds is read; columns are as many as declared; `TasksRead`: bodies ask only for declared names; `TaskEnds`; `ExportReleases`: success ends both parties' processes |
| `proxy` (four sessions with failures everywhere: an input and a result on one directory; local directories and a request without a key; a result put twice and read back; a process that fetches its TLS asset; with kills, restarts of the Capsule Manager and renewals of the asset; 100,617) | `GetDelivers`, `PutDelivers`: success means all files, with the key the Capsule Manager holds then (or that of a registration given up on and handled late), and a mixture of two keys is an error; `KeyAfterData`; `UploadsOwn`; `TempRemoved`; `NoOrphanThread`; `PolicyRefuses`: the Capsule Manager can open and verify every request sent for its present certificate, so that only its policies refuse one; `TlsPair`: a proxy that serves has certificate and key of one asset |
| `proxy_overlap` (an input and a result at once on one directory; 31,028) | `NoOrphanThread` and `EveryRequestAnswered` although they destroy each other's files |
| `crypto_file` (up to 3 blocks, words of 32; 430,579) | `ReadsExactly`: the checks of the header suffice for the reads; `EncryptedAccepted`: no file that `EncryptFile` wrote is refused; `DecryptsCounted`: success means as many blocks of the plaintext as the header counts, whole, in order and from the start, in a file that ends with them |
| `attestation` (three platforms, up to 3 entries, callers in Rust and C; 1,392,103) | `VerdictSound`: acceptance means a quote as the TEE made it, labelled with the TEE's platform, and an entry that holds of TEE and data; `VersionsExact`: for entries that differ in version and debug flag, acceptance exactly when one holds; `WithinBuffers`: no call writes or leaves a length past a buffer's end; `AnswerOwn`: output, and through the binding message and stack trace, are those of this call; for a C program with reused buffers so is the message of an error, and the stack trace unless a `std::exception` was caught |

`TypeOK` is checked in `upload`, `tasks` (with `TaskTypeOK`), `proxy`, `crypto_file` and
`attestation`.

Violation runs, each with a finding:

| Run | Property | What the code does |
| --- | --- | --- |
| `upload_retry_race` | `AckedMeansStored` | Overlapping requests share one temporary file; an acknowledged file can be damaged. |
| `export_source` | `ListedReadable` | The output is listed with the sender's data source, not the one it was written to. |
| `proxy_paging` | `GetDelivers` | Only the first page of a listing is downloaded. |
| `attestation_alternatives` | `EntriesAreAlternatives` | A differing string attribute throws, so later entries are never tried. |
| `attestation_key` | `KeyPolicyAccepted` | Generator and verifier hash different bytes of the public key. |

### Bounds

* Attempts are 2 (in `upload_retry_race`) or 3, not 5: two make a retry, three a retry after a retry;
  further attempts meet no other state of the files.
* Two chunks are the fewest that can be torn or mixed.
* `Sessions` have at most four requests: enough for a failed request, its
  repetition and a reader, and for a start and what is served after it. Each
  fault happens at most once in a session: one kill between any two steps, with
  a renewal before or after it. `PageSize` is 2, or 1 to have more objects than
  a page holds (OSS: 100).
* `CryptoFile` has blocks of 5 bytes with 2 of header, words of 32 and files of
  at most 22 bytes: plaintexts of no block up to three blocks, with and without
  a short last one, and products that wrap around. The proofs cover all sizes.
* `MCDataTasks` has, for every component, one right set of parameters and one for
  each way of being wrong; added components have one or two attributes and an
  input with up to 3 columns for limits of at most 2. Four double steps make a
  single one.
* Buffers of the C interface have 2 or 3 characters, texts and outputs 1 or 3:
  shorter than a buffer, as long, and longer. Two calls in the verifying process
  make one with reused buffers; the proof covers any number and all sizes.
* `MCDataTasks` has policies of the data and of other data, in the scope of the
  configuration and in another one.
* Altered reports have each platform's label in the right and in a wrong version,
  and that of a platform without a verifier; collateral of either vendor, with a
  field missing, and none; every layout.
* Hashes have 3 bytes: data shorter than, as long as and longer than a hash.
* Deadlock is not checked: all of these tasks end, and the sender of a failed
  export waits.

### Fairness

* `DataUpload`: weak fairness of the uploader's and the server's own steps, and
  of each handler's (including being dropped): processes are scheduled, and
  every wait ends with an answer or an error. None for faults.
* `DataTasks`: weak fairness of each party's process, with the body of an export
  and `dmserver`; none of the owner. Every call returns or raises.
* `DataCapsuleProxy`: weak fairness of each handler and thread, none of
  arrivals.

## Proofs

`DataUploadProofs` proves, for every number of attempts and chunks:

* `TypeCorrect`: `Spec => []TypeOK`, also with overlap;
* `AckedStored`: `~Overlap => (Spec => []AckedMeansStored)`;
* `UploadSeals`: `~Overlap => (Spec => SealedSpec)`;
* `KeyLast`: `Spec => []KeyAfterShutdown`, also with overlap, from `KeyInv`
  (registration and server state at each place of the uploader).

`AckedMeansStored` is not inductive: it says nothing of the file while a
handler writes it. `UploadInv` adds that at most the current attempt's handler
is live, that its temporary file is the prefix of the chunks it has received
and its destination the prefix it has copied (`TaskFiles`, for each place of the
handler), that a handler that answered 200 has stored and registered the data,
and that no handler is live once the uploader has its answer. The refinement
then needs only that the data no longer change when the key is registered.

`DataExportProofs` proves, for every number of chunks, versions and attempts,
`TypeCorrect` and `ListedWhole` (`ListedComplete`). `ExportInv` adds to the
property that the output is the version of the receiver's key from the
decryption on and that nothing is listed before the registration.

`CryptoFileProofs` proves, for every size of header, block and word for which
a block has room for data and encrypted files fit the word:

* `TypeCorrect`, `ReadsFit` (`ReadsExactly`), `Accepted` (`EncryptedAccepted`)
  and `Counted` (`DecryptsCounted`), for every length and header a file is given.

The inductive invariant `IInv` has the written blocks (`FileInv`: block k is at
`HeaderLen + k * kBlockBytes` and holds the k-th piece), the position of both
loops, and `Chain`: as long as nothing is garbled, DecryptFile has read blocks
0, ..., k - 1 in order. The arithmetic core is `NoOverflow`: if
`(c * b mod Word) div b = c` then `c * b` did not wrap, which makes the
checks of DecryptFile sufficient.

`DataCapsuleProxyProofs` proves, for all sessions in which a process has one
`main`, all files, directories, numbers of faults, platforms, and with overlap:

* `ThreadsJoined`: `Spec => []NoOrphanThread`. The strengthening is
  `ThreadsAwaited`: a thread runs only while its handler is starting threads or
  unwinding, the two places that are left only when none runs.
* `RequestsVerify`: `Spec => []PolicyRefuses`, from `EnvelopeSent`: what is under
  way is the envelope of the handler's own request for the certificate its
  client holds (the request stays the same, because nothing changes the key of
  a handler that waits).
* `TlsPairWritten`: `Spec => []TlsPair`. Between the two writes the certificate
  on disk is that of the answer the key is still to be taken from
  (`AssetAnswered`), and no other `main` writes (`OneMain`).
* `ProxyTypes`: `Spec => []TypeOK`. `TypeInv` adds that every request is at a
  place of its own handler (`PlaceOK`) with the key, the loop and the client it
  has there (`RequestOK`), and that directories hold files of known names.

`DataCapsuleFilesProofs` proves what the files hold, for all sessions of requests
that do not overlap (`~Overlap`), with every failure, kill and restart:

* `TempIsRemoved` (`TempRemoved`), `KeyFollowsData` (`KeyAfterData`) and
  `UploadsAreOwn` (`UploadsOwn`);
* `GetsDeliver` (`GetDelivers`), as long as the store of every input fits into one
  page of a listing (`StoresFit`); `proxy_paging` shows why it must;
* `PutsDeliver` (`PutDelivers`), if puts of one resource share a directory or a
  store (`ResultsConflict`): others could register their keys in any order.

The properties are about one step, the last of a request; what they need is
known only from what the request did in its directories before. `FilesInv` is
that knowledge: requests that work at the same time share no directory
(`Apart`), and `WorkInv` says for each place of a handler what is in its temporary
directory, its application's directory and its store: what is downloaded, what
threads have opened, written or failed on, what is uploaded, and under which key
(`Delivered`, `Sealed`). It is stated of one request and three directories, as a
predicate without variables; `Frame` and `Changes` say once that a step of
another request leaves all of it alone. `PutsDeliver` adds `Registered`: the key
the Capsule Manager has is that of the last put it answered, or of one that was
given up on.

`DataTasksProofs` proves, for all tasks whose parameters and added components
have the types of their messages, any number of parties, and all chunks,
versions and attempts of an export:

* `TasksExport` (`TaskSpec => Spec`): what `main.py` runs implements `DataExport`;
  with it `ExportsTyped` and `ExportsListWhole` (`ListedComplete`);
* `TasksTyped` (`TaskTypeOK`) and `BodiesAnswered` (`TasksRead`);
* `ReadsMeet` (`ParamsMeet`) and `LegalNotRefused` (`ChoicesAccepted`), for the
  fields of the documented message (`FieldsDocumented`), with which no accepted
  declaration has bounds. `Legal` takes from the reader how it assigns inputs and
  columns to names (`InputsRead`, `ColumnsRead`), so parameters of a declaration
  with colliding column names count as legal only if the reader takes them;
* `CapsuleIsFollowed` (`CapsuleFollows`), if authorizations give each attribute in
  the field of its kind (`AuthorizationsTyped`): the reader takes a value in
  another field for an empty one.

The run `tasks` meets both conditions, which TLC evaluates. `TaskInv` says what
each process has done at its stage: above all, that a reader is what `Read` made of
the task's parameters, accepted, for a declared and defined component
(`IsReader`). The rest is about the operators: what `from_json`, `definition` and
`Read` keep (`FromJson`, `DefinitionIs`, `ReadIs`), that a name has one value
(`Given`), and that single precision is harmless: two stored floats that
`isclose` are equal (`SingleIs`), and storing keeps membership (`StoredAmong`).
`CapsuleInv` is `CapsuleFollows` with `HasRead` and `Done`.

`AttestationProofs` proves, for all parameters, policies, hardware, hash lengths
and all labels and collateral put on a report, `AttestationType` (`TypeOK`),
`VerdictIsSound` (`VerdictSound`) and `VersionsAreExact` (`VersionsExact`). The
assumptions are in `Attestation`: a text without characters has no case and is no
number, the hardware's debug flag is `true` or `false`, its version is a number,
and a PEM key does not start with the mark the model uses for a text's case. The
invariant follows the report. What arrives has the quote that was made or a
signature that no longer fits (`QuoteFits`); after the platform's verification no
signature is broken, but the label may still be TDX on a quote of SGX (`pc =
"parse"` in `IInv`); after parsing the quote is the one that was made under the
label of its platform (`Intact`), because a quote with the layout of another
platform did not parse (`LayoutPlatform`), and the attributes are those of that
quote (`ParsedAttrs`). `MatchHolds` is the step from the code's comparisons to what an
entry demands; that generator and verifier hash different bytes of the public key
(`attestation_key`) shows there: no entry with a key ever matches
(`NoKeyMatches`). For `VersionsExact` it is the other way round too, with
`TriedInv`: no entry that was passed over holds.

`AttestationApiProofs` proves `ApiImplements` (`ApiSpec => Spec`), with it
`ApiVerdictIsSound` and `ApiVersionsAreExact`, and `ApiWithinBuffers`
(`WithinBuffers`) and `ApiAnswersOwn` (`AnswerOwn`) for all sizes of buffers, texts
and outputs and any number of calls. `BufferInv` says that the
length a caller passes is within its buffer, and that message and stack trace
are terminated strings, with their lengths, once a call has returned; `AnswerInv`
that this is so of whatever buffers the next call is given. `AnswerOwn` has two
exceptions for a C program: after a success, and for the stack trace after a
`std::exception`, the code writes nothing and an earlier call's text stays.

Only model-checked is liveness, which needs fairness and ENABLED and is out of
the prover's reach: `ShutdownCompletes`, `UploaderEnds`, `EveryRequestAnswered`,
`TaskEnds`, `ExportReleases`. Every safety property of a passing run is a theorem.
What the violation runs show stays with TLC too.

## Not modelled

* Which malformed task configurations raise; the time tracer of components.
* The Capsule Manager itself: which policies it finds to allow a request. The
  policies of `DataTasks` and the key requests of `DataCapsuleProxy` meet only
  there, in code that is not in this repository.
* The Python and WASM bindings: data classes and generated glue without state.
  Null pointers as arguments of the C functions.
* The bytes of JWE and JWS (base64, JSON, AES-GCM, RSA) and of PEM and DER.
* The start of the RA proxy's server, flags, logging, file helpers, samples,
  packaging, build files: no state that a property could be about.
* Objects of sibling prefixes: the listing of a directory matches every object
  whose name starts with the prefix (`oss_client.cc` 50-68), so `a/b` finds
  `a/bc` as well. The stores of the model hold only what is in them.
* Downloads that are still open and broken when the sender of an export stops:
  `ServerExit` of `DataExport` does not wait for them. Such a request ends when its
  closed connection is noticed, and no other step depends on it.
* HTTP retries of collateral downloads, which brpc makes.
