# A verification of flyo

flyo is a small file server with a browser client, compatible with webd: one
Rust process serves the files below a root directory over HTTP (list,
download, upload, mkdir, rename, delete to a trash folder), with users,
permission tags and cookie sessions. flyo-proxy is an optional reverse proxy
in front of it that adds TLS, address lists and rate limiting. This directory
holds TLA+ models of the parts in which something can go wrong that a test
would hardly reach, the TLC configurations that check them, and proofs checked
by TLAPS. `PROJECT.json` lists runs, mutants, hazards and theorems, and maps
every definition to the lines of the source it stands for.

## The system

| part | source | state | operations | what makes it correct |
|---|---|---|---|---|
| file API | `flyo/src/handlers.rs`, `fs_ops.rs` | the share on disk; the locals of each running handler | list, file, upload, mkdir, rename, delete | content is never visible half-written; nothing is lost but by replacement; an upload that answers 200 has stored its body; a download comes from one version; every handler answers |
| ranges | `handlers.rs` 121-201 | none | `parse_range`, start/end/length | a partial reply announces the bytes asked for, a whole one the whole file; only ranges with a byte outside the file are refused |
| sessions | `flyo/src/auth.rs`, `main.rs` 106-175 | token table behind an `RwLock` | login, extractor, logout, whoami, restart | an ended session stays ended; a session means what its login answered; nobody ends another user's |
| gatekeeper | `flyo-proxy/src/guard.rs` | counters behind a `Mutex` | `check` | no window admits more than its budget; refusals and waits are justified; the sweep forgets nothing that runs |
| proxy path | `flyo-proxy/src/main.rs` | a task per connection; the exchange with the upstream | accept, handshake, gate, refuse, forward, collect, answer | only admitted requests reach the upstream; its reply arrives whole or is reported as an error; headers are the proxy's; `Retry-After` and one second more outlast the window that refused |
| browser | `flyo/web/src/App.tsx`, `state.ts`, `api.ts` | signals: path, entries, selection, uploads, user | navigate, refresh, upload, delete, rename, sign in and out | no spinner or disabled button without a call that ends it; only rows that are shown are selected; bars and uploads correspond; a confirmed delete names what is listed in its directory, which the code does not keep (`DocSelected`) |
| start | `flyo/src/config.rs`, `flyo-proxy/src/config.rs`, both `main` | the configuration so far | `locate_config`, `parse` line by line, `main` up to the bind | a bad line stops the start; the configuration is what the file says in any order; TLS exactly when asked for |
| assets | `ui.rs`, `build.rs` | none | lookups | out of scope |

How they interact: the browser calls the file API and the session handlers,
directly or through the proxy, which checks the address, forwards and buffers
the answer. Every handler but login begins with the `CurrentUser` extractor,
which copies the permissions out of the configuration; the handler then uses
the copy and never looks again. Handlers share nothing in memory but the
session table: they meet on disk, where each `std::fs` call is atomic and any
two handlers interleave between calls. Only `upload` and `file` suspend, but
the runtime is multi-threaded, so the blocking calls of the other handlers
interleave as well.

The hard behaviours are therefore: check-then-act sequences over the share
(exists, then create or rename; metadata, then open); an upload that is many
steps long and can break, fail, be abandoned or die with the process at each
of them; directories that move under a running handler; the clock read before
a lock; an upstream that may fail and a client that may leave at every
`await`; directives whose meaning depends on others further down; and, in the browser, replies that arrive in another order.
`PROJECT.json` lists each of these at its line under `hazards`.

## Modules

| module | what it is |
|---|---|
| `ShareTree` | the namespace below the root and the POSIX calls on it, as pure operators |
| `RangeMath` | the byte-range arithmetic of a download, and what a range denotes |
| `FileApi` | the six handlers, one action per file-system call, over `ShareTree` and `RangeMath` |
| `FileApiProps` | what the handlers guarantee, and what the documentation says of them |
| `AtomicStore` | the abstract promise: files, directories and moves appear in one step |
| `Sessions` | login, extractor, logout, restart |
| `Guard` | the proxy's `check()` |
| `Proxy` | connections and `handle()`, over `Guard`, with an upstream that may fail |
| `ConfLines` | how a line is cut into tokens, and what its words are |
| `WebdConf`, `ProxyConf` | what each directive of either file does |
| `Startup` | both programs from their file to their first bind, over the two |
| `Browser` | the page: its signals, dialogs, and the runs of its async functions |
| `MCFileApi`, `MCRangeMath`, `MCSessions`, `MCGuard`, `MCProxy`, `MCStartup`, `MCBrowser` | instances for TLC |
| `FileApiProofs`, `StoreProofs`, `RangeProofs`, `SessionProofs`, `ProxyProofs`, `ConfLinesProofs`, `StartupProofs`, `BrowserProofs` | the theorems, and the lemmas they rest on |

### FileApi and the code

`tree` is the namespace, a function from paths to inodes or `Dir`; `disk` is
the content of each inode, a sequence of chunks `<< writer, position >>`, so
that a mix of two writers and a torn body are both visible; `h[r]` is the
handler of request `r` with its local variables, `pc` naming the call it makes
next. An action is one call with everything the code does until the next one:

* `Arrive`: the permission gate and `resolve`; refusals answer at once.
* `DirsThere`, `MakeDir`: `create_dir_all`, which makes one level at a time
  and tolerates a level that somebody else has made.
* `UploadParent`, `UploadCreate`, `UploadChunk`, `UploadFlush`,
  `UploadRename`: the good path of `upload`. `UploadBroken` (the body stream
  yields an error), `UploadWriteFails` (write or flush), a failed rename: the
  ways into `UploadClean`, which tries to remove the temporary file
  (`RemoveFile`: the disk may refuse that too), ignores what comes of it, and
  replies.
* `UploadDropped`: the client has sent its whole body, or its stream has
  broken already, and it leaves; the server drops the handler's future at the
  `await` it is in: before or in `File::create`, at the last write, in the
  rename or in the removal. What a dropped future has handed to the blocking
  pool is still done. While the body arrives, a client that leaves is seen as
  a stream error instead.
* `FileStat`, `FileOpen`, `FileBody`; `ListStat`, `ListRead`, `ListMeta`;
  `MkdirCheck`; `RenameCheck`, `RenameParent`, `RenameMove`; `DeleteCheck`,
  `DeleteStamp`, `DeleteMove`: the other handlers, call by call.
* `Crash`: a panic aborts the process (`panic = "abort"`), or it is killed and
  started again: every handler that was running is gone, the share stays.

Names are records, not strings: what the user typed, the random suffix of a
temporary file, the trash stamps in front. Statuses are the numbers the code
answers.

Assumptions of the model: no symbolic or hard links; POSIX semantics of
`rename`; `read_dir` is one snapshot; eight random characters do not repeat
among the uploads of a run (`FreshSuffix`); clients do not name temporary
files (`PlainPath` in `FileApiAssumption`: with such requests a client can move
a half-written file to a plain name itself); uploads to `/` itself, whose
temporary name would lie beside the root, are excluded; a crash loses the
process and not the disk. Left out: file sizes and times in listings, MIME
types, the `D` and `T` tags, logging.

`AtomicStore` is what clients may rely on: a store that changes only by a
directory appearing, a file appearing or being replaced as a whole, and an
entry moving with all below it. `FileApiProps` instantiates it with the share
without its temporary files, each file standing for its content
(`ImplementsStore`); chunks, temporary files, failures and crashes are
stutters.

### Sessions and the code

`Login` is one step: the lookup is in the immutable configuration and the
insert is under the lock. `Extract` is `CurrentUser::from_token` under the
read lock; `Logout` is `drop_by_user` under the write lock, a later step;
`Serve` stands for whoami and the file handlers, which use what was extracted.
A cookie is any token ever issued, or none. `Restart` loads any of the
configurations and starts with an empty table. `issued` and `ended` are
history: what each login answered, and which tokens a logout of their user or
a restart has ended. 32 random characters are taken never to repeat.

### Guard and the code

`Arrive` is what `check` does before it takes the lock, reading the clock
included; `Decide` is everything under the lock, so checks decide in an order
that need not be that of their clocks. `opened` is history: the window the
counter of an address is in and what it has admitted. Without a configured
rate limit `check` is the two lists, which is `Arrive` alone. A Duration is a
number of ticks; `duration_since` and `saturating_sub` stop at zero.

### Proxy and the code

`Proxy` extends `Guard`: each request has its `check[q]`, and `Gate` is the
action `Arrive` or `Decide` of `Guard` taken by a handler that stands at its
gate. `handler[q]` says where the task of the request is, `upstream[q]` what
the other end of its exchange has done. `Accept` and `Handshake` are the accept
loop and `serve_conn`; `Refuse` is the two early returns with 403 and 429;
`Forward` goes up to `client.request(req).await` and may fail on the URI;
`RequestFails` and `ReplyHead` are its two results; `Collect`, `CollectFails`,
`CollectEnds` are `body.collect().await`; `Relay` is the reply that is passed
on. `ClientLeaves` may come at every `await`: hyper drops the future of
`handle()`. `Upstream` is external and may refuse, stall for ever, break off
after any chunk or finish. That hyper tells a body that broke off from one
that ended is taken from it (a body without a length that ends with its
connection cannot be told apart by anybody).

A head is a function from header names to values: `connection` stands for the
names of `HOP_HEADERS`, `forwarded_for` for the two headers with the address
of the peer, `frame_options` and `server` for the four that are always set.
Requests of one connection share only the address of the peer, so that one
request per connection shows all interleavings. The streaming of request
bodies is left out: a client that breaks off there is a request that fails. So
are the connection pool of hyper and its retry of a request on an idle
connection that was closed before a byte of it was read.

### Startup and the code

`prog` is the program that starts, `found` whether `locate_config` found a
file. `ReadLine` is the body of the loop of `parse` for one line: `PassOver`
(empty, comment, unknown directive), `Reject` (a `bail!`, a `?`, or an index
out of bounds, which panics: `Proxy.Cert`, `Key`, `Allow`, `Block`,
`RateLimit` and `LogLevel` do not look for their argument) or `Take`, one case
of `WebdSet` or `ProxySet` per directive. `EndOfFile` is what `parse` does
after the loop, `FlyoMain` and `ProxyMain` are what the two `main` do up to the
bind, with everything that may fail in between. The variables keep the file
that was read, so that the configuration can be compared with it.

A line is a sequence of characters and of runs of characters that no parser
takes apart. `Tokenize` is the loop of `tokenize` as a fold; `Words` says
without a state what it should return (ink between the gaps that lie outside
of quotes), and the properties read the file with `Words` only.

### Browser and the code

The page has one thread: what interleaves is the code between two awaits. Each
element of `Task` is a slot for one run of an async function (`refreshListing`,
`uploadAll`, `deleteSelected`, the submit handlers, `onSignOut`, the first
`whoami`); `task[t]` says which call it waits for and what it has in its
locals. When the reply comes, the run goes on with the signals as they are
then: `ListReply`, `ChangeReply`, `DeleteReply`, `UploadReply`, `WhoamiReply`,
`LogoutReply`, `LoginReply`. The other actions are the user's: clicks (held off
by an open dialog, `Uncovered`), keys (which reach the window through one),
history buttons, dropped files. The file dialog of the browser is one of the
`modals`: opening it takes the permission to upload; its answer
(`ChooseFiles`) comes at any later time, no permission is looked at again, and
the files go to the directory the page is in by then. `HashChange` is the effect on `currentPath`
and `StripDone` the timer of `uploadAll`. `entries` records with the names
which directory they are of; the page itself does not know. The server is
external: any call succeeds or fails, and a listing holds any names that
`Listing` allows. `busy` belongs to a mounted sign-in dialog, so it is reset
when the dialog closes and is not touched by the login of an earlier one.

## Runs

Every property of a passing run has a mutant in `PROJECT.json`: an operator
that replaces a mapped definition the way a plausible bug would, which makes
TLC report that property.

| run | bounds | shows |
|---|---|---|
| `Uploads` | 3 requests out of upload, rename, delete over `/f`, `/d`, `/d/g`; bodies of 2 chunks; all faults | `WholeFiles`, `CommitStoresUpload`, `FilesOnlyReplaced`, `ReplyAfterCleanUp`, `ImplementsStore` |
| `Answers` | 2 requests out of all six endpoints, with refusals, `..`, ranges, bodies of 0 and 2 chunks, one tick of the clock, all faults | `DownloadUntorn`, `AnswersOrWaits` |
| `Ranges` | all header forms with numbers to 6, files to 5 bytes | `ReplyIsExact`, `RefusedOnlyOutside` |
| `Guard` | 5 checks, 4 addresses (two pass the lists), windows of 2 ticks, clock to 3, a map swept above 1 entry, budget 1 | `WithinBudget`, `RefusedWhenSpent`, `RetryIsEnough`, `WindowsApart`, `SweptIsOver` |
| `Proxy` | 2 requests from 3 addresses (one blocked, one not on the allow list), budget 1, windows of 4 ticks, 2 ticks to the second, bodies of 2 chunks, TLS, 2 heads that try to set the proxy's headers | `WholeReplies`, `HeadersKept`, `RetryAfterReaches`, `PassedOn` |
| `Startup` | all files of up to 4 of the 15 lines for flyo, of the 20 for the proxy | `StopsAtFirstBad`, `AsWritten`, `TlsAsAsked`; at most three users and an address to bind (`TypeOK`) |
| `Browser` | 2 runs at a time, a file and a directory with changing content, paths to depth 1, 2 uploads | `NothingStuck`, `SelectionShown`, `BarsMatchUploads` |
| `Sessions` | 5 requests, 3 tokens, 3 configurations (one drops a user, one has two users of a name), one restart | `LoggedOutStaysOut`, `SameGrant`, `OnlyOwnersEnd` |

Why the bounds are enough for what they show: an interference over the share
needs a victim in the middle of its steps and one or two others that move or
replace what it works on (three requests), and two chunks are the least that
can be torn; a stale clock needs one late check, one that opened the window
and one that makes the map large enough to sweep; the
proxy needs one request to use up a budget and one to be refused, and two
chunks for a body that breaks off in the middle; four lines are one more than
the three users that are kept, and one more than the three directives that
decide on TLS; in the page, two overlapping
runs are what a reply out of order takes, and two uploads make either a batch
with a next file or two batches. The theorems below remove
the bounds for the invariants they cover.

Fairness: `FairSpec` of `FileApi` has weak fairness of each handler's own
steps (`ServerStep`), `FairProxySpec` of `Proxy` of each request's own
(`Step`): the tokio runtime polls every task that is ready and its blocking
pool runs every call. Nothing is assumed of clients, of the upstream, or of
the accept loop. So `AnswersOrWaits` says that a handler whose turn it is
answers or comes to wait for its client, and no more, and `PassedOn` that the
gate holds nobody up and that a handler whose exchange has ended, however it
did, comes to its end too; an upstream that stalls is waited for, since there
is no timeout.

### Where the documentation says otherwise

Each of these runs checks one sentence of the docs, comments or tests, and TLC
finds a behaviour of the code against it.

| run | statement | what happens |
|---|---|---|
| `DocTrash` | fs_ops.rs:145, concurrent deletes can't clash | two deletes of `/f` in one second, with an upload of `/f` between them, share a trash name; the first file is gone for good |
| `DocDownload` | test_api.ps1:89, the full body matches | an upload between metadata and open: the new file, cut at the old length, as a complete 200 |
| `DocSelected` | App.tsx:101, "Delete selected" | after a navigation and before its listing arrives, Delete and a confirmation delete the names still selected in the directory the page has moved to |
| `DocWindows` | guard.rs:8, a fixed window per address | a check with an old clock re-creates a swept counter: two windows overlap and each has its budget |

Met while reading and not given a run: `rename` onto an existing file replaces
it and answers 200 (api.html:126 says 409); a download of a zero-byte file
announces `Content-Length: 1` for no bytes (`end - start + 1` at
handlers.rs:140; `ReplyIsExact` states it as it is); when the directory of an upload moves
under it, the clean-up looks in the old place and the temporary file stays in
the moved directory after the reply (concurrent_test.py:117 asserts that none
stays), and when the disk refuses the clean-up it stays where it is; two
concurrent mkdirs of a path both
answer 200 (api.html:107 says 409); the temporary file of a running upload has
no leading dot and is listed (api.html:99); `/.Trash` itself can be listed by
a user with the `S` tag (api.html:116); a path that vanishes between check and
use answers 500 (api.html:125 says 404); a malformed `Range` is ignored
and the whole file sent (handlers.rs:124 and 171 say it is refused with 416); a range that ends beyond the file is
refused although its first bytes exist (api.html:91 and 127); the proxy
buffers responses (flyo-proxy/src/main.rs:8 says both directions stream); two
`Webd.User` lines may share a name, and then a session of the second has the
permissions of the first (hence the condition in `SameGrant`). At the start:
`Webd.Listen` is "repeatable" (config.rs:5, config.html:73) but only the first
address is bound; `Proxy.Cert` without `Proxy.Key` silently serves plain HTTP;
several `Proxy.*` directives without their argument panic instead of naming
the line; an empty quoted password `""` is no token, so that its user line is
an error; a file without `Webd.Root` leaves the root empty, where no file at
all means the current directory. In the proxy: its own 403, 429 and 502 carry
no security headers, and headers that a `Connection` header names are passed
on. In the page:
the rows of a slow listing replace those of the directory shown since; an
error message stays when a later listing succeeds first and the earlier one
then fails; failed bars never go; bars are matched to rows by name in any
directory; a sign-out does not refresh the listing.

## Proofs

TLAPS proves every safety property that a passing run checks, invariants and
action properties alike, and the refinement of `AtomicStore`, for every value
of the constants. The assumptions are named and TLC evaluates them in the
runs: `TreeAssumption`, `FileApiAssumption`, `SessionsAssumption`,
`GuardAssumption`, `ProxyAssumption`, `BrowserAssumption`, and for the start
`StartupAssumption`, `NumbersAssumption` and `DefaultAssumption`. Most say of
what sort a constant is. Those that say more: requests name no temporary files
and the share starts as a tree in which no two names share a file
(`FileApiAssumption`); a token that parses as a u32 is not empty and holds no
space (`NumbersAssumption`). The theorems of `RangeProofs` assume that its two
bounds are natural numbers.

* `TypeCorrect`, `NeverHalfUploaded` (`FileApiProofs`). `WholeFiles` is not
  inductive: a rename makes a plain name out of a temporary one, so one must
  know that what stands there is complete. The invariant `IInv` adds, per
  handler, which operation its label belongs to (`Role`), that an upload works
  on a temporary sibling and everybody else on plain names (`Naming`), and how
  much of the body is in its inode at each label (`Stage`); that no two
  uploads share a suffix (`OwnSuffix`); and, per entry of the share, that a
  temporary name holds the file of the upload that drew its suffix and a plain
  name one that is whole and no longer written (`Entries`). There is a lemma
  per action; those that move entries rest on facts about trees, above all
  `RenameEntries` (every entry after a rename was one before), `RenameNames`
  (below the renamed entry names stay) and `RenameKeepsTree`.
* `AnsweredAfterCleanUp`, `StoredWhenAnswered`, `NothingLost` (`StoreProofs`).
  Given `IInv`, every step of the handlers has one of seven shapes
  (`HandlerShape`): it only looks, makes a directory, creates a temporary
  file, writes to its own, commits it, cleans it up, or moves an entry; any
  other step is an arrival, or something from outside (`StepShape`). Each
  property then has one case per shape. The fact that carries them is
  `OwnTempFacts`: whatever has been renamed, deleted or uploaded meanwhile, if
  there is anything at the path of an upload's temporary file, it is the file
  of that upload and no other; if the directory has moved, there is nothing,
  and both the commit and the clean-up fail without harm. When the disk
  refuses the clean-up, whose error the code drops, `AnsweredAfterCleanUp`
  says that the share is as before and the answer an error.
* `Implementation` (`StoreProofs`): the handlers implement `AtomicStore` with
  `Visible`, the share without its temporary files and with contents for
  inodes, as its store. By the shapes: a commit is one `Put` of a whole body
  (`CommitsMaps`, with the invariant `Sized`: an upload has a size that
  requests have), one level of `create_dir_all` one `MakeDir` (`MakesMaps`), a
  rename or delete one `Move` (`RelocatesMaps`, the longest: what the clients
  see after a rename is the rename of what they saw before, since a temporary
  name stays one below a directory that moves). All else is a stutter, because
  no plain name holds a file that is still written (`SettledKept`).
* `DownloadsUntorn` (`StoreProofs`). `Servings` says of a download that has a
  handle on a file that the file is settled, that its position is where the
  `Range` asked it to start, and that what it has handed out are the chunks
  of the whole body from there on; `SettledKept` keeps the file as it is while
  names are moved, replaced and deleted above it.
* `RepliesExact`, `RefusedRightly` (`RangeProofs`): by cases over the form of
  the header, for every size of the file, none included. `Asked` is the
  reference: the bytes a range asks for, without the arithmetic of the code.
  `ReplyIsExact` holds a 206 against it and says that a 200 answers only a
  header that is absent or malformed.
* `BudgetKept`, `RefusalsJustified`, `RetryOutlasts`, `WindowsDisjoint`,
  `SweepSound`, `GuardTypes` (`ProxyProofs`). `GInv` adds that a counter's
  window is the last one opened for its address, that the counter tells how
  much of the budget is spent (`Accounted`), and that a check's clock is not
  ahead of the clock (`ReadBefore`). `DecideFacts` condenses what happens under the lock.
* `ProxyImplementsGuard`, `ProxyWithinBudget`, `ProxyTypes`, `RepliesWhole`,
  `HeadersTrue`, `RetryAfterOutlasts` (`ProxyProofs`). The first says that
  every behaviour of the proxy is one of `Guard`, so that the theorems above
  hold inside of it, as the second does. The invariant `PInv` joins `GInv`
  with what holds of each exchange (`Exchange`): a handler holds no more than
  was sent, an exchange that has ended has sent all, and the window that
  refused is over when the wait that `check` answered is. For the seconds of
  `Retry-After` that is `RetryAfterEnough`, on integer division. `ReturnInv`
  and `MoveInv` treat the steps that answer and those that do not, and there
  is a lemma per action over them.
* `TokensAreWords` (`ConfLinesProofs`): for every line, of any length and of
  any characters, the loop of `tokenize` returns its words. `After` relates
  the state of the loop to the line so far: what is in `out` and `current` are
  the words, the last of them open if ink follows the last gap (`Late`), and
  `in_quotes` is the parity of the quotes. `AfterOneMore` is one turn of the
  loop, by the four cases of a character. The induction needs no theorem with
  an operator for its parameter: `NatSetInduction` states it for a set of
  numbers, and follows from `Nat` being well-founded.
* `StartupTypes`, `OnlyGoodLines`, `ConfiguredAsWritten`, `TlsChosen`
  (`StartupProofs`), for files of any length. With `TokensAreWords` a line
  has three ways to be treated (`Parsed`): passed over, rejected, taken.
  `StopsAtFirstBad` is inductive over well-typed states; that a rate
  `parse_rate` takes is a number, a slash and a unit is `RateForm`.
  `AsWritten` speaks of the last, the n-th and the number of lines with a
  directive; the proof replaces these by the list of their words (`ListIn`),
  which a line extends by one or leaves (`ListGrows`). It compares values, not
  only what is set: the certificate and key, the names of `Proxy.SelfSigned`,
  the number and the period of the rate, the defaults. The invariant `Says` is
  then that each field of the configuration is a function of such a list, and
  that `served` follows from the configuration; `FlyoTake` and `ProxyTake`
  have one case per directive.
* `LogoutIsFinal`, `GrantIsKept`, `EndedByOwner`, `SessionTypes`
  (`SessionProofs`). `SInv` adds that every live session was issued, not
  ended, and belongs to a user of the loaded configuration with the
  permissions of its login (`Live`).
* `TypeCorrect`, `SpinnersEnd`, `OnlyRowsSelected`, `BarsAreUploads`
  (`BrowserProofs`). `NothingStuck` and `SelectionShown` are inductive over
  well-typed states: each run is followed through its awaits. For
  `BarsMatchUploads` one must know that the files of two batches are disjoint
  and not above `uploadSeq` (`Batches`), else the timer or the loop of one
  could take the bar of another.

Only model-checked: the two liveness properties, `AnswersOrWaits` and
`PassedOn`. They rest on weak fairness, hence on when a step is `ENABLED`,
which the prover does not handle. Recursive definitions over data are no
obstacle in themselves, as `TokensAreWords` shows; `SelectSeq` of the standard
module is, because the prover has no definition for it, so the models use a
function over the chosen positions (`Spelled`) instead.

## Not modelled, and the plan

1. (done) `ShareTree`, `FileApi`, `AtomicStore`, `RangeMath`, `Guard`,
   `Sessions` and `Browser`, with their runs and first theorems.
2. (done) `Proxy` over `Guard`, `Startup` over both parsers, with their runs
   and theorems.
3. (done) The action properties of `FileApi`, the refinement of `AtomicStore`,
   untorn downloads, and all invariants of `Startup`.
4. Left: properties for the hazards that have none yet, as far as the code
   promises anything there, with their theorems.

Not modelled: the embedded assets (`ui.rs`, `build.rs`), a lookup in a table
that is fixed when the program is built, with `index.html` for every other
path; the route table and the two stateless endpoints `/__health` and
`/__config`; what rustls and rcgen make of keys and certificates; the syntax
of cookies and of addresses; the look of the page, its languages and themes.
They keep no state, and nothing of theirs can interleave with anything else.
