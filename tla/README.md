# sandfs in TLA+

TLA+ models of `sandfs`, an in-memory file system with a shell for agents
(`src/sandfs/*.py`), the TLC runs that check them on small instances, and
TLAPS proofs of what holds for every instance.

The library is synchronous and single-threaded: one public method runs at a
time, from its argument checks to its last side effect. What makes it hard is
inside the methods and between them: a method that raises half way has already
changed something; several structures must follow the tree (an index, storage
adapters, hooks of the host, a working directory found through parent
pointers); snapshots bring back old states among things that have moved on; an
adapter has other clients; hooks and content providers are code of the host that
runs inside a method and may raise or call the file system again; and the host
bridge replays, call by call, what a process did elsewhere.

## 1. Inventory

| Component | State | Operations | Interacts with |
|---|---|---|---|
| Tree of nodes (`nodes.py`, `vfs.py`, `policies.py`) | nodes with kind, text, version, policy, parent; `cwd` | `mkdir write_file append_file touch remove move copy cd set_policy` | everything below |
| Full text index (`search.py`, `vfs.py`) | text by path | `enable_full_text_index`, per-file updates, `_rebuild_index` | follows writes, removals, moves, copies, loads, restores |
| Storage mounts (`adapters.py`, `vfs.py`) | `_storage_mounts`; an adapter's versioned entries | `mount_storage sync_storage`, writes and deletions of mounted files | compares versions on write; other clients write to it |
| Path and write hooks (`hooks.py`, `integrations.py`, `vfs.py`) | lists of prefix and callback | `register_*`, called in the middle of writes and removals | the host, which may call back |
| Snapshots (`vfs.py`) | `VFSSnapshot`: nodes, cwd, mounts | `snapshot restore` | replaces the tree; resets cwd, mounts, index |
| Host bridge (`shell.py`, `vfs.py`) | a temporary directory | `materialize`, the process, `_sync_from_host` | calls `mkdir write_file remove` one by one |
| Path normalisation (`vfs.py`) | none | `_normalize` | every method's first step |
| Providers and lazy loading (`providers.py`, `nodes.py`) | `loader`, `_loaded`, `_provider` | `ensure_loaded`, `read`, `mount_*` | user code that runs inside other methods |
| Search view (`vfs.py`, `shell.py`) | query context, a lazy directory | `enable_search_view`, `search_view_context` | index, providers |
| Visibility views (`policies.py`) | none | `allows`, `allows_node` | shell, search |
| Shell (`shell.py`, `shell_parser.py`) | environment, allowed commands, output limit | pipelines, redirections, the dispatcher, commands | every public method |
| FileSystemAdapter (`adapters.py`) | host files, versions from modification times | the adapter's four calls | the host's clock |
| Python helper, command line (`pyexec.py`, `cli.py`) | none | run code, parse arguments | shell, methods |

What makes each one correct:

- **Tree**: every node hangs from directories up to the root, the working
  directory too (or it was removed from one); moves neither lose nor duplicate;
  no call takes or changes what a policy protects; recursive calls that stop
  half way leave one of a few known trees.
- **Index, hooks, adapters**: they hold what the tree holds after every call
  that succeeds, and a recursive removal that fails half way has told them of
  exactly what it took.
- **Versions**: a write to a mounted file conflicts exactly when the adapter
  has moved on; a sync makes both equal again.
- **Snapshots**: a restore that succeeds undoes everything.
- **Host bridge**: a command that succeeds leaves the tree that the process
  left; one that fails has lost nothing; each one ends.
- **Shell**: a command that succeeds has done what it says for every operand;
  reading and writing the same file loses nothing; every line ends.
- **Hooks**: whatever a hook does in the middle of a write or a removal, what
  the adapter and the index hold is in step when the next hook runs, and a host
  that only listens to hooks ends with the tree's texts, or was kept from an
  event for a reason it can know of.
- **Expected versions**: clients that share a file lose no update of each other,
  and none of them is refused for ever.
- **FileSystemAdapter**: what another program does to a file on the host is
  overwritten unseen only in the cases that its versions cannot tell apart.
- **Search view**: a search path shows the results of its own query, and a
  search that raises leaves no query behind.
- **Visibility views** (planned): listings, searches and reads agree on what a
  view lets through.

The hazards, each at its line and with the properties that cover it, are in
`PROJECT.json`.

## 2. Modules

| Module | Contents |
|---|---|
| `Paths` | paths as sequences of names, prefixes, `Rebase`; the universe `Path` |
| `FileTree` | trees as functions from paths to nodes; what the handlers make of a tree, recursive ones given by their possible results |
| `StorageAdapter` | `MemoryStorageAdapter`: entries, compare-and-write, delete |
| `VFS` | `VirtualFileSystem`: the variables and one action per public method |
| `VFSProperties` | what it promises |
| `TreeCalls` | the loops and recursions of `vfs.py` call by call, in a given order of the dicts |
| `TreeAlgorithms` | the claims that `FileTree` sums up what the calls of `TreeCalls` do |
| `Hooks` | writes and removals with hooks that raise or call back: a stack of calls, with its own variables |
| `Clients`, `AppendLog` | clients that share a file of `VFS` by expected versions, and the log they implement |
| `FileSystemAdapter` | a mount over a directory of the host, call by call of the operating system |
| `SearchView` | the search view, its loader and content providers: a stack of searches and loads |
| `HostBridge` | the host command on top of `VFS`, with its own variables, specification and properties |
| `Shell`, `ShellProperties` | a line of piped and redirected commands on top of `VFS`, one call per step, and what it promises |
| `MCVFS`, `MCTreeAlgorithms`, `MCHostBridge`, `MCShell`, `MCHooks`, `MCClients` | instances for TLC |
| `FileTree_proofs` | lemmas about paths, trees and adapters that the other proofs share; how the calls of `TreeCalls` end |
| `VFS_proofs`, `HostBridge_proofs`, `Shell_proofs`, `Hooks_proofs`, `Clients_proofs`, `FileSystemAdapter_proofs`, `SearchView_proofs` | the theorems about each module and their lemmas |

`Paths` is the base of `FileTree` and `StorageAdapter`, these of `VFS` and `TreeCalls`,
and `VFS` of `TreeAlgorithms`, which speaks of its states, and of `HostBridge`, `Shell`
and `Clients`, which add variables and take its actions as their steps. `Hooks`
takes the operators of `StorageAdapter` and `FileTree`, but not the actions of
`VFS`: a method of `VFS` is one step, and in `Hooks` it is cut wherever a hook is
called. `FileSystemAdapter` and `SearchView` stand alone, since what matters there
is inside a single file and a single directory.

### How the model corresponds to the code

- A tree (`fs`) maps every path of the universe to a node; kind `"none"` is no
  node. Texts are sequences of pieces, so that appending, overwriting and
  version checks can be told apart. `created_at`, `modified_at` and `metadata`
  are left out.
- `cwd` in the code is a node; `pwd` follows parent pointers, which
  `remove_child` does not clear. `cwd` in the model is the closest directory
  still in the tree and the names below it that are gone, so a removed working
  directory, one that is removed and made again, and one that is moved along
  with an ancestor are three different things, as they are in the code.
- A method that raises in the middle keeps what it did: `WriteFile` leaves the
  directories and the empty file when a policy or a version refuses the write;
  `PersistAndPublish` leaves the new text under the old version on a storage
  conflict; `Move` leaves the source cut off when the destination has a node of
  its name; `Copy` leaves the overwritten file removed when the copy would be
  inside itself; `Restore` and `LoadMount` leave what they had made.
- Recursive handlers run over dictionaries whose order the model leaves open.
  `RemovalOutcomes`, `LoadOutcomes` and `RestoreOutcomes` are the sets of
  results over all orders and all stopping places. `TreeCalls` has the same handlers
  call by call: loops as recursive functions of the number of turns, recursions as
  recursive functions of the path, and the order of a dict as a sequence of all
  paths, one of `Orders`. That the two agree, no result too many and none missing, is
  what `TreeAlgorithms` says. `restore` stops among the nodes of one depth, so what it
  has made besides is of that depth and lies beside the way to where it stops
  (`Beside`): a whole branch, or nothing of it.
- The entries of an adapter lie below its mount, as those of `MemoryStorageAdapter`
  do, whose keys are relative paths (`ConstantAssumption` says so of `Seed`).
- `index`, `store` and `mirror` are updated in the order of the code's calls.
  `mirror` is what a host has that applies every path event it receives to a
  copy of the files; one prefix stands for any number of hooks under it.
- `snap` holds one snapshot, the last; taking another replaces it.
- `HostBridge` exports the tree, lets the process leave any tree at all, and
  then makes one call of `VFS` per step in the order of `sorted(rglob("*"))`:
  `Bring` (with `mkdir`, `read_file`, `write_file`), `Drop` (`remove` of files,
  then of directories, deepest first), `Finish`. A call that raises ends the
  sync. `ReadText` is the translation of newlines that `read_text` makes and
  `write_text` does not.
- `Shell` takes a line as `parse_pipeline` gives it. `Begin` reads the input and
  looks the command up, `Change` and `Read` make one call for one operand (`cp`
  and `mv` have two), `Finish` applies the output limit and `Redirect` writes
  the output. `Dispatched` is the dispatcher with its list of allowed commands, and
  `FirstLines` and `LastLines` are the slices that `head` and `tail` take, for every
  count, also 0 and negative ones. Exceptions inside a command end the line with a result
  (`"failed"`); those of a redirection leave `exec` (`"raised"`). The text of an
  error is left out, so the output limit counts only what a command prints; so are
  the headings of `head` and `tail` and their `-c`, the commands that only print
  about the tree, `cd` and `pwd`.
- In `Hooks` the calls under way are a stack of records: which node the call works
  on, which hook it called last, and whether that hook still runs. `WriteFile` and
  `Remove` are the methods up to their first hook, `TellHook`, `HookReturns` and
  `HookRaises` the loops over the hooks, `TurnToPathHooks` the second half of
  `_emit_write_event`, `VisitChild` and `DropDirectory` the loop of a recursive
  removal. A call holds its node, not its path: once the node is taken out of the
  tree the call goes on with what was taken out (`inTree`, `left`). An exception
  unwinds the stack to the innermost hook that runs, which may catch it. `copy` and
  `saved` are two hosts of the documentation's kind: one copies the texts of path
  events, one keeps the highest version of write events. `astray`, `unsaved` and
  `recreated` say for which files they cannot be right: the hook was not told, was
  told late, or the file was written into a directory that was being removed (it
  then goes without an event, `vfs.py:570`). Hooks that move nodes, change policies or
  register hooks are left out, and so is the recursive removal of two directories
  in one another.
- `Clients` adds to `VFS` the three calls each client makes, and in `behind` the
  clients that looked at the file before it was last removed or restored.
- `FileSystemAdapter` has one step per call that reaches the disk: `exists`, `stat`,
  `write_text`, `stat`, `unlink`, `is_file`, `read_text`. Between any two, other
  programs write or delete the file. `clock` is the resolution of modification
  times: it may stand still. `excused` notes why the adapter need not have
  noticed a change: it came in the tick of one that the adapter knows, or between
  the calls of one operation; a write had failed half way; or the file had been
  gone when a write was refused, so that its versions started again.
  `FileSystemAdapter.read` is left out, since nothing calls it.
- `SearchView` has a text for each file, as the set of the queries that find it. A
  search path puts two calls on the stack, the search with its context and the
  load of the view; a file with a content provider is read in two steps, and in
  between the provider may do whatever the host may do. `calm` says of a search
  that no provider has written or searched while it was under way. The tree of
  results is flat, a view lets everything through, and the providers that a
  snapshot or the building of an index reads only answer.
- Operators introduced by a comment as a *slip* are no part of the model. Each
  is a plausible mistake in the definition below it; TLC finds the property it
  belongs to violated when it takes that definition's place.

## 3. Runs

No counter is unbounded: `Path` is a finite universe (a `move` or `copy` whose
result would leave it is not taken, `Fits`), `MaxLen` bounds the pieces in a
text, `MaxVersion` the versions, `MaxGone` the names below a removed working
directory, and `RoomToWrite` starts a host command only when each file can take
one more version, so that no sync is stuck at the bound. For the same reason a
line starts only when the texts and versions of all files are at most `StartLen`
and `StartVersion`.

| Run | Instance | Shows | Why it is large enough |
|---|---|---|---|
| `tree` | `Comb`: root, a, a/b, b; any write policy on any node; `cd` to any; expected versions | `TypeOK`, `TreeIsWellFormed`, `PolicyProtects` | a has a child and b can move into a and over a/b; removals stop below their target; the working directory is removed, moved and made again |
| `follow` | `Wide`: a with two children, b with one; one child and the root may be restricted; index on or off; hooks under a | `IndexFollowsTree`, `MirrorFollowsWrites`, `MovePreservesNodes` | directories with children move to free places; a removal takes one sibling and stops at the other; the rebuild of the index raises |
| `storage` | `Nested`: a mount m seeded with m/a, a mount m/n in it, to which m's adapter may have an entry as well; another client of both adapters | `StoreFollowsWrites`, `SyncConverges`, `ConflictsMatchDivergence` | versions 0 and 1 on both sides meet in every order; loads that stop; an outer sync clears the inner mount, makes a file of its directory, or brings it back |
| `snapshot` | `Stem`: root, a, a/b; a may be locked, the root hidden; working directory anywhere; index | `RestoreReturns` | a locked directory stops a restore, a hidden root stops its rebuild, the working directory is gone in the snapshot or since; there is no mount in it (with one at a the run takes too long), so what `RestoreReturns` says of mounts is not tested here |
| `algorithms` | `Fan`: root, a with a/a and a/b, b with b/a; b, a/a and a/b may be locked; a mount at the root whose adapter has a and a/a; all 120 orders of the paths | `MakingIsAllOrNothing`, `RemovalIsSummedUp`, `RestoreIsSummedUp`, `LoadIsSummedUp` | siblings before and after the stopping place, one with a subtree; two stopping places side by side and in two branches; file-directory conflicts among the entries |
| `host` | `Comb`; a/b may be locked or unreadable; a text with foreign newlines; every tree of files and directories the process may leave | `HostTypeOK`, `BroughtBackAgrees`, `SyncBringsTheHost`, `SyncOnlyApproaches`, `SyncEnds` | every change of kind, removal, rename and rewrite; a policy at a/b, the only place that has one in this run, stops the calls that reach it, and a file that is in the way of a directory stops them elsewhere |
| `shell` | root, a, a/b, b and a mount m with m/a; a/b may be locked, b unreadable; another client of the mount; fourteen lines of eleven commands, one of them not allowed | `ShellTypeOK`, `CommandsKeepTheirWord`, `ReadersKeepTheirSources`, `ExecEnds` | failures at the first and the second operand, in a redirection, by the output limit and by a conflict while the line runs; a file read and written by one command, by name and by `<`; counts of 1, 0 and -1 for `head` and `tail`; `cp` to a new name, over a file and into a directory, `mv` to a new name and into a directory |
| `hooks` | a directory with a file, two texts; two write hooks and two path hooks, of all paths and of the directory; three calls inside one another; versions up to 2 | `HooksTypeOK`, `FollowersInStep`, `CopyFollows`, `FlushedIsLatest`, `KindsAlternate` | a hook before and one after the hook that raises or calls back; a write, a removal and a recursive removal inside each other; a file written again before, during and after its removal |
| `clients` | three clients, one file, two removals or restores, versions up to 4 | `ClientsTypeOK`, `AddsAtOnce`, `EveryClientFinishes` | two clients may race for a version that a third makes valid again after a reset |
| `disk` | one file, two texts, two ticks after the first, three changes by others, four texts to write | `AdapterTypeOK`, `AgreementLasts`, `LostUpdatesAreExplained`, `ConflictMeansOthers`, `WantedIsWritten` | changes in the same tick and in another, before, between and after the calls of a write and of the sync and the write that follow its conflict; a file that is deleted and made again until its versions come round to the one the node has |
| `search` | a file with a content provider, two queries, texts that each, both or none of them find; index on or off; one snapshot; two searches inside one another | `SearchTypeOK`, `ContextFollowsCalls`, `ResultsComeFromOutside`, `SearchPathIsFresh` | a nested search with the other query loads the directory that the outer one is loading; providers raise in both; a second file adds only the order of reading (checked once with two files and texts that one query finds, 2.1 million states, with the same outcome) |
| `bad_move` | `Comb` | violates `FailedMoveChangesNothing` | |

`follow` and `storage` write one text, and the tree's versions go up to 1, so that a
file is written once after it is made; that longer histories keep what the runs show
is what the theorems about the same properties say.

`follow` uses the constraint `InStep`: it expands only states whose index and
mirror are in step with the tree. Its step properties speak of steps from such
states, every tree of the instance is reached through them by writes and
removals, and steps out of them are still checked.

Fairness: `VFS` has none. Its callers may stop at any time, and it promises
nothing about the future. `HostSpec` has weak fairness of `Sync`: once a host
command has started, its thread runs the sync to its end. Nothing is assumed
about the start of commands. `SyncEnds` needs no more. `ShellSpec` has weak
fairness of `ShellStep`, for the same reason: `exec` is a loop that calls the
file system and waits for nothing. The other client of the mount has none.
`ClientsSpec` has weak fairness of each client's next call: hosts that retry do
make their next call, and a refusal is a step; resets are bounded and have none.
`AdapterSpec` has weak fairness of `ThreadStep`, the calls of the operating system
that a call under way still makes and the retries of a client that has not given
up; `WantedIsWritten` then needs that the other programs stop, which their bound
says. `Hooks` and `SearchView` have none: a hook or a provider may never return.

`AddsAtOnce` is a refinement: `ClientsSpec` implements `AppendLog`, where a client
adds its piece in one step, with the log mapped to the text of the file, `begun` to
the clients that have read a version, `finished` to those whose write was accepted.
The one exception is stated in the abstract module: after a reset the next write
of a client that had looked before it is not bound to anything.

The state spaces have no deadlock: a refused call is a step (`Raise`), and `Clients`
has a step that changes nothing when all clients are done.

### What the violated property says

`FailedMoveChangesNothing`: `mv a b` where b holds an a. `move` cuts the source off,
then `add_child` raises `NodeExists`, and the whole source is lost (`vfs.py:625`),
against `docs/roadmap.md:33`: "so agents can restructure files safely".

### Noticed while modelling

In the model, but without a run of their own:

- Copying: `cp -r / a` over a file a removes the file from the tree, but not from its
  adapter, before the copy into itself is refused (`vfs.py:670`).
- Moves and copies: neither `move` nor `copy` sends a path event, so a mirror keeps a
  moved file at its old place (`docs/roadmap.md:8`: "path hooks so hosts can mirror
  activity elsewhere"); neither reaches the adapter, and the next sync undoes them
  (`vfs.py:627`, `:685`; `README.md:141`: "`mount_storage` keeps the virtual tree
  synchronized with the adapter").
- Rolling back: a snapshot with a directory below a read-only one cannot be restored,
  since `restore` uses `mkdir` after it has given the parent its policy back; the tree
  from before is gone by then, too (`vfs.py:799`; `README.md:151`: "so you can checkpoint
  before an agent action and roll back on failure").
- Expected versions: a file that is removed and written again starts at version 0, so
  that a client from before the removal may overwrite it with its old text
  (`vfs.py:161`; `README.md:176`: "use optimistic versions to avoid clobbering
  concurrent updates").
- Removals: a file that a hook writes into a directory while that directory is removed
  goes with it, without an event, and its entry stays in the adapter and the index
  (`vfs.py:570`).
- Snapshots: `restore` raises at its end when the working directory was already gone
  when the snapshot was taken, and then leaves the old index (`vfs.py:813`); it brings
  back the versions of the tree but not those of an adapter, so that each write to a
  file written since conflicts until a sync, which undoes the restore (`vfs.py:784`);
  it brings back neither loaders nor content providers, so that a restored search
  view shows nothing (`vfs.py:788`).
- Mounts: a write that a storage conflict ends leaves its text in the file
  (`vfs.py:232`). After a sync of an outer mount the directory of an inner one is gone
  unless the outer adapter has entries there, and `sync_storage` of the inner mount
  raises until the directory is made again (`vfs.py:245`). A `FileNotFoundError` from the
  `FileSystemAdapter`, when the file goes between `exists` and `stat`, is no
  `ValueError`: the node keeps the raised version with a text that never reached
  the disk (`vfs.py:231`). A write that finds the file gone on the host is refused,
  and the adapter forgets its version (`adapters.py:89`); when others make the file
  again, its versions start at 0 and may come to the one that the node still has,
  and then a write overwrites them unseen. This reason was missing from `excused`
  until the proof of `LostUpdates` asked for it.
- Hooks: a write hook that keeps the highest version keeps a stale one when a write
  hook before it removes the file being written.
- Search view: with an index, files of content providers are found by the text
  they gave when the index was built; one provider that raises makes the whole
  search, and the building of the index, raise (`nodes.py:64`).
- Host bridge: after a host command, files that may not be read count as changed
  and are written again with a new version; files with foreign newlines are
  rewritten as well, with other newlines (`shell.py:240`). Below a read-only directory
  with a subdirectory every host command fails, even one that changes nothing
  (`shell.py:227`). The README says that `host` exports the subtree and discards the
  files, while the code exports the whole tree and brings the changes back
  (`shell.py:153`).
- Shell: an input that cannot be read or a redirection that is refused leaves
  `exec` as an exception (`shell.py:337`, `:314`), although `docs/vision.md:18` says
  that commands are executed "returning a `CommandResult` object"; `| cmd` after a
  redirection reads an empty text; `tail -n 0` prints everything (`shell.py:1237`); an
  empty list of allowed commands allows all of them (`shell.py:72`).

## 4. Proofs

All for every value of the constants: `Path`, `Name`, `Data`, policies, mounts,
adapters, hook prefixes, places, clients, queries and bounds. The assumptions
are those of the modules: `PathAssumption` (paths are sequences of names, closed
under prefixes, with the root), `ConstantAssumption`, `HostAssumption` and their
like (types of the constants). `Path` is not assumed finite, but for `MovesKeepNodes`,
which speaks of cardinalities, and for the three theorems about what a handler ends
with over all `Orders`: of endless paths there is no order. `OrderAssumption` asks of
`Orders` that any nodes may be the first of their dicts and any others the next;
the set of all orders is one such. Each safety property and step property of the
passing runs is a theorem.

- `FileTree_proofs` has the facts about prefixes, parents and `Rebase`, one lemma
  per tree operator (it returns a tree, a well-formed one, and leaves the rest
  alone), and `LeastElement`, from the library's theorem on well-founded
  relations, with which the `CHOOSE` of `Min`, `Max` and of the longest mount
  prefix can be used.
  Its second half is about `TreeCalls`. `LoopInvariant` says that what holds before a
  loop and is kept by each turn holds at its end; that the function of the turns
  exists (`TurnsExist`), and those of the recursive calls (`RemovesExists`,
  `WalksExist`), is proved by least counterexample, the longest path being the bound
  of the recursion. Where a loop is after n turns is then an invariant of n:
  `LoadEnds`, `ChildrenEnds`, `WalkLoopEnds`, `DepthEnds`. A call that stops stops at
  the first node, in the order given, of those it could stop at (`Precedes`), and has
  finished what came before it on either side of the way there (`FinishedFirst`,
  `SoonBeside`). For the other direction, an order is chosen that has the wanted
  branches first and the way to the stopping place next (`RemovalStopsThere`,
  `RestoreStopsThere`, `LoadEndsThere`). `LoadSums`, `RemovalSums` and `RestoreSums` put
  both together.
- `VFS_proofs`: `TypeCorrect` and `TreeStaysWellFormed`. The invariant is
  `Inv == TypeOK /\ TreeIsWellFormed`. Neither half is inductive alone: a
  handler returns a tree of the right type only from paths whose parents are
  in the tree, and a well-formed one only from nodes of known kinds. There is
  one lemma per method; the cases with content are `Graft` (a moved subtree hangs
  from its new parent), `Load` and `RestoreTree` for every stopping place, and
  `CwdFacts` (where the working directory hangs after a removal).
  The same module has the eight step properties of `VFSProperties`, from `Inv`.
  `StoreIsKept`, `MirrorIsKept` and `IndexIsKept` rest on what a write that returns
  and what a removal, stopped or not, do to all followers together (`Written`,
  `RemoveOutcomes`); `ConflictsNeedDivergence` and `SyncBringsTheStore` on the
  longest mount prefix being unique. `ConflictsTellTheTruth` goes through the calls
  that leave a file where it is: none but a write changes its version, a write that a conflict
  ends takes it back, and one that the adapter accepts is not for a file of which it has
  another version. `RestoreIsComplete` and `MovesKeepNodes` need
  one more invariant, `BareTrees`: where there is no node, no text, version or
  policy is left behind. `PoliciesProtect` follows a protected node through every
  call; `MovesKeepNodes` shows that a move is a bijection of the nodes.
  The claims of `TreeAlgorithms` are its last four theorems: `MakingNeverStopsHalfWay`
  and `RestoreOutcomesAreExact` from `Inv`, `RemovalOutcomesAreExact` from `Inv` and
  `BareTrees` (a removal clears the nodes below, so nothing may be hidden where no node
  is), and `LoadOutcomesAreExact` with one more invariant, `StoresBelow`: an adapter
  has entries below its mount only, so that none is for the root.
- `HostBridge_proofs`: `HostTypeCorrect`, `BroughtBackStays`, `SyncIsComplete`
  (a host command without an error leaves the process's tree) and
  `SyncApproaches` (each call changes a node only to what it is on the host,
  and nothing is taken away before all is back). The invariant adds to `Inv`
  that the process's tree is well-formed and that every node already brought
  back agrees with it. That it is kept rests on each of the calls changing only
  the node it is for and missing directories above it (`BringDirFacts`,
  `BringFileFacts`), and on a missing node having nothing below it on the host
  (`DropFacts`).
- `Shell_proofs`: `ShellTypes`, `CommandsDoWhatTheySay` and `SourcesAreKept`. What is
  said of a command that is done is the end of what `ShellInv` says while it runs: its
  operands are the ones that are done and the ones to come (`Underway`), and what it
  promises holds of the ones that are done (`Accomplished`). A step adds the next
  operand to them; that it does not undo an earlier one is a lemma per command
  (`TouchMakes`, `MkdirMakes`, `RemoveTakes`). `CopyArrives` and `MoveArrives` say where
  the node is afterwards, for each of the two places it may go to, and whether it is
  still where it was. What `cat` prints is the `FlattenSeq` of
  the community modules, a recursive function; the one thing needed of it, that one
  more text comes at the end, is proved from the least length at which it would fail.
  `SourcesAreKept` needs that no output is opened before all operands are done.
- `Hooks_proofs`: `HooksTypes`, `FollowersStay`, `CopiesFollow`, `KindsAreRight` and,
  for hooks of which the first path hook hears of every file that a write hook hears of,
  `FlushesAreLatest`. (That assumption is what the kept versions need: the first path
  hook is the one that drops them when a file is removed.) What the properties say
  of files without a call under way is the end of what `HooksInv` says of all calls on
  the stack: each call is right about its file or its event counts as stale
  (`CallIsRight`); a path hook has the file's text, or some call on the stack is still
  to tell it (`CopiesCome`); a write hook has flushed no version that is newer than
  the file's, and has the latest one or is still to be told of it, or, for a file
  that is gone, is to be told by the removal on top (`SavedComes`); a recursive removal
  under way still has every file below it on its list, unless the file was written
  meanwhile (`RemovalsSee`); and below the top each call waits for a hook or for a
  child's removal (`StackInOrder`), so that an exception ends the call on top and
  recursive removals only. `UntouchedPlace` carries this over every step for the
  places that the step leaves alone; the hook told next being the first that is due
  (`NextIs`) carries it over `TellHook`.
  `KindsAreRight`, that the first path hook hears "create" of a file that it does not
  have and "update" of one that it has, needs a second invariant, `KindsInv`, on top of
  `HooksInv`: calls of writes in one another have ascending versions, none newer than
  the file's (`VersionsAscend`), and the first path hook lacks a file exactly while the
  "create" of version 1 is still to come, and has a file that is gone only while the
  removal on top is (`FirstKnows`).
- `Clients_proofs`: `ClientTypes`, and `ClientsAddAtOnce`, the refinement of
  `AppendLog`: each step of `ClientsSpec` is one of the abstract log or a stutter, by
  the invariant `ClientsInv` that a client which no reset came between has seen no
  version still to come, and holds the file's text if it has seen the last one.
- `FileSystemAdapter_proofs`: `AdapterTypesHold`, `AgreementHolds`, `LostUpdates` and
  `ConflictsHaveACause`. `AdapterInv` says between any two calls of the operating
  system where a call is (`CallShape`), what it may rely on while nobody interferes
  (`QuietCall`, `Alike`), and that a change by others that nothing excuses will be
  noticed by the comparison to come (`Noticeable`).
- `SearchView_proofs`: `SearchTypes`, `ContextIsRestored`, `ResultsAreOfFiles` and
  `SearchesAreFresh`. `SearchInv` says that each search on the stack remembers the
  query of the one below it (`Nested`), that no result is a result of the view itself
  (`FlatEverywhere`), that a view without a loader counts as loaded (`LoaderGone`), and
  of each search that no provider disturbed that the loads above it are for its query
  and right as far as they have come (`CalmSearches`).

Only model-checked:

- `WantedIsWritten`, `EveryClientFinishes`, `SyncEnds` and `ExecEnds`: liveness under
  fairness is out of the prover's reach.

## 5. Not modelled, and the plan

Left out for good: the text that commands print, argument parsing, matching of
queries and patterns, the Python helper and the command line (they have no
state of their own), timestamps and metadata, other threads (the library takes
no locks and its documentation promises nothing to several threads).

Planned, in this order:

1. Visibility views: what `ls`, `tree`, `search` and the shell's reads make of the
   nodes that a view leaves out, and `cd` and the working directory of the shell.
2. `Normalization`: `_normalize` as a fold over the parts with `.` and `..`, against a
   reference definition, and how the handlers use it. Until then every module is
   given normalised paths.
3. Lazy trees outside the search view: providers nested in what a loader returns,
   and loaders that the tree's own methods start.
4. The rest of `Shell`: searches, variables and globs; host commands over a mount.
5. An abstract file system (texts by path) that `VFS` implements while no call
   raises, by a refinement mapping that forgets versions, policies and followers.

Theorems to come: the abstract file system of point 5, whose refinement would be a
theorem about `VFS`; and that `SearchView`'s view and `Hooks`' tree are kept by the
handlers of `VFS`, which would tie the three models together.
