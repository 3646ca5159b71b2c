# A TLA+ model of dnf-plugin-p2p

dnf-plugin-p2p lets the machines of a LAN share RPM packages. This directory
holds TLA+ modules that model its core, TLC configurations that check small
instances, and theorems that TLAPS proves for every instance.

`S:n` is line n of `src/p2p-proxy-server/p2p_server.py`, `C:n` of
`p2p_cache.py`, `L:n` of `p2p_libp2p.py` (same directory), and `P:n` of
`src/plugins/p2p_plugin.py`.

## The system

| component | state | operations | talks to |
|---|---|---|---|
| DNF plugin (P) | configuration | hooks `init`, `repos_configured`, `pre_transaction` | HTTP: `/ping`, `POST /expected_hashes`; systemd |
| HTTP proxy (S) | expected hashes, statistics (each behind a lock); one thread per connection | `do_GET`, `do_HEAD`, `do_POST`, `do_CONNECT` | cache (calls, shared directory), node (calls), peers and mirrors (HTTP) |
| package cache (C) | `index` {hash: name, size, last access}, the index file, the package files | lookup by name or hash, `add_to_cache`, `evict_if_needed`, load and save | called by proxy threads and the query handler |
| libp2p node (L) | peer table, queue of discoveries, a Trio loop in a thread of its own | `start`, `stop`, `on_peer_discovery`, `query_handler`, `query_peers_for_package`, diagnostic check | mDNS threads, proxy threads, cache |
| rate limiter (L) | a token bucket per peer | `allow`, pruning | query handler |
| command line client | none | prints `/stats`, test transfer | HTTP |
| packaging | systemd units, SELinux policy, patches of py-libp2p | | |

What is hard in it:

- **Interleaving.** The server is a `ThreadingHTTPServer`. The index has a lock,
  but the package files, the temporary file of a download and some reads of the
  index are used without it (S:343, S:353, S:371, S:901).
- **Failure in the middle.** A download has many sources in turn and can fail
  before, while and after bytes reach the client; disk writes fail; the index
  is rewritten in place.
- **Crashes.** systemd restarts the daemon (`Restart=on-failure`); what the next
  start finds is files, an index file that may not parse, and temporary files.
- **Two worlds of threads.** The node runs a Trio loop, and ordinary threads
  (mDNS, HTTP) call into it and wait for it while locks are held.

What makes each part correct: the cache must know which file has which hash,
whatever is evicted, rejected or lost, and keep to its limits oldest first; a
download must publish whole, verified files or nothing, serve a client the
content it expects, and end; the node must start, hear of every peer once, and
stop. `PROJECT.json` lists the hazards line by line.

## Modules

| module | models | source |
|---|---|---|
| `PackageStore` | what the cache promises: an abstract specification | C, S:328-373, S:897-903 |
| `PackageCache` | the cache under its callers; implements `PackageStore` | C, S:328-442, S:897-903 |
| `PackageCacheProofs` | its safety, its limits and its refinement, proved | |
| `Migration` | the start of the cache: move of the legacy directory, load of the index | C:41-142 |
| `MigrationProofs` | its safety, proved | |
| `ByteRanges` | the arithmetic of ranges, as operators | S:536-628, S:703-710 |
| `ByteRangesProofs` | their correctness for every size, proved | |
| `Transfer` | one GET from lookup to the end of the reply, with real temporary files; uses `ByteRanges`, implements `PackageStore` | S:290-444, S:575-628, S:698-909 |
| `TransferProofs` | its safety and its refinement, proved | |
| `Transaction` | the DNF plugin, the expected hashes and the service they talk to; its cache is `PackageStore` | P:100-320, S:141-178, S:1193-1240 |
| `TransactionProofs` | its safety, proved | |
| `NodeStartup` | start and stop of the node, hand-over of discoveries | L:182-332 |
| `NodeStartupProofs` | its safety, proved | |
| `PeerTable` | the node's table of peers under reports, checks and queries | L:195-200, L:316-330, L:381-566 |
| `PeerTableProofs` | its safety, proved | |
| `TokenBucket` | what the rate limiter promises: an abstract specification | L:115-160 |
| `RateLimiter` | the limiter with its pruning; implements `TokenBucket` | L:115-160 |
| `RateLimiterProofs` | the refinement, proved | |
| `MC...` | small instances for TLC | |

How they fit together: `Transaction` uses the abstract store. `PackageCache` and
`Transfer` both implement it, each in detail what is one step in the other:
`PackageCache` has the lock, the eviction pass and the index file, and takes a finished
download as one step (`Place`); `Transfer` has the writes, inodes and renames of a download,
and takes a use of the index as one step. `Place` and `Rename` are both `Publish`.

### PackageCache

A file is identified with its SHA-256, so `files` maps a name to a content or
`None`. `index` is the dictionary (a set of entries with distinct hashes), `saved`
the index file, `torn` says that the file does not parse, `stale` that the last save
could not open it. `phase` and `holder` are the cache lock: everything the code does
in one `with self.lock` block is one critical section, of one step for a lookup and of
several for a registration (`Register`, then `EvictStep` once for each entry,
`EvictDone`), and each ends in `Save`. Steps outside the lock are actions of their own:
`Check` reads the index, `UnlinkCorrupt` removes a file, `Place` is the rename of a
finished download, and they may fall between any two steps of a critical section.
`Check` may also end the request: the loop at S:343 raises when another thread changes
the dictionary under it. `Query` is any lookup by others: HEAD, a remote GET, the query
handler. `Restart` may come at any moment; it leaves the index file torn if it comes
during a save.

`Place` publishes whole verified content. That downloads really do so is the
business of `Transfer`.

`Faults` names what may go wrong, and the run has all of it: `"torn"` (a save cut short
by a full disk), `"stale"` (the index file cannot be opened and the old one stays;
C:149-152 swallows that), `"unlink"` (a file cannot be removed, by an eviction or by
the rejection of a corrupt copy).

**Names in doubt.** Three things in the code leave an entry in the index that the next
download makes false, though no two local requests overlap. The history variable
`doubted` collects the names, so that the properties can say what holds of all others:

- the unlink of a corrupt copy fails and the file is still there (S:352-362): the
  exception skips the removal of the entries, the download goes on, and its rename
  replaces the file;
- that unlink fails because the file has vanished, by an eviction that has removed it but
  not yet saved that its entry is gone;
- a save fails and leaves the old index file, and a restart loads an entry from it
  that memory had dropped (`Revived`).

A hit on such a name compares the expected hash with an entry that may be false.
`IndexTruth` and `Grounded` therefore except these names, and in `StoreSpec` they leave
the store. While `stale` holds, the index file is not counted among the claims
(`OnFile`): what a restart makes of it is what puts names in doubt.

### Exclusive: the environment assumption

`Exclusive = TRUE` stands for a client that behaves as a single dnf does: no two
requests of the local dnf for one file name are in progress at once (dnf holds a
system-wide lock for a transaction and asks for a package once). It is the conjunct that
names it in the guard of `Get` (`PackageCache`) and in `MayAsk` (`Transfer`), and nothing
else. Remote clients, HEAD requests and peer queries are not restricted: they overlap
with everything. Without the assumption `IndexTruth`, `Grounded` and `HitServesWanted` do
not hold (see `transfer_race`), while `Durable`, the order of evictions, their limit and
`TempsOwned` do.

### PackageStore

A name has a content or none, and the cache makes claims: pairs of a content and a
name. A claim is what a hit is verified against (S:343-348), so it must be true of the
file as long as there is one (`ClaimsTrue`). `Publish` needs a name that is free and
unclaimed, `Remove` drops contents (a registration evicts and claims in one use of the
lock), `Revise` makes and withdraws true claims. `PackageCache` implements it with
`store <- Trusted`, the files of the names that are not in doubt, and the entries of these
names in memory and on disk together as claims (`StoreSpec`): a crash makes no claim, and
neither does a failed save. `Transfer` implements it with the content of the inode that
has the name as `store`, every beginning of a content as `Hash` (`Packages`: a stream
that breaks off unnoticed is stored short, under its own hash), and the index as claims,
again without the names in doubt.

### Migration

The directories `main` and `nested` map a name to a content, the index files are sets of
entries, `leftovers` is what else is in the nested directory. Each step of
`_migrate_legacy_cache` and `_load_cache_index` that touches a file is an action, and
`Down` may fall between any two. `Start` reads the nested index, which counts as empty if
that fails, and lists the directory; `Move` is the visit of one file by the loop, with
the deletion of a nested file that gives way; `Truncate` and `Write` are the two halves of
the rewriting of the index in place. After the start, `Adopt`, `Publish` and `Evict` let the
cache change before the next one.

`Faults` names what may fail: `"list"`, `"read"`, `"move"`, `"unlink"`, `"write"`, `"clean"`.
All of it is passed over but the first: `iterdir` at C:58 is outside any `try` and
`__init__` calls it (C:38), so the process ends (`"unlisted"`) and systemd starts it again.

`Copy` is what `shutil.move` (C:63) does when its rename fails: it copies, which may come
to nothing, to a part of the file (`CutOf(n)`, a content of its own), or, when the nested
file is then not deleted, to a second file. The next start finds the cut copy under the
package's name, keeps it, and deletes the nested file that was intact (C:66-68).

Entries may go wrong in three ways, all in the code. `disputed` collects the names of the
first two and `cut` those of the third, so that `IndexTruth` can say what holds of all
others:

- a nested file whose name the cache has is deleted (C:67-70), but its entry is merged
  (C:82-84) and now describes the file that stayed;
- a nested index that could not be deleted (C:91-100) is merged again by the next start,
  by when its names may have other contents;
- the entry of a package whose copy was cut describes the whole. Such a package is lost,
  too: `PackagesKept` excepts the names in `cut`, and no others.

### ByteRanges

`SwarmRanges` is the division of `_download_swarm`, `ParseRange` is `_parse_range_header`,
`ServedPart` the bytes `_serve_file` sends. `Covers` and `Exact` are their reference
definitions: the ranges follow each other from the first byte to the last and are not
empty; a parsed range is the set of bytes asked for. A malformed header (416) is not
modelled. The last range would be empty for some sizes below `Divisible` (10); swarms
are asked for large packages only.

### Transfer

The file system is modelled by inodes: `disk` maps an inode to a sequence of
chunks, `tmp` and `final` map a name to the inode of `<name>.tmp` and of `<name>`.
A content `h` has the chunks `<<h, 1>>`, `<<h, 2>>` and so on, so that a chunk tells where
it belongs: an inode has the SHA-256 of `h` only if it is `Full(h)`. A thread keeps its
inode open (`fd`) after the name is gone or taken, `open` with `"wb"` truncates whatever is
there, and a write goes to the thread's own offset, so two downloads of one name do to each
other what they do on Linux. `sent` is the reply: heads (`Code(status)`) and chunks. Sources
are tried in the order of the code: a swarm, each peer, the mirror; each may have any
content, claim any hash, fail before the reply begins, or break off in the middle, with
an error (`SourceDies`) or without: nothing at S:873-888 compares lengths, so `EndBody`
may come at any position of a stream (`BodyEnds`), and what came is then kept if no hash is
expected. `Clean` and `Unlink` are the `finally` block, with its test and its unlink as two
steps. What `PackageCache` models in detail is coarse here: lookups are one step, a
registration evicts any entries, a restart finds the index or none, and no save fails.

`Faults` names what may go wrong with the disk or a client:

- `"write"`: a write to the temporary file fails;
- `"unlink"`: a corrupt copy cannot be removed, and the request goes on (S:352-362; the
  name is then in `doubted`, as in `PackageCache`), or a temporary file cannot be, and the
  request dies (S:781-782, S:908-909);
- `"rename"`: the rename raises with the temporary file there. S:905 catches it, but
  `success` is true by then, so the file stays; the swarm has its own handler, which
  removes it (S:779-783);
- `"stall"`: a client stops reading while it is sent something, and the thread waits for
  it (`stalled`) for as long as the client likes.

`littered` notes the names of which a rename, an unlink or a crash has left a temporary
file behind. `TempsOwned` says that there is no other way: any other temporary file is in
the hands of a request that will rename or remove it.

A swarm (`Swarm`, `SwarmFails`) is one source here, put together from ranges: each peer
may hold another content, and the size it was told of may be wrong (`Assembled`).
`_download_swarm` waits for all ranges, compares their lengths and the hash of the whole
before it sends anything, and only then writes to the same temporary file. The other end
is here too: a remote request may ask for such a range (`SwarmHeaders`), and `Serve`
answers it with 206, 416 or nothing. A chunk stands for a byte of `ByteRanges`.

`Serve` reads the size and the bytes of a file in one step; in the code a file may be
replaced between `stat` (S:578) and `open`.

### Transaction

Each dnf process goes through the hooks of the plugin in order. `daemon` is the service
as systemd sees it: a root's `StartProxy` starts it and does not wait until it listens, a
crash (`Down("failed")`) is followed by `SystemdRestarts`, a clean exit is not. `expected` is
`expected_hashes`, in memory only. `posts` are registrations that a thread of the proxy has
yet to work off: `Post` may come before the plugin's timeout, or after it, when the same
or another dnf already downloads (`PostTimeout`). A request is `Get`, which captures the
expected hash once, then `Drop` of a cached copy with another hash, then `Hit` or `Fetch`.
`registrant` is history: whose current run registered the entry. `sure` is too: the
request was made while its dnf's acknowledged registration was in force. The abstract
store stands for the cache, so this module says nothing of a name in doubt: a hit
on one may be another content than the entry tells.

### RateLimiter

`allow` and `reset` hold the lock, so each is one step. `BucketSpec` maps each bucket to its
level now, and a peer without a bucket to a full one; the abstract buckets are refilled
by time itself and never thrown away. Units are such that the rate is whole.

### NodeStartup

`main`, `loop` and `at` say where the main thread, the Trio thread and each mDNS
thread are. `event` is `_started_event`, `lock` is `_pending_lock`. Between the
nursery (L:305) and `sleep_forever` (L:332) the Trio thread does not await, so it
serves no call of another thread before it is `"running"`. mDNS and host.run are
external: they may report any peer at any moment after the handler is registered.
`StartTimesOut` models the 15 seconds as "longer than anything that can move": it is
enabled only when the loop has died or is stuck. `Crash` is an exception in the
set-up or in a task, which `_run_loop` logs.

### PeerTable

All tasks run in the Trio thread and give way only where they await, so an action
is what a task does between two awaits. `discovered`, `tested` and `cool` are
`discovered_peers`, `tested_peers` and `failed_peers`; a failure is kept as the time
left of its cooldown (`None` without one, 0 when it is over but still recorded).
`diags` counts the diagnostic checks of a peer that run, for there may be several;
`MaxDiags` stands for that many or more. A query of thread `t` copies the table
(`Query`), its tasks wait for the limiter (`waiting[t]`), look the peer up again and
connect (`Ask`, `asking[t]`), and end with an answer, a failure, or the timeout of
the whole query. `Report` is mDNS; `Sync` is the peerstore sync every 2 s, and the
discovery of a caller in `query_handler`, which is the same step.

`up` and `stored` are the environment: the peers that are reachable and pass the check
when a task of this node hears from them, and those of which libp2p's peerstore holds
an address. Both change between any two steps (`Turn`, `Store`), and a task may also hear
nothing. Addresses come from mDNS and connections and expire: `src/patches/0001` adds
them for 10 s, and L:331 starts the cleanup. `Sync` therefore needs the peer to be
`stored`, and nothing says that it happens: one exception at L:319-328 ends a round of the
loop and passes over the peers that are left.
`offers` flips whenever a peer is offered to the table (`Report`, `Sync`), also when the
cooldown turns it away and nothing else changes, so that no offer is a stuttering step.
`suspect` is a history variable that no guard reads: peers that failed and for
which no check began or succeeded since.

## Runs

| run | question | states | result |
|---|---|---|---|
| `cache_exclusive` | is the index true, durable, evicted oldest first, the lock released, the abstract store implemented? | 656 000 | holds |
| `cache_limit` | does the cache keep to its limit at rest? | | violated |
| `transfer_exclusive` | do downloads publish files without a gap under true hashes, serve what was asked, in full or in part, leave no temporary file behind by themselves, and implement the abstract store? | 367 000 | holds |
| `transfer_shared` | do requests end, and tend the temporary file they share, although the disk fills up and clients stop reading? | 469 000 | holds |
| `transfer_race` | is a hit the expected content when downloads of one name overlap? | | violated |
| `transfer_full_disk` | is the index true when writes fail? | | violated |
| `transfer_fallback` | is the reply clean after a fallback? | | violated |
| `transaction` | does an acknowledged hash decide what is delivered and kept, and does a dnf always get on? | 216 000 | holds |
| `migration` | is no package lost but one of a cut copy, is the migration completed, is the index true, does a start end? | 1 066 000 | holds |
| `node_startup` | is each report handled exactly once, does a stop end? | 3 200 | holds |
| `node_start_hang` | does a start fail only after an error? | | violated |
| `peer_table` | is a failed peer left alone and examined before it is listed, is a peer that stays up and is offered listed for good? | 599 000 | holds |

**Bounds.** `cache_exclusive`: two names, two contents of 1 and 2 bytes under a
limit of 2, so that one package fits and two may not; two request threads beside
any number of queries; two values of the clock, so that entries may have equal
and different ages; torn saves, stale saves and failing unlinks. Two names and contents are
enough for a name with two contents, a content under two names, an eviction that frees
another's file. `OneDoubt` bounds the faults: one name comes into doubt, and no save goes
stale after that. Nothing is promised of a name in doubt, but what happens to it must
not harm the other.
`transfer_exclusive`: one name, two contents of two chunks (a partial file
differs from both), two connections (one local and one remote, or one after the
other), two peers and a mirror, failing renames and unlinks, crashes. `OneMishap`: with a
name in doubt there is one request at a time, no temporary file left behind, and no more
than two entries. Connections are alike, and so are contents (`SYMMETRY Alike`); the run
has no liveness property, for which symmetry would not be sound. `transfer_shared` has one
content of one chunk, one peer and a mirror, full disks and stalling clients: the threads
meet at the temporary file, whose content does not matter for the end of a request. No
step reads what has been sent and neither property speaks of it, so states that differ in it
alone are one (`VIEW Unsent`). The violations need less.
`peer_table`: two peers, so that one
may wait for the limiter (`MaxParallel = 1`) while the other is asked and fails; two
threads, so that one query removes what the other has copied; a cooldown of two
ticks, so that it can be begun, running and over; two or more checks of one peer at once.
`transaction`: two processes, so that a late registration of one meets the other's
requests; one package (names do not meet in this module) with two contents, so that a
registered, a cached and a fetched content may differ. `migration`: two packages and two
contents, so that the directories agree, disagree or complement each other and one content may
be under two names; all six kinds of failure; two interrupted starts, so that a start follows
one that followed one. `TwoMishaps` bounds what comes together: crashes, cut copies and a
failure in the start in progress are two at most, and a copy is cut where the directories do
not disagree, since no property speaks of a name that is both. Where a run has such a bound on faults, its
liveness property is checked of the behaviours within the bound. `RangesCover` and `ParseExact`
try all sizes up to `MaxSwarm` (50) and `MaxFile` (6); the theorems have all.
`MaxTime`, `MaxPeers`, `Chunks`, `MaxDiags`, `MaxCrashes`, `MaxSwarm` and `MaxFile` are the named bounds; `Inode` is as many
as can be in use, so `FreeInodes` is never empty when a file is made.

**Fairness.** `WF(LockStep)`: a thread inside the cache lock runs on, nothing in
there waits. `WF(Step(r))`: the thread of a request runs on while its client reads; sources
have a timeout of 15 s, and `Clean`, `Rename` and the rest do not block. Towards the client
a GET has no timeout at all (only `do_CONNECT` sets one, S:99-101), so every step that sends
is disabled while the client does not read (`stalled`), there is no fairness for `Resume`,
and `Ends` promises an end only to a request that is not waiting for its client. Nothing is
assumed of the order of threads, or that any source ever succeeds. In `NodeStartup`, strong
fairness of the loop and of each mDNS thread says that a lock that is free again
and again is got at last, which matters only if reports keep coming (they
are finite); no fairness for `Stop`, `Crash` and `Discover`. In
`PeerTable`, `WF(Tick)` is time, and all there is: nothing is assumed of reports, addresses,
rounds of the sync, answers and checks, which may never come. `Recovers` says what then can be
said: a peer that stays up is in the table for good, unless it is out of it and, from
some time on, nobody offers it. In `Transaction`, `WF(Hooks(d))` are the timeouts of the plugin (0.1 s, 10 s,
0.5 s, 1.0 s), and `SF(Download(d))` says that a dnf gets an answer, or a refused
connection, though the proxy comes and goes and another dnf may be first at a name: each of
its requests ends as long as dnf reads (`Transfer`, `Ends`), and dnf has timeouts of its own.
Nothing is assumed of `Post`, `Boot` or systemd. In `Migration`, `WF(Startup)` says that the
start runs on and that systemd starts the service again; starts are interrupted
`MaxCrashes` times at most, without which a start that always crashes would never end, and
`StartEnds` lets a start end at a directory that cannot be listed.

**Deadlock** is checked in every run. The stuttering step `Ended` of
`NodeStartup` stands for the end of the process; a request that is done is
closed and its thread serves another.

## What the violated runs show

- `cache_limit` (C:266-276, C:309-318 against `README.md:44`): a lookup that adopts
  a file adds it to the index and never evicts; after a restart the index is
  over `max_cache_size_mb` with nothing in progress.
- `transfer_race` (S:872 against `README.md:45`): two local GETs of one name share
  `<name>.tmp`. One renames and registers the file while the other is still
  writing to it; a third is served a truncated file as a verified hit, because
  a hit compares the hash in the index (S:340-350), not the file.
- `transfer_full_disk` (S:853 against `README.md:45`): an error of the temporary
  write is logged, then the short file is registered under the good hash.
- `transfer_fallback` (S:894 against `tests/test_p2p_server.py:778`): the test
  drops the peer before the reply begins; when it breaks off in mid-stream, the
  next source sends a second head into the first body.
- `node_start_hang` (L:307 against the comments at L:306 and L:313): a report between
  L:305 and L:307 leaves the Trio thread waiting for `_pending_lock` and its holder
  waiting for the Trio thread; the daemon fails to start.

## What is proved

`PackageCacheProofs`, for all names, contents, sizes, limits, threads and faults, with any
crashes: `TypeOK`, `Durable`, `OldestFirst` and `PassEnforcesLimit` without a further
assumption, and `IndexTruth`, `Grounded` and `StoreSpec` under `Exclusive`. Names in doubt are
exempt in these three, as their definitions say.

*Why an invariant is needed.* `Place` overwrites a file without the lock, so
`IndexTruth` survives only if no entry has that name at that moment, in memory or
in the index file, from which a crash could bring it back, or if the name is in doubt.
`Clean` says so for a request in `"fetch"`. A request gets there because its lookup found no
file: then `Grounded` tells that whoever left an entry without a file is a request that just
unlinked it, `OnePerName` that there is no other request for the name, and
`Durable` that the index file has no entry that memory has dropped. So the four
properties are proved together, as `Inv = TypeOK /\ LockShape /\ Durable /\
IndexTruth /\ Grounded /\ OnePerName /\ Clean`, one lemma per action. A stale save
breaks the link between memory and file; `Restart` mends it with `Revived`, which puts in
doubt exactly the names whose entries come back (`RestartFacts`). The constants' assumption
(`ConstantsAssumption`) is evaluated by TLC in each run. `Durable` is inductive alone.

`OldestFirst` needs none of this: during a pass, the entries it has not failed to unlink
are among those it has yet to visit (`Unvisited`), and it visits the oldest of these.

`PassEnforcesLimit` is about a running total: the pass subtracts the size of what it
removes and stops by that number, while files vanish under it and unlinks fail. `Budget` says
that the total is never less than the sum of the sizes in the index, so a pass that
stops has enough room. The sum is a fold, of which the provers know nothing; what is
needed of it (`BytesNat`, `BytesRemove`) is proved without an induction rule: two functions
that satisfy its recursion agree, and one exists, since of the sets where they would
not there is one with none below it (`Smallest`, from the well-foundedness of strict
inclusion of finite sets). `Finite` says that the index is a finite set.

`StoreSpec`: `Clean` gives the free and unclaimed name that `Publish` needs, `IndexTruth` the
truth of each new claim; one lemma (`Revising`) covers the steps that touch the index
alone, another (`Doubting`) those that put names in doubt: they are a `Remove` of these
names with their claims. `StoreClaimsTrue` shows of the store itself that it never claims
what is false, from its steps alone, whatever implements them.

`TransferProofs`: `TypeOK`, `TrustedHashWins`, `TempsOwned`, `RangesCover` and `ParseExact` for
all contents, sizes, requests, faults and crashes; `PublishedIntact`, `CachedTruth`,
`HitServesWanted`, `PartServed` and `StoreSpec` under `Serial == Exclusive /\ "write" \notin
Faults`, with failing renames, failing unlinks and stalling clients; names in doubt are exempt
in `CachedTruth`, `HitServesWanted` and `StoreSpec`. The runs `transfer_race` and
`transfer_full_disk` show that neither half of `Serial` can be dropped.
`Form` says what the local variables of a request tell at each step. The argument goes in two
rounds. *Files* (`Download`): there is one downloading request for a name (`Alone`), no
inode has two names or is a package while it is written (`Apart`), what is in the file
being written is the source's content up to the position (`Writing`), and is still so
at the rename (`Renaming`); with these a package name has the beginning of one content, and
all of it unless a stream broke off unnoticed (`PublishedIntact`). *Index* (`Indexed`): while
a request downloads, the name has no file and no entry, or is in doubt (`Absent`); at the
registration its file has the hash about to be recorded (`Registering`), a name has one
entry (`Unique`), an entry without its file belongs to a corrupt copy that is being dropped
(`Dangling`); so no entry is ever false. `Serving` carries the comparison of a hit over to
the moment the file is opened; others may have evicted it by then but, by `Alone`,
cannot have replaced it. `TempsOwned` is inductive with the types alone:
a step that takes a temporary file out of a request's hands without removing it notes that.

`PartServed` follows from an intact file and the arithmetic of `ByteRangesProofs`: the
parsed range of the file is the part of it that was asked for, chunk by chunk at its
position. `StoreSpec` needs no further invariant: `Absent` gives `Publish` its free and unclaimed name, `Registering` and
`CachedTruth` say that the entry of a registration is of the file that stays, and
all other steps leave alone what is under a name (`Still`), though they write to inodes.

`TransactionProofs`, for all processes, packages and contents, with any crashes, losses, late
registrations and evictions: `TypeOK`, `RegistrationHolds` and `TrustedDelivery`. The proxy
may work off a registration long after it was posted; that what it then writes is
still the plan of the process it is put down to is `Carried`, which holds because a new run
disowns the posts of the last one. A request is `sure` if the registration was in force
when it captured the hash, and then wants what was planned (`SureWants`) until it ends; since
nothing has come of a package that is left (`NothingYet`), what comes of it is that one
answer. The only assumption is `NoneIsNothing`: `None` is no process, name or content.

`ByteRangesProofs`: `SwarmRangesCover` for two to four peers and any size from 10 on,
`ParsedIsAsked` for any header and size, and from both `SwarmPartsFit`: what a peer sends for
each range is the part of the file that the asking node will put there.

`RateLimiterProofs`: `Refills /\ Spec => BucketSpec`. `Refills` says that a bucket idle for
`MaxIdle` has filled up, whatever was in it. Of the code this is so for the
defaults (30 at 20 per second, 300 s); a configured burst of more than 300
times the rate would let a peer gain tokens by being forgotten.

`MigrationProofs`, for all packages, faults and crashes: `TypeOK`, `PackagesKept` (a fact about
each step; a copy cut excepts its name), `Migrated` (by `Progress`: as long as nothing failed in this start, each step
has done its part, whatever earlier starts left) and `IndexTruth` (by `Agreement`: entries of
names that are not `Excepted`, in either file or in memory, agree with what the start will
have under the name, so it does not matter which of them a crash leaves).

`NodeStartupProofs`, for all threads, reports and crashes: `TypeOK`, `NothingStranded` and
`HandledOnce`. The argument of the second is the order of two steps and the lock: a thread that
saw no nursery holds `_pending_lock` until it has queued its report (`Locked`), the
nursery is set before the queue is copied (`NurseryFirst`), so after the copy
nobody is about to queue (`Queueing`). For the third, `Placed` says where a report is: not
made, with one thread, queued, in the copy, or with the nursery.

`PeerTableProofs`, for all peers, threads, cooldowns and limits: `TypeOK`,
`ExaminedSinceFailure` and `CooldownRespected`. The argument: a listed peer has no
failure on record (`ListedClean`), because each step that records one also removes the
peer, and a report clears what is over before it lists; and a suspect peer has one
(`SuspectRecorded`), so that it can be listed again only through the branch that has
it examined. `CooldownRespected` follows from `ListedClean` and the second lookup of
L:395. A success of an old check erases a failure a query has just recorded (L:556);
this cuts the cooldown short. The model counts such a success as an examination, since
it ends after the failure, so the properties allow it and do not catch it.

**Only model-checked:** `LockReleased`, `Ends`, `Delivered`, `StopEnds`, `Recovers`,
`RunEnds` and `StartEnds` (liveness under fairness, and `ENABLED`, are out of TLAPS's
reach). Every invariant and every action property of a passing run is a theorem.
`RangesCover` and `ParseExact` try sizes up to a bound; `SwarmRangesCover` and `ParsedIsAsked`
have all. No module uses a `RECURSIVE` operator.

## Not modelled

- The CONNECT tunnel (S:85-139): what a `close` does to a thread blocked in `recv` on
  the same socket is decided by the kernel, and the tunnel shares no state with the rest.
- Metadata streaming, the rewriting of mirror lists, the client tool, the key file and
  packaging keep no state that another step reads.
- Authorisation, statistics and address checks are sequential tests on one request.
- Of the plugin, its configuration file and the rewriting of URLs.
- A registration that is worked off late and belongs to an older run of the same or
  another dnf replaces a newer hash (S:158). The model has it, no property forbids it: the
  code promises no order. `RegistrationHolds` speaks of names nobody else has registered since.
- What properties allow rather than catch: the loss of all expected hashes in a crash (S:158),
  a registration that comes while a download for an older one runs (S:328), and the old
  success of L:556. `PROJECT.json` says so at these hazards.
- Saves that go stale are in `PackageCache` only; `Transfer` takes each save as done, and
  `Transaction` a cache without names in doubt.
- The library behind `host.run`, mDNS and the peerstore is not in the repository.

## Plan

Done: `PackageCache`, `PackageStore`, `Migration`, `Transfer`, `ByteRanges`, `Transaction`,
`NodeStartup`, `PeerTable` and `RateLimiter`, with the theorems above. Open, in this order:

1. stale saves in `Transfer`, and names in doubt in `Transaction`, so that a delivery from such
   a name is part of what `TrustedDelivery` speaks of;
2. `query_handler` as the caller of the limiter and of the cache (L:335-379), in `PeerTable`.
