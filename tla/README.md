# skippy-rs: specifications, model checking and proofs

skippy-rs is a Rust crate with two skip lists, one lock-free and one
sequential, and a priority queue on top of each.  This directory holds TLA+
modules for the lock-free list with its cursors and its memory reclamation, and
for the sequential list, the TLC runs that check them, and proofs checked by
TLAPS.  Paths below are relative to `src/src/` of the repository; `mod.rs` alone
means `internal/sync/mod.rs`.

## 1. The system

| Component | Source | State | Operations |
|---|---|---|---|
| Node | `internal/utils/node.rs` | key, value, the word `height_and_removed` (height, reference count, removed bit), a tower of levels | `add_ref`, `try_add_ref`, `sub_ref`, `try_sub_ref`, `set_removed`, `tag_levels`, `try_remove_and_tag` |
| MaybeTagged | `internal/sync/tagged.rs` | one atomic pointer whose low bits are a tag | `load_ptr`, `load_tag`, `compare_exchange`, `compare_exchange_tag` |
| List state | `internal/utils/mod.rs` | `len`, `max_height`, `seed`; the head tower | `new`, `len`, `is_empty`, `gen_height`, `Drop` |
| Lock-free list: search | `mod.rs` 305-425 | local to a call: the tower it stands on, the `prev` array | `find(key, closest)` |
| Lock-free list: map | `mod.rs` 33-303, 427-440 | none of its own | `insert` (`link_nodes`), `remove` (`unlink`), `get` |
| Lock-free list: cursors | `mod.rs` 446-491, 551-560, `internal/sync/iter.rs` | an entry, kept alive by a hazard pointer | `next_node`, `get_first`, `get_last`, `Iter`, `Entry::remove`, `IntoIter` |
| Reclamation | `Can`, `NodeRef`, `DeallocOnDrop`, crate `haphazard` | hazard pointers, retired nodes | protect, retire, reclaim |
| Sequential list | `internal/skiplist.rs` | the same nodes and list state, behind `&mut` | `insert`, `insert_conditionally`, `remove`, `remove_first`, `get`, iterators |
| Priority queues | `collections/priority_queue.rs` | a list with `()` values | `push`, `peek`, `pop` |
| Rest | `utils/padded.rs`, `skiplist.rs`, `lib.rs`, `benches/`, `fuzz/` | | alignment, re-exports, drivers |

**How they interact.**  Threads share the list by reference and meet only in
atomic words: the levels of the towers, each node's `height_and_removed`, and
the three counters of the list state.  There is no lock.  An operation first
calls `find`, which returns for every level the tower before the key and the
node after it; the operation then changes those towers by compare-exchange and
searches again when one of them has moved on.

* *Removal* has an owner: whoever sets the removed bit with `set_removed`.
  The owner then tags every level of the node, top down, which freezes it,
  and takes it out level by level with `unlink`.  Any search that meets a
  tagged node helps by taking it out of the level it stands on.
* *Insertion* removes an existing entry of its key, links the new node from
  the base level upwards, and searches once more at the end when the node was
  removed meanwhile.
* *Reference counts* hold the number of levels a node is linked at.  Whoever
  drops the last reference hands the node to the hazard-pointer domain.

**What is hard.**  Every pair of atomic accesses of two calls may interleave;
an insertion works for its whole duration with a search result that may be out
of date; a removal is three separate things (bit, tags, unlinking) spread over
several threads; a reference is counted before the link it stands for exists;
`len` is updated by one of the threads that might complete a removal and not
by the others; `max_height` is compared and stored in two accesses.
`PROJECT.json` lists these hazards at their lines with the properties that
cover them.

**What makes each part correct.**

* Node and pointers: tags and removed bits never go back; a count never falls
  below zero and reaches zero once, when the node is out of the list.
* Search: it only ever unlinks removed nodes, and loses none that are live; a
  live entry of the key is found.
* Map: at most one live entry per key in the base level; each entry is put
  once and taken once; insert takes effect; every call returns.
* List state: `len` is the number of entries, `max_height` covers all links.
* Cursors: each step moves to a greater key and skips no entry that stays.
* Reclamation: a node is freed once, when nobody can reach or holds it.
* Sequential list: implements a map; queue: `pop` returns the least value.

## 2. The modules

| Module | Models |
|---|---|
| `NodeMemory` | the shared memory: towers, node words, counters; the atomic instructions on them as operators |
| `NodeWord` | `height_and_removed` and the tagged pointer as the machine words they are, with the arithmetic that could carry from field to field |
| `SkipListFind` | `find(key, false)`: EXTENDS `NodeMemory`, adds the local state of a call and one action per access of the search |
| `SyncSkipList` | `insert`, `remove`, `get`: EXTENDS `SkipListFind`, adds their actions, `Next` and the specifications |
| `EntryMap` | abstract specification: a map with at most one entry per key |
| `SyncSkipListProps` | the properties, and the refinement mapping to `EntryMap` |
| `SyncSkipListInv` | the inductive invariant `Inv`: types, and what a thread relies on at each label |
| `SyncSkipListShape` | the inductive invariant `Shape`: every level is a chain, and who may change it |
| `SyncSkipListOrder` | the inductive invariants `Order` (base level), `Results` (what calls return), `Length` (what `len` counts) |
| `SyncSkipListWords` | the refinement mapping to `NodeWord`, and `LevelsApart`, why the counts fit |
| `SkipListCursor` | `next_node` and what is built on it, `Entry::remove`, the synchronised queue: EXTENDS `SyncSkipListProps`, its calls run beside `insert`, `remove` and `get` |
| `SkipListCursorInv` | the inductive invariants `CursorInvariant` (what a cursor relies on, and what it has seen) and `CompletionInvariant` (why every removal is finished) |
| `Reclaim` | hazard pointers, freeing, `Drop` and `IntoIter`: EXTENDS `SkipListCursor` |
| `ReclaimInv` | the inductive invariant `ReclaimInvariant`, while the list is shared and when it ends |
| `SyncSkipListProofs` | lemmas on types, then `Inv` and the action properties |
| `SyncSkipListShapeProofs` | `Shape`, and what the head reaches |
| `SyncSkipListRefsProofs` | reference counts, retirement, panics, the refinement of `NodeWord` |
| `SyncSkipListOrderProofs` | `Order`, the refinement of `EntryMap`, what calls return, the length |
| `SkipListCursorProofs` | the cursors, and all of the above with cursors beside the calls |
| `ReclaimProofs` | reclamation, and the end of the list |
| `NodeWordProofs` | theorems about `NodeWord` |
| `MCSyncSkipList`, `MCReclaim` | scripts for TLC, named by the configurations |
| `SeqSkipList` | the sequential list, one action per operation |
| `SeqSkipListInv` | the inductive invariant `ListInvariant`: every level is the sorted list of the towers that reach it |
| `SortedMap` | abstract specification: an ordered map and what its operations return |
| `SeqSkipListProofs` | the sequential list and its refinement of `SortedMap` |
| `MCSeqSkipList` | the symmetry of addresses for TLC |

The labels, the uses of `find` and the requests of cursors are already in the
types of `SkipListFind`, because a cursor's call runs on the variables of the
other calls; no action before `SkipListCursor` takes a thread to one of them.

### State and code

A node is named by the thread and the number of the call that builds it, so
that a name is used once.  `next[m][l]` is level `l` of tower `m` with its tag;
`har[n]` is `height_and_removed` as a record, which changes as one word, so
that the compare-exchange of `set_removed` fails on ANY change of it, as in the
code.  `retired[n]` counts the calls of `retire_ptr`.  `linked[n]` is a history
variable: the levels at which a compare-exchange put the node into the list
and none took it out since.  The properties speak about it because a pointer
structure alone cannot tell a node that was lost from one that was removed.

`pc[t]` names the next access of thread `t`; the other variables of
`SkipListFind` are the local variables of `find`, `insert`, `remove`,
`link_nodes` and `unlink`, under their names in the code where there is one.
`ret[t]` says which use of `find` is running, in place of a call stack.  `before[t]` is
a history variable for `FindsSteadyEntry` and `CursorsSkipNothing`.

### Steps

A step is one access to shared memory with the local work up to the next.  Of
`find` these are the loads of the head's levels, one by one (`FindInit`,
`InitLevel`), the load of `max_height` (`StartSearch`), and the loads that look for
the highest level in use (`LowerLevel`); of `gen_height` the two accesses to
`max_height` (`CompareMax`, `StoreMax`).  Two steps stand for several accesses:

* A load into a hazard pointer (`from_maybe_tagged`) reads until two reads give
  one pointer; what it returns is what the last read saw, so the last read is
  the step.  The tag is not part of what it returns.
* `NewNode` chooses a height.  From height 4 on `gen_height` loads levels of the
  head and settles where one is not null; the step is that last load.  The loads
  before it, which saw null, only rule out heights that another choice of the
  seed gives.

Merged into the compare-exchange next to them are also reads that cannot change
any more: the level of a tagged node, and the own level of a node that is not
linked there (only its tag can change, which the compare-exchange detects).

The model is sequentially consistent.  The code orders its accesses with
Acquire, Release and SeqCst except for `len` and `max_height` (Relaxed).

### The sequential list

`SeqSkipList` is held exclusively by its caller, so an operation is one step:
`Walk`, `Prev` and `Target` are `find` as functions, `LinkNodes` and
`UnlinkAndDealloc` change all levels at once.  What is hard there is not
interleaving but memory: `remove` frees the node at once and the allocator may
hand its address out again, so addresses are reused in this module, and
`unlink` writes through `prev` at levels the search did not walk.  Its branches
on tags are left out, since nothing in this list sets one.

`asked` and `answer` hold the last call and what it returned, a sequence of
entries, so that an operation that answers wrongly without changing anything is
an error too.  The lookups are `FindKey`, `FindFirst`, `FindLast`, `Iterate` and
`Traverse`, built on each other as in the code; `Read` performs one, `Write` one
of the `_mut` forms, where the caller writes a value through the `MutEntry` it
got, or through all of those an `IterMut` yields.  `entry` is a lookup whose
`remove` is `Remove`.  The sequential queue renames these operations: `push` is
`Insert`, `peek` is `get_first`, `pop` is `RemoveFirst`, and so is a step of
the consuming iterator.

### Cursors

`at[t]` is the entry a cursor stands on, the head before the first.  `next_node`
is four kinds of steps: load the tag of `at`, load its successor, load the
successor's tag, and when it is tagged take it out (`CursorHelp`, `CursorSubRef`).
`get_first` and the queue's `peek` are one `next_node` from the head, `pop` goes
on to `Entry::remove` of what it found, and one call `"last"` stands for
`get_last` and for an `Iter` driven to its end, which make the same accesses.  `Entry::remove` shares the
`set_removed` steps of `remove` (`LoadHar`, `CasHar`), then tags the levels and
stops: `TagEntry` neither unlinks nor counts.

When the entry is stale, or the next node was unlinked by somebody else first,
`next_node` calls `find(key, true)`.  That search runs through the steps of
`SkipListFind`.  Its loop ends with `level` 0, and the code then reads
`levels[level - 1]`: `ClosestFault` takes the thread to `"fault"`, where it stays.
What a build without overflow checks makes of the read, which hits the word in
front of the tower, is not followed further.  From the head it is called with
the head's key, which was never written: any key.

### Reclamation and the end of the list

`Held(t)` are the nodes thread `t` has a `NodeRef` or an `Entry` of: in `prev`, as
target, result or cursor, as the node it builds, and `curr` and `nxt` while a
loop is using them.  Each of these owns a hazard pointer, so `Protected(t)` is the
same set.  The domain (`haphazard`, external) may free a node whenever it has
been retired and nobody protects it: `Reclaim(n)` is a step of its own, more
frequent than the code's calls of `eager_reclaim`.  A caller keeps the entry
it got until it drops it (`DropEntry`) or makes its next call.

A load into a hazard pointer is one step, at its second read, and the node is
in `Held` from then on.  Publishing the hazard before that read protects nothing
that was retired already, so this loses no behaviour: either the node was not
free at the second read, and from that step it is protected, or it was free
and the thread holds freed memory.  `freed[n]` counts how often a node was
freed; its contents stay, and a thread that reads freed memory goes on with what
was there.

The list ends when no call is in progress and nobody holds an entry, by `Drop`
or by `IntoIter`, which the owner makes alone, so they are single steps, as are
the calls of `IntoIter::next`.

**Addresses are not handed out again** in the lock-free modules.  For a node that
a thread keeps across steps, `KeptAreNotFreed` shows that this makes no
difference: its address cannot be reused while it is remembered.  For the node
of `use_after_free` below it does, and what follows there is undefined.

## 3. The runs

`Script` gives each thread its calls in order (a set of alternatives per call);
all interleavings and all node heights are explored.  `Main` makes its first
`Fill` calls before the others start, as the main thread of the tests does.

| Run | Instance | Shows |
|---|---|---|
| `replacing` | 2 threads, 1 key, 2 levels: one entry present; remove against insert, insert | `TypeOK`, `Inv`, `Shape`, `LevelsApart`, `NoPanic`, `LenCoversEntries`, `Length`, `RemovedAreUnlinked`, `TagsFreeze`, `OnlyRemovedAreUnlinked`, `EveryCallReturns`, refinements `ImplementsEntryMap` and `ImplementsNodeWord` |
| `contending` | 3 threads, 1 key, 1 level: insert, insert, and remove or get | `Sorted`, `DeliveredOnce`, `Results`, `GetReturnsLive` |
| `neighbours` | 3 threads, 2 keys, 2 levels: insert 1, insert 2 behind it, remove 1 | `ReachableIsLinked`, `RefsCountLinks`, `RetiredOnceAndOut`, `Order` |
| `sharing` | 2 threads, 2 keys present, 2 levels: get 2, `get_first`, `get_last` or `pop`, against remove 1, insert 2 or `pop` and then remove 2; freeing, and the end of the list, whenever possible | `ReclaimTypeOK`, `NoPanic`, `TakenOnce`, `CursorsSkipNothing`, `FindsSteadyEntry`, `GetReturnsLive`, `KeptAreNotFreed`, `LinkedAreNotFreed`, `FreedOnce`, `DrainedWereLeft`, `ReclaimInvariant` (which contains `CursorInvariant` and `CompletionInvariant`) |
| `sequential` | 3 addresses, 3 keys, 2 values, 3 levels: all sequences of calls | `SeqTypeOK`, `TowersAreLinked`, `SearchesStartHighEnough`, `ConvertsToSync`, `SeqInvariant`, refinement `ImplementsSortedMap` |

What the properties say:

* `ReachableIsLinked`: what the head leads to, the smallest set closed under
  following a level, is exactly the linked nodes, at every level.  This is the classical trap of linked lists without locks: a
  node linked behind one that is being unlinked is lost, an unlinked node is
  brought back.  It holds because a tagged level cannot be exchanged.
* `RefsCountLinks`, `RetiredOnceAndOut`, `NoPanic`: the counts are exactly the
  links plus the references in transit, so `try_sub_ref` never underflows, a
  node is retired at most once, and then it is out of the list.
* `Shape`: at every level what follows a tower of the list is in the list, and
  every node of the list follows exactly one tower of it.  This says of each
  link what `ReachableIsLinked` says of the whole level.
* `Sorted`: along the base level keys increase, so no key is there twice.
  `Order` adds that no node lies between the keys of two neighbours, which is
  what a search concludes from the two nodes it stops at.
* `LenCoversEntries`: `len` may be too large (below), never too small, so `get`
  may trust `is_empty`.  `Length` says why: `len` counts a set of entries that
  contains every live one, every node being linked that nobody removed, and
  every entry whose remover has not taken it off yet.
* `DeliveredOnce`: two calls never return one entry, unless one of them is a
  `get`.  `Results` adds that what a call other than `get` returns is removed.
* `GetReturnsLive`: what `get` returns is in the list, under the key asked for,
  at the moment of the load that decides.
* `RemovedAreUnlinked`: when all calls have returned, a removed node is linked
  nowhere.  This needs the search at the end of `link_nodes` and the one after
  a failed `unlink`.  It holds for two levels; see `max_height` below.
* `ImplementsEntryMap`: seen as a map, every step puts an entry where its key
  has none, takes one, or changes nothing.
* `FindsSteadyEntry`: a search finds an entry that was there all the time.  It
  holds while other threads insert no smaller key; see `preceding` below.
* `EveryCallReturns`: under `LockFreeSpec`, see below.
* `ImplementsNodeWord`: the records of `NodeMemory` are changed only in ways the
  packed word is: no interleaving of counting up and down borrows from the
  removed bit or counts more references than a tower has levels.  `LevelsApart`
  says why: two threads never hold references of one level of one node.
* `CursorsSkipNothing`: keys grow along a cursor, and it passes over no entry
  that was there since its call began, although the entry it stands on may be
  removed, unlinked or replaced under it.
* `TakenOnce`: of all the calls of `remove`, replacing `insert` and `pop` ever made, at
  most one takes a given entry.  `takers` is a history variable of which call took
  which entry; it outlives the reference the caller got.
* `KeptAreNotFreed`: whatever a thread keeps across steps is still allocated.  A
  node just loaded and not yet looked at may be gone (run `use_after_free`), also
  one that was found tagged and that `unlink_level` is to take out (`nxt` at `"help"` and
  `"curHelp"`, `mod.rs:288`); but then the exchange fails: the property includes the
  nodes whose exchange will succeed (`Exchanging`).  So no compare-exchange that
  succeeds meets a reused address.
* `LinkedAreNotFreed`: nothing a walk from the head can meet has been freed.
* `FreedOnce`: neither the domain twice, nor the domain and then `Drop` or
  `IntoIter`, frees a node.
* `DrainedWereLeft`: the consuming iterator hands out no entry whose removal has
  returned it to somebody else, except what `pop` took: `Entry::remove` leaves its
  node linked, and if no search came by it is handed out again.
* `TowersAreLinked`: each level of the sequential list links exactly the
  allocated towers that reach it; no pointer leads to freed memory.
* `ConvertsToSync`: `len` and the reference counts, which the sequential list
  keeps and never reads, are what the lock-free list needs after a conversion.
* `ImplementsSortedMap`: every operation changes and returns what the ordered
  map does; `remove_first` and `get_last` return the least and greatest key.

**Bounds.**  Two levels are enough for a node to be linked on one level and not
on the other, and for `max_height` to matter; one level is used where the base
level is what is asked about.  Two threads give every race of two calls.  Three
threads are used where two races meet: two inserts and a removal of one key, and
an insertion behind a node whose own insertion and removal are in progress.
Each run's state space is complete for its script.  Larger scripts than these do
not finish in minutes.  `replacing` has 196,242 distinct states, `neighbours` 1,812,743, `contending`
306,174, `sharing` 334,088.  The first two calls of `sharing` build a list of two entries, at every choice of heights, and
what follows is one call of the second thread, four of the first in all, so that
an entry is retired and freed under a cursor and the entry behind it too.  A
removal and a replacement race for one entry in `replacing` and `contending`, a removal
and `pop`, and two pops, here.  The sequential list needs no bound on
calls: three keys put a node at the front, in the middle and at the end.  With
three levels `gen_height` returns any height; from the fourth level on it consults
the head, which the model contains and this instance does not reach.

**Levels above the base level** need not be in order, from the third level on.
`link_nodes` takes a level's `prev` from `find`, which does not search levels
above `max_height` and leaves the head there.  When a racing store has lowered
`max_height` (the run `max_height`), such a level may hold nodes already.
`LinkCheck` then finds that the key after the head is not greater; if the new
node is removed before `LinkRecheck` loads its removed bit again (`mod.rs:122`),
the level is linked all the same, in front of a smaller key (TLC finds this with
HEIGHT 3 and two threads).  The node is removed
and is taken out later, so this costs time and no entry: which entries there are
is decided in the base level.  There the invariant `Order` excludes it, since a
node is not removed before its base level is linked.  `Sorted` therefore
speaks of the base level.

**Fairness.**  `LockFreeSpec` is weak fairness of "some thread takes a step of
its call": the machine does not stop executing calls in progress.  It does not
ask that any particular thread is scheduled, so a thread may be suspended for
good while others run, and calls need not begin.  That is lock-freedom, and it
is all that a program without locks needs from its scheduler.  Since the scripts
are finite, `EveryCallReturns` says that no two calls can make each other retry
forever.  It is checked for `insert` and `remove` of one key, whose retries are the ones
that can depend on each other: a search that starts over, `link_nodes` that
fails, and the searches after `unlink`.

### Where the code and its comments or tests part

Seven runs check something the repository says of itself, and TLC finds a schedule
in which the code does otherwise.

| Run | Statement | What happens |
|---|---|---|
| `preceding` | `mod.rs:372` "we always get a non-removed node, if there is one, of our target key" | `find` reads the successor of `prev[0]` once more after its walk (418).  If a smaller key was inserted there meanwhile, the last read shows that one, and `get` returns `None` for an entry that was present throughout. |
| `yielding` | `mod.rs:181` "If this errors, it is already being removed by someone else" | The compare-exchange in `set_removed` also fails when the builder of the target changes its reference count; `remove` returns `None` and the entry stays. |
| `lost_insert` | `mod.rs:38` "Inserts a value in the list given a key" | `link_nodes` stops, with `Ok`, at a node of the same key that is removed and not yet tagged; the new node is linked nowhere. |
| `length` | `mod.rs:927` `assert_eq!(list.len(), 0)` after all is removed | `unlink` decrements `len` only when it did all the levels itself; what a search completes, and a lost insert, is never subtracted. |
| `max_height` | `mod.rs:212` "Logically removes the node from the list by linking its adjacent nodes to one-another" | `gen_height` compares and stores `max_height` in two accesses (`utils/mod.rs:128-129`), so that a smaller height can overwrite a larger one.  The search of `remove` then starts below the top level of its node, `unlink` fails there, and the search that is to finish the job (`mod.rs:200-201`) skips the level too: `remove` returns, and its node stays linked.  Needs three levels. |
| `stale_cursor` | `mod.rs:456` "Unlink and skip all removed `Node`s we may encounter" | `get_first` meets a removed node, the remover unlinks it first, and `find(key, true)` reads `levels[level - 1]` with `level` 0 (393): a panic in a debug build, an access in front of the tower in release. |
| `use_after_free` | `utils/mod.rs:20` "to prevent use-after-frees and the ABA problem" | A search stands on a node that is unlinked under it.  The node's level is frozen, so `from_maybe_tagged` (`tagged.rs:140`) validates whatever it points to by reading it twice, also when that node was unlinked, retired and freed since. |

A further deviation is visible in the source and has no run: `link_nodes` gives a
reference back with `Node::sub_ref` (153), which, unlike `SkipList::sub_ref` (261),
does not retire; if it was the last one of a removed node, the node leaks.

## 4. The proofs

Proved for every set of threads (finite or not), every set of integer keys,
every number of calls, every script and every HEIGHT (for the packed words,
every HEIGHT below 64); for the sequential list also for every set of addresses.

| Module | Theorem | States |
|---|---|---|
| `SyncSkipListProofs` | `TypeCorrect`, `Invariance` | `Spec => []TypeOK`, `Spec => []Inv` |
| | `TagsStayFrozen` | `Spec => TagsFreeze` |
| | `UnlinkedWereRemoved` | `Spec => OnlyRemovedAreUnlinked` |
| `SyncSkipListShapeProofs` | `ShapeInvariance` | `Spec => []Shape` |
| | `ReachableStaysLinked` | `Spec => []ReachableIsLinked` |
| `SyncSkipListOrderProofs` | `OrderHolds`, `BaseLevelIsSorted` | `Spec => []Order`, `Spec => []Sorted` |
| | `KeysAreUnique` | one node per key in the base level |
| | `ListImplementsEntryMap` | `Spec => ImplementsEntryMap` |
| | `ResultsHold`, `EntriesDeliveredOnce` | `Spec => []Results`, `Spec => []DeliveredOnce` |
| | `GetsReturnLive` | `Spec => GetReturnsLive` |
| | `LengthHolds`, `LengthCoversEntries` | `Spec => []Length`, `Spec => []LenCoversEntries` |
| `SyncSkipListRefsProofs` | `ReferencesAreCounted` | `Spec => []RefsCountLinks` |
| | `RetiredOnce` | `Spec => []RetiredOnceAndOut` |
| | `NeverPanics` | `Spec => []NoPanic` |
| | `LevelsStayApart` | `Spec => []LevelsApart` |
| | `CountsStayInRange` | every count is in `0 .. HEIGHT` |
| | `ListImplementsNodeWord` | `Spec => ImplementsNodeWord` |
| `SkipListCursorProofs` | `CursorInvariance` | `CursorSpec => []CursorInvariant`: `Inv`, `Shape`, `Order` and the counts with cursors, and `CursorsHold` |
| | `CursorsNeverPanic` | `CursorSpec => []NoPanic` |
| | `CursorsKeepReachable` | `CursorSpec => []ReachableIsLinked` |
| | `CursorsPassOverNothing` | `CursorSpec => CursorsSkipNothing` |
| | `GetsReturnLiveBesideCursors` | `CursorSpec => GetReturnsLive` |
| | `RemovalsAreFinished` | `CursorSpec => []RemovalsGoOn`: a removed node leaves the base level unless it was popped |
| `ReclaimProofs` | `ReclaimInvariance`, `ReclaimTypeCorrect` | `ReclaimSpec => []ReclaimInvariant`, `ReclaimSpec => []ReclaimTypeOK` |
| | `KeptAreNeverFreed` | `ReclaimSpec => []KeptAreNotFreed` |
| | `LinkedAreNeverFreed`, `NodesFreedOnce` | `ReclaimSpec => []LinkedAreNotFreed`, `ReclaimSpec => []FreedOnce` |
| | `DrainedWereNeverTaken` | `ReclaimSpec => []DrainedWereLeft` |
| | `TakenOnceToTheEnd`, `NoPanicToTheEnd`, `CursorsPassOverNothingShared`, `GetsReturnLiveShared` | `TakenOnce`, `NoPanic`, `CursorsSkipNothing`, `GetReturnsLive` of `ReclaimSpec` |
| `SeqSkipListProofs` | `ListStaysInOrder`, `SeqTypeCorrect`, `SeqInvariance` | `Spec => []ListInvariant`, `Spec => []SeqTypeOK`, `Spec => []SeqInvariant` |
| | `TowersStayLinked`, `NoSearchStartsTooLow`, `AlwaysConverts` | `Spec => []TowersAreLinked`, `Spec => []SearchesStartHighEnough`, `Spec => []ConvertsToSync` |
| | `ListImplementsSortedMap` | `Spec => ImplementsSortedMap` |
| `NodeWordProofs` | `FieldsOfPack`, `CountingKeepsFields`, `TagRoundTrip` | the arithmetic of the packed words |

`NodeWordProofs` is about numbers and rests on no invariant: for every height
below 64 and every limit on the count the fields of the packed word are read back
as they were packed, counting within range leaves the other two alone, and
pointer and tag survive composition.

The assumptions are `MemoryAssumption` and `ScriptAssumption` (there is a key
and a level, the head and the null pointer are not nodes, `Main` is a thread,
scripts contain calls), `CursorAssumption` and `SeqAssumption`, which say the
same of the cursors' script and of the sequential list, and for the packed words
`WordAssumption`, that HEIGHT_MASK covers the heights; TLC evaluates each in the
runs of its module.

### The argument

The invariants build on each other.  Each is checked by TLC in a run as well.

    Inv  ->  Shape  ->  References  ->  CountsInRange  ->  ImplementsNodeWord
                 |          LevelsApart  ---^
                 +-->  Order  ->  OnePerKey  ->  ImplementsEntryMap
                 +-->  Results, Length

    Inv, Shape, Order, References  --+
                 CursorsHold  -------+-->  CursorInvariant  ------+
                                           CompletionInvariant  --+-->  ReclaimInvariant

    ListInvariant  ->  ImplementsSortedMap        (the sequential list)

**`Inv`.**  `TypeOK` is not inductive: a step reads `key[nxt]`, `levels
[level - 1]` or `har[target]`, and keeps its type only if the pointer is not null
and the index is inside the tower.  `Inv` adds what a thread may rely on where
it stands:

* `PointersAllocated`: every pointer, in memory or in a local variable, is null
  or leads to an allocated node;
* `Fresh`: nodes of calls not yet made are not allocated and not removed, so
  that building one disturbs no other thread;
* `Control`: which locals are set at which label, and that `level`, `up` and
  `down` are indices of the tower in hand;
* `TaggedAreRemoved`: the head has no tag; a tagged node has its removed bit;
* `Removal`: a helper stands at a tagged level, and an owner has tagged all
  levels above `down` (all of them, once it unlinks).

The last two are what the two action properties need: a compare-exchange expects
tag 0, so it cannot touch a tagged level, and whoever takes a node out has seen
or set the tag there.  The proof has one lemma per conjunct (`PointersStep`,
`FreshStep`, `ControlStep`, `TaggedStep`, `RemovalStep`), each with one step per
action that can disturb it; that a step of one thread keeps what another relies
on (`OthersControl`, `OthersRemoval`) rests on memory only growing: allocated
nodes stay, heights stay, tags and removed bits stay.

**`Shape`.**  `prev` may be long out of date, so the tower a compare-exchange is
made on may have been unlinked.  What saves the list is that such a tower is
frozen: every pointer a thread holds leads to a level that is in the list or
tagged (`HeldAt`, `PointersReached`), and an exchange that succeeds met no
tag, so its tower is in the list.  From this `ChainStep` shows that the pointers of
the list change in three ways only: a node is taken out behind a tower of the
list (`TakesOut`), one is put in (`PutsIn`), or a node not in the list
yet points its own level somewhere (`Points`).  Each keeps `SuccessorsLinked` and
`OnePredecessor` (`ChainKept`).  `LinkingAt` says how far a node under
construction has got, `OwnerAt` that a removed node has one owner; they are what
excludes that two threads link one level, and the panic in `remove`.

**References.**  The count of a node changes with the links and with the threads
between counting and linking.  `RefsMove` sorts all steps into the seven ways
they move references of one node; `CountsStep` does the arithmetic for each.  The sets
of such threads are shown finite on the way, because a step adds one thread at most,
so no assumption on `Thread` is needed.  The underflow half of `NoPanic` follows since
whoever drops a reference is counted.  That a count does not exceed HEIGHT is
another matter: it needs that the levels two threads hold references for are
different (`LevelsApart`), which injects the threads and links into the
levels.  With the counts in range the records are the packed words (`WordStep`).

**`Order`.**  A search decides on two nodes and acts later.  What it knows does
not go stale: it was before its key (`KeyAt`), keys do not change, and the exchange
that succeeds shows that the two nodes are still neighbours.
`NoneBetween` then says that the key is not elsewhere in the list.

**The map.**  The base level changes at one exchange and the removed bit at
another; `LiveStep` shows that no other step changes which entries there are, whatever is
tagged, helped or unlinked.  With one node per key (`OneNodePerKey`) these are the
`Put` and `Take` of `EntryMap`.

**The length.**  `Length` asks for a set rather than defining one: which removed
entries `len` still counts depends on who unlinked them.  Each step gives the next set: the
same, one more for `Count`, one less for `UnlinkLen`.

**What the head reaches.**  The nodes of a level are what the head leads to, by
`Shape`, except that a ring of linked nodes would satisfy `Shape` as well.  What
excludes it is that a node is put in behind one that is reached and taken out
only behind one, so that a set closed before a step can be cut or grown to one
closed after it (`ConnectedKept`), and no walk has to be followed.

**Cursors.**  To the shared memory a step of a cursor does nothing a step of the
other calls does not do: it unlinks at level 0 as `HelpUnlink` does, sets a removed
bit as `CasHar` does, and tags as the owner does.  So the lemmas above, which speak of
what a step does to memory and not of which step it is, carry `Inv`, `Shape`,
`Order` and the counts over to `CursorSpec`.  That a cursor
passes over nothing is a statement about a past: it stands on a node that
may have been unlinked long ago, which points to one that was unlinked since.
`SightAt` says what survives.  There is a set of towers, all of which were in the base level
at some time of the call, that contains the ones in it now, and that following level
0 does not leave; along it keys grow, and of each of its towers every steady entry is
behind it or not before its successor.  A step of another thread only adds
to the set the node it links: it frees a tower's level (unchanged from then on) or
redirects it past nodes that are not steady (`OthersSight`).

**Removals.**  `unlink` stops where its compare-exchange fails, and leaves the rest to a
search for the key, which in turn may meet nodes that left the list long ago.  `Removing`
names the thread that still has to take a removed node out of the base level: its owner, while
it tags and unlinks, or a search for its key (`Cleaning`), which sees as a cursor does, so that
the node cannot lie behind it.  Above the base level a search advances to untagged nodes only; as tags
are set from the top down (`TagsFromTop`), such a node is in the base level at that moment.  A
search can therefore not end at the base level before it has taken the node out
(`CleaningGoesOn`); if it starts over, it is at the head again.  `pop` is the exception:
it leaves its node tagged for others to unlink.  So when the list ends and no call runs,
no other removed node is in the base level, which is what `IntoIter` needs.

**Reclamation.**  A thread begins to keep a node only where it reads a level or a
word that shows the node linked somewhere, or when it builds it.  A
retired node is linked nowhere and has been built, so nobody begins to keep
it, and `Reclaim` does not touch one that is kept (`KeptSafe`).  A node that `unlink_level` is about
to exchange follows an untagged tower, which is in the list, so it is linked and not retired.
A call that takes an entry sets its removed bit, which nobody had set, so that nobody is
on record for it (`TakersInv`).  `IntoIter` is another list: its owner clears the base level of the
head, so that `Inv` no longer holds.  `Draining` says what remains: of the nodes still linked at level 0
the freed ones are those given, and the rest of the chain does not lead back to them.

**The sequential list.**  `LeadsUp` says of each pointer where it must lead, to the
least of the towers above that reach its level, and mentions no walk.
`insert` and `remove` preserve it at every level by comparing keys.  What `find`
and `Traverse` compute, recursive functions along the list, would be by induction,
which cannot be used here; instead, were there a tower from which a walk did not stop where it must,
there would be one with the fewest nodes above it (the towers are finitely many),
and its successor has fewer.  `WalkStops` gets from this that a search ends between
the two neighbours of its key at every level it walks, and `TraverseLists` that
traversal yields each entry once in the order of the keys; two such sequences are equal, so
the answer is the one `SortedMap` gives.  Each operation is then one lemma.

### What is only model-checked

* `RemovedAreUnlinked` is false from three levels on (run `max_height`), and a proof
  for two levels only would be a proof about something the code does not run.  Its
  base level half is true for every HEIGHT: that is `RemovalsAreFinished`.
* `FindsSteadyEntry` is false in general (run `preceding`); the run `sharing` checks
  it where no smaller key is inserted.
* `EveryCallReturns`, which is liveness.

## 5. Not modelled, and what is left

Not modelled:

* Reuse of freed addresses by the lock-free list: after `use_after_free` the
  behaviour is undefined, and for kept nodes it is excluded (above).
* The inside of the hazard-pointer domain, which is another crate.
* What follows a `ClosestFault` in a build without overflow checks.
* Weak memory orderings.
* Running the lock-free list from a converted sequential one.  What it needs of
  that state is `ConvertsToSync`; a list its own inserts built satisfies the same.
* The nodes an `IntoIter` leaks that is dropped early (`sync/iter.rs:67`): it has no `Drop`.
* Values of the lock-free list (opaque to it), the random seed (heights are free),
  layout and alignment of nodes, cache-line padding, traits and re-exports,
  benches, the fuzz target.
* `MaybeTagged::tag` and `try_tag`, which nothing calls.
