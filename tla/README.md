# Verification of the pea-search file index

pea-search indexes the file names of all drives of a machine in memory and answers searches as
the user types. A background service (`src/filesearch`) builds the index, follows changes of
the file systems and drives, saves the index and answers requests on a named pipe; a browser
window (`src/browser`) shows results and recently opened files in a page written in JavaScript
(`src/browser/web`). The web site of the program (`src/gserver`) keeps copies of Prototype,
script.aculo.us and the jQuery form plugin. This directory holds TLA+ models of the parts that
carry the logic, the TLC configurations that check them, and TLAPS proofs.

## 1. Inventory

| Part | State | Operations | What makes it correct |
|---|---|---|---|
| History (`history.c`) | ring of records, head, pins of the first page | add, delete, pin, unpin, load, save | a pinned record keeps its place; every record has one place; the scan that finds it ends |
| History in the browser (`cef_plugin.cpp`, `search.js`) | the page on the screen, its buttons, the file `history<USER>` | show, open, pin, remove, save, crash | what is clicked is what changes; the file holds what was seen; any file that is left can be loaded |
| NTFS index (`ntfs.c`, `ntfs.cpp`, `fs_common*.c*`) | tree of entries, map of directories, `ALL_FILE_COUNT`, statics of `updateFileEntry` | apply a journal record: create, rename, move, delete | after the journal is read the tree is the volume; no search meets freed memory; the count bounds the result list |
| Drives (`main_win.c`, `write.c`, `drive_win.c`, `drive_change.c`) | arrays by slot: present, loaded, serial number, root; database files | start, load, scan, rescan, save, offline load and delete, drive arrives or leaves, stop, crash | a loaded drive has a live tree that no other slot shows; every drive is loaded in the end |
| Search page (`search.js`, `disk.js`, `context.js`, `scroll.js`) | box, search shown, options, rows, selection, timers | type, search, order, scroll, select, batch command, restart the service | the rows, numbers and selection are those of the text in the box once nothing is pending |
| Messages, index dialog, upgrade (`message.js`, `disk.js`, `download_win.c`, `server.c`) | message and its timer, dialog and its refresh, status file, download threads | show, hide, rescan, check, download, verify | one refresh chain; a failed download does not block the next; a new version has the right hash |
| Requests of the site (`prototype.js`) | requests by ready state, count of active ones, poll timer | request, answer, throw, start, stop | each request is counted off once; one chain of polls |
| Autocompleter, in place editor (`controls.js`) | menu, marked entry, requests; text, form, saving | key, answer, blur; enter, submit, cancel, late answer | the menu is for the text; no text is lost |
| Frame upload (`jquery.form.js`) | mock request, frame, timeout, callbacks | submit, load, timeout, abort, poll of the frame | complete is called, and once |
| Sortable lists (`dragdrop.js`) | order, active draggable, scrolling, delay | drag, hover, drop, Esc, scroll | the page is told the order it shows |
| Effect queues (`effects.js`) | queue, interval, times of the effects | add, pass, cancel | every effect ends; an "end" effect waits |
| Combination effects (`effects.js`) | style of the element, styles remembered, flags of clipping and positioning | create, frame, finish, toggle, cancel | the style is put back |
| Observers of forms (`prototype.js`, `controls.js`) | last value, timer | look, call back | the page knows the value of the field |
| Search server (`server.c`, `serverNP.C`, `serverUD.c`) | connections, statics of a search | search, commands | a response belongs to its request |
| Query and matching (`search.c`, `str_match.c`, `chinese.c*`) | parsed query, bit masks, result list (statics) | parse, match, sort | the bit-parallel matchers agree with "contains"; the list is not overrun |
| Suffix types, packed sizes and times (`suffix.c`, `util.c`, `fs_common.c`) | one-entry cache | look up, pack, unpack | packing keeps order; the cache never mixes two files |
| FAT, Mac and Linux monitors (`fat.c`, `macfs.c`, `posixfs.c`, `linux_inotify.c`) | the same tree | apply change notices | as for NTFS |

How the parts meet: the service is one process with a thread for the first scan, one monitor
thread for each fixed drive, a window thread for drive messages, a thread for each scanned
NTFS tree that reads sizes and times, and a thread for each pipe connection and long command.
All of them share the arrays of `global.c`, the maps of `fs_common2.cpp` and statics of
`ntfs.c`, `search.c` and `suffix.c`. **No lock is taken anywhere.** The browser is another
process; it talks to the service with text commands (`[///rescan2`) and keeps the history
itself. The page is one thread whose handlers run to their end; between them come keys, mouse,
timers and the answers of the service, which may be down. The same holds for the libraries of
the site, where answers of requests, load events and callbacks that throw come in any order.

The hard behaviours are therefore interleavings of those threads, freed memory that is still
pointed to, files that are truncated before they are written, journal records whose reasons
accumulate, and, in the pages, timers whose handle was overwritten, answers that come after
the state they were asked for is gone, and throws that skip the rest of a handler.
`PROJECT.json` lists each at its line, with the properties that cover it.

## 2. Modules

| Module | Models | Uses |
|---|---|---|
| `HistoryList` | what the ring promises: a list with pinned places | – |
| `History` | `history.c`: the ring and its four operations; the refinement of the list | `HistoryList` |
| `HistoryApp` | a browser process, its page and the saved file | `History` |
| `NtfsIndex` | volumes, journals, monitor threads and the tree | – |
| `Drives` | slots, trees as wholes, databases, threads | – |
| `SearchPage` | the search page: box, searches, grid, timers | – |
| `Dialogs` | messages, index dialog, upgrade with its download threads | – |
| `AjaxRequest` | requests and the PeriodicalUpdater | – |
| `Autocompleter`, `InPlaceEditor` | the two controls of `controls.js` | – |
| `FormUpload` | upload of a form through a frame | – |
| `DragDrop`, `EffectQueue`, `FormObservers` | sortable lists; queues of effects; observers | – |
| `EffectStyles` | the sixteen combination effects on one element | – |
| `MCHistory`, `MCNtfsIndex`, `MCDrives`, `MCSearchPage` | constants for TLC | the above |
| `MCPages` | what pages may never do, in one run | `HistoryApp`, `AjaxRequest`, `Autocompleter`, `InPlaceEditor`, `DragDrop`, `EffectStyles` |
| `MCProgress` | what must come about on pages, in one run | `FormUpload`, `EffectQueue`, `FormObservers`, `Dialogs` |
| `HistoryProofs`, `HistoryAppProofs`, `NtfsIndexProofs`, `SearchPageProofs`, `DialogsProofs` | theorems about the module each is named for | it |
| `DrivesProofs`, `DrivesTreesProofs` | theorems about `Drives`: types and count; trees | `Drives` |
| `WebProofs` | theorems about six libraries | `AjaxRequest`, `InPlaceEditor`, `FormUpload`, `Autocompleter`, `DragDrop`, `EffectQueue` |

Definitions keep the names of the functions they translate. A definition marked "(Mutant)" is
the definition below it with one plausible mistake; it is used by no specification and serves
to see that a property can fail. A variable called a history variable records why a property
may not hold any more (a callback threw, a text was pasted, ...); the code has no such
variable, and it decides at most when a model stops or reuses a slot. A property that names
such reasons says that the model, with the events, options and callbacks it has, contains no
other; it says nothing of what the model leaves out.

### History

`his_files`, `nstart` and `PIN` are the variables of `history.c`. The C function
`n_index_form_w` walks back from the head until it has passed enough unpinned slots;
`IsNIndex(wi, ni)` says that this walk, asked for place `wi`, stops at slot `ni`, by counting
the slots it passes. That the walk stops at all is the property `PlacesMatchSlots` and not an
assumption. `inc_start` and the search for the filler of `history_delete` are "the first
unpinned slot going up" (`IsNextFree`). The initial pins follow the C initialiser, which sets
only `PIN[0].wi` to -1; the other places have `wi = 0`, which is not their own number and so
means "not pinned".

`HistoryList` has neither slots nor head. `ImplementsList` says that `History`, seen through
`history_get` and `VALID_PIN`, is that list: adding pushes unpinned records back past the
pinned ones, pinning moves nothing, unpinning puts one record somewhere among the others and
keeps their order, deleting fills the hole with the record of some unpinned place and leaves
that one empty. Which one it is the list leaves open, because the repository disagrees with
itself: `history.h:19` promises the record of the next place, and `history_delete`
(`history.c:134-142`) takes the unpinned slot that follows the head, which is the oldest
record but one, or an unused slot; the deleted place then shows an old file or nothing.
`ImplementsList` is therefore no claim that the comment holds: it does not. Nor does it say
anything of the buttons of a page, which `HistoryApp` has.

### HistoryApp

One browser process at a time. `history_save` is `SaveOpen` (truncated), then `SaveClose`,
`SaveShort` (`fwrite` wrote less, and `history_save` returns 1 all the same,
`history.c:213-217`) or `Crash`. The head and the pins fit into the first block written, so a
torn file is empty or has the header and some first rows. `history_load` reads what is there
and leaves the rest of memory alone. Button `i` of a page carries place `i` and the handler
chosen when the page was drawn. Files may be opened before the history has been loaded when
the browser was started on a directory, as `init_dir` allows.

### NtfsIndex

The volume and its journal are external: `CreateFile`, `RenameFile`, `DeleteFile` and
`CloseFile` change the disk and append the records NTFS writes, with accumulated reasons. With
`Overlap = FALSE` a volume has one open change at a time; with `TRUE` several changes through
one handle accumulate. The `On...` actions are the branches of `updateFileEntry`, with the
tree operations of `fs_common2.cpp` on an explicit heap. What the code finds by recursion is
defined without it, so that it can be proved about: `Subtree` is the least set that holds an
entry and is closed under children, `FirstChild` the first position that fits. A read of freed
memory, a NULL dereference or a failed assertion sets `fault`, after which nothing happens:
the process is gone. A journal that cannot be read (`ntfs.cpp:231-264`) is left out.
`ALL_FILE_COUNT` is changed by `++` and `--` without a lock, and the count is followed as long
as one volume has been monitored (`Raced`); what two threads lose is in `Drives`.

### Drives

A tree is one heap cell: its volume, its number of entries and whether it is live. `scan` is
cut at its three touches of shared state (`ScanCheck`, `ScanFill`, `ScanPublish`), `save_db`
at open and write, `rescan` at clearing `g_loaded` and freeing, `offline_db_visitor` at
reading and publishing. `call[t]` says where thread `t` is. The letters a loop has still to
visit are the set `todo`, and `Turn` says which of them comes next. A database file ends in
its header, within an entry, or after some whole entries; the last writer of a file wins. A
file that ends right after its header is accepted (`write.c:257`) although it gives the drive
no root: the drive is loaded, no scan follows, and it has no tree, or that of another drive if
the slot was used before. `hollow` holds such slots, and the properties of trees leave them
out.

The code counts files one by one, with an `ALL_FILE_COUNT++` that is a load, an addition and a
store (`ntfs.c:101`, `fat.c:54`, `write.c:283`, `fs_common2.cpp:218`). Here a loop is one
step, `Count`. If another thread is in the middle of such a loop (`CountsBeside`), each of the
two may lose any of its updates, so from then on (`raced`) the count is any number between
what it was and what it should become. With `FollowRaces = FALSE` TLC does not follow the
count after that (it is set to 0), which keeps the runs small; the proofs hold for both
values. `SerialRescan = TRUE` lets a rescan run only when the first scan is over and no drive
comes or goes; `FALSE` removes that restriction. A stop is modelled after the first scan; one
during it is covered by `Crash`. Commands and drive messages that arrive while the service is
saving to stop are left out, and so is a drive that leaves before its arrival was handled:
`GetVolumeInformation` then leaves uninitialised names. Monitor threads and their handles are
not in this module.

### SearchPage

One action per handler and per timer; what a handler calls (`searchf`, `load_history`,
`view_grid`) is an operator. A timer variable is `[n, own]`: how many are pending and whether
the variable still names the last one, because some handlers arm a timer over another's
handle, which can then never be cleared. Delays are not modelled: a pending timer fires at any
later step. An answer is named by query and options, and its `i`-th file by these and `i`, so
that rows of different searches differ. All options of a search are one value. `heard` says
that the text in the box was handed to `searchf` while the service answered: it becomes false
when the box is emptied, changed with the mouse, or a call fails. The user holds down one key
at a time and uses the mouse while none is down. The history pages of the same files are in
`HistoryApp`.

### Dialogs

The message area, the index dialog and the upgrade share the page and the service only. The
status file of the upgrade is `status` and `recent` (younger than a day). A download thread
reads its arguments from the stack frame of a call that has returned; `OverwriteArgs` is any
later request that uses this stack. `parse` then writes through NULL, which ends the service.
`overlap` is the history of two downloads at once, which write one installer file.

### The libraries of the site

* `AjaxRequest`: a request is a record with its ready state; `counted` is the history of the
  dispatch to the responders. What a throw skips follows the try blocks; `breaks` is a throw
  of `onCreate`, `open`, `send` or a callback that `onException` does not hold, in plain
  requests and in those of a poll alike. A callback of a poll may call `stop`, which then
  unhooks the wrong request or comes too late (`stop_missed`). The caller of a
  PeriodicalUpdater starts what it has stopped and does not start twice.
* `Autocompleter`: a key and its change are one step, since the observer timer fires after
  both. Bounds computed for another text cut off, or leave in place, some characters, so the
  token is then any text. `crossed` holds the ways a menu goes stale.
* `InPlaceEditor`: the editor and the collection editor; the latter loads its list first. An
  empty text is no text for the tests of `controls.js:582` and `611` (`Truthy`); with
  `htmlResponse: false` the page shows the answer or does not, and an `onFailure` of the page
  may throw.
* `FormUpload`: four things end an upload; `cb`, `timeout`, `checkState` and `abort` are
  actions, and each callback may throw.
* `DragDrop`: an action per event of `Draggables`, with `finishDrag` cut off where it may
  throw: in the `onChange` of the list left or entered when it hovers once more, or in an
  `onUpdate`. What is reported is the sequence of the ids that match the format, so two orders
  may be the same to the page. Trees, the option `only` and the effects of a page that replace
  the default ones are left out. An item has at most one pending delay. Lists are made anew
  only when their items stay in them, and set by the page only between drags. `lost` holds the
  ways a change is never reported.
* `EffectQueue`: a pass over the queue is cut where the page comes in: at the callbacks of a
  frame, of the last frame and of the finish of one effect, any of which may start and cancel
  effects or throw. The options are the position, delay, duration and limit. The clock's unit
  is longer than a frame. Effects are started in the order of their numbers.
* `EffectStyles`: each combination effect is a value: what it calls when it is created, the
  styles it remembers, and its stages with their core effects and handlers, in the code's
  order. One interpreter runs them, as `Base.render` and `Base.loop` do. An inline style is
  empty, drawn by a frame, or a computed value written back (`getStyle` of `Highlight`,
  `DropOut` and `Shake`); the value itself is left out. The element may be positioned by its
  style sheet. Frames come when they like, so two effects overlap in every way; the queues are
  in `EffectQueue`, but the limit of `Effect.toggle` is kept.
* `FormObservers`: one module for the three kinds of observers, chosen at the start.

`MCPages` and `MCProgress` compose these modules, and with them `HistoryApp` and `Dialogs`, by
disjunction: they share nothing but the page, so a behaviour has one `part` and the others
keep their initial state. The first has the modules with safety properties only, the second
those that also promise an end.

## 3. Runs

| Run | Checks | Instance |
|---|---|---|
| `history` | `TypeOK`, `PinsDistinct`, `HeadNotPinned`, `PlacesMatchSlots`, `PinnedRecordsKeptByAdd`, `ImplementsList` | 4 slots, 2 pinnable places, 3 names (symmetric); complete |
| `pages` | `PagesTypeOK`; history in the browser: `RingSoundAfterAnyLoad`, `FileIsMemory`; requests: `CountAccountsForRequests`, `OnePollChain`; menus: `SettledMenuIsForText`; editor: `TextIsNeverLost`; sorted lists: `SettledOrderIsReported`; effects: `StyleIsPutBack` | 4 slots, two pages of 2, 1 name, one failure; for the libraries see below |
| `ntfs` | `TypeOK`, `IndexMatchesDisk`, `TreeWellFormed`, `CountMatchesTree`, `LookupNeverWrong`, `OnlyTheNamedFileChanges` | 1 volume, 2 directories, 1 file, 2 names, 5 changes |
| `ntfs_threads` | finds `MovedFileIsTheRecords` violated | 2 volumes |
| `ntfs_dirmap` | finds `FindDirFindsDirs` violated | 1 directory, 1 file |
| `ntfs_temp` | finds `DeletedFilesLeaveTheTree` violated | overlapping changes |
| `drives` | `DrivesTypeOK`, `OnlineRootsLive`, `NoSharedTree`, `CountCoversTrees`, `ScanningEnds` | 2 letters, 2 offline slots, one NTFS and one FAT volume, 2 events |
| `drives_rescan` | finds `OnlineRootsLive` violated | `SerialRescan = FALSE` |
| `drives_count` | finds `CountIsTotal` violated | as `drives`, `FollowRaces = TRUE` |
| `search_page` | `TypeOK`, `SettledPageIsCurrent`, `BatchHitsSelectionWhenSettled`, `NoRowTwice` | 2 queries, one with more files than are returned; pages of 1 row, 2 values of the options |
| `page_batch` | finds `BatchHitsSelection` violated | as `search_page` |
| `progress` | `ProgressTypeOK`; uploads: `CompleteOnce`, `UploadEnds`; effect queues: `EndWaits`, `EffectsFinish`; observers: `FieldIsTold`; dialogs: `NewIsVerified`, `FailedDownloadIsForgotten`, `RescanIsShown` | 1 drive, 2 download threads, 2 checks, 2 rescans; for the libraries see below |

Why the bounds are enough.

* History: two pinnable places of four slots already give pinned slots next to each other, at
  the head, and across the end of the ring, and leave two unpinned places to move; the state
  space is complete, and the proofs remove the bound. `MaxFailures = 1` allows one failed,
  short or torn save in any state a session can reach. With one name (`pages`) slots still
  differ by being used or not, by the head and by the pins.
* NTFS: five changes suffice to create a directory and a file, move the file, rename the
  directory and delete either.
* Drives: `MaxEvents = 2` counts rescans, arrivals, removals, the loading of offline
  databases, stops and crashes: a removal and a return, a crash and a later event, or a
  removal and a load of offline databases; deletions of offline drives and all steps of
  threads are not counted.
* Search page: two queries and two values of the options make an answer stale in either way;
  one row for `FirstRows` and `PageRow` with one returned file (and the row that says there
  are more) has a grid that is full, one that is appended to and one that is empty; `MaxTimers
  = 1` still lets a handler arm a timer over a pending one, so two or three are pending at
  once. The number of keys, searches and crashes is not bounded.
* Dialogs: with two threads a second download starts while the first runs, or after it.
* Libraries: one plain request and two poll requests (one stopped under way, one of the new
  chain), any callback of which may throw or stop the polls; texts of which one offers two
  entries, one offers one and two offer none, two requests under way and four keys, so answers
  overtake; three entries into the editor with two requests; one upload with two buttons, one
  field and two looks at the frame; two items in two lists, one of them with an id the format
  does not match, two pending end effects; three effects with delays and durations 0 and 1 up
  to clock 2, one of which may throw, which is enough for a pass that steps over one effect
  and starts the next; any two combination effects on a visible element with each own
  positioning, and any number of refused toggles; four edits of a field of two values.

What the passing runs show.

* The history is sound and implements the list of places. A history file torn at any row can
  be loaded, and outside a save the file is the memory unless a save failed or fell short.
* With one change open at a time the tree follows the volume, except for the name of a file
  that was renamed by the move that brought it to its directory, which `moveFile` keeps
  (`renamedByMove` marks those).
* When rescans run alone, a loaded drive always has a live tree of its own, over crashes and
  torn databases, and none stays unloaded; drives whose last database ended after its header
  are the exception. The count covers the trees until two threads have counted at once.
* Once no key is down and no timer pending, the search page shows the answer, the numbers and
  the selection of the text in the box, however keys, buttons, orderings and restarts of the
  service came (`SettledPageIsCurrent`), if that text was ever searched: `heard` excludes,
  among others, typing again the text that Home has removed, which `search_if_change` takes
  for no change. `#loading` is required to be hidden only when there are files, because a
  click on a column of an empty grid shows it and starts nothing. While no search is pending,
  a batch command gets the selected files.
* A download that failed stops counting after a day; a status "new" names an installer with
  the right hash, unless two downloads ran at once; a rescan is seen to end.
* The count of requests is right (`CountAccountsForRequests`). Polls form one chain
  (`OnePollChain`) unless a throw of a poll has ended it, which leaves the updater started
  without polls; a `stop` called in a callback of the poll may not end it, and the next one
  does. A menu that takes keys is for the text, or one of the five named things came between
  (`SettledMenuIsForText`).
* A text of the editor is lost only (`TextIsNeverLost`) by Esc under a save; by a save with
  `htmlResponse: false` whose answer the page does not show; by an `onFailure` that throws, or
  the default one, whose arguments are in the wrong order; and, if it is empty, by any failure
  and by `destroy`.
* An upload calls `complete`, and once (`UploadEnds`, `CompleteOnce`); an abort never counts
  it off in `$.active`, so the model only bounds this count.
* The sequence of a sorted list is reported, or lost in four ways (`SettledOrderIsReported`):
  an `onUpdate` throws before another list's, an `onChange` throws at the end of a quiet drag,
  Esc leaves the scrolling on, or a delay cannot be cleared.
* Every effect leaves its queue unless one that throws stands there (`EffectsFinish`), for the
  finitely many effects of the model: a page that goes on for ever putting effects in front
  puts the others off for ever. When an effect queued at the end starts, each one queued
  before it has finished, or this very pass has stepped over it, because `remove` replaces the
  array that the pass counts in (`EndWaits`). The exception is real: three effects, the first
  of which finishes, let the third start before the second, which the comment of
  `effects.js:189` rules out.
* Two effects together on an element leave it unclipped and not made positioned, and one after
  the other leave no style as a frame drew it, unless one is cancelled or two pairs of
  `toggle` are mixed (`StyleIsPutBack`): a refused `BlindUp` has clipped the element all the
  same. What they put back is not always what was there: `Highlight` leaves the computed
  background inline, `DropOut` and `Shake` the computed place of an element that is positioned
  by its style sheet (`Fixed`).
* The page comes to know the value of a field, up to the four cases `FieldIsTold` names; a
  keyup that goes to another element is not among the events of the model.

What the violation runs show is in `findings` of `PROJECT.json`: two monitor threads mix up
the two halves of a rename; a renamed directory is found at its freed entry; a file created
and deleted through one handle stays indexed; a rescan during the first scan frees the tree
that is searched; two threads that count files at once lose some, so the list of results is
too short for the trees; and a batch command after an answer that was not drawn, because the
text had changed by then, gets other files than the selected ones.

Met while modelling, without a run: the pin buttons of the second page act on the first
(`search.js:281`); a browser started on a directory overwrites the saved pins
(`search.js:363`); loading offline databases collides with a removed drive (`write.c:386`); a
database that ends after its header leaves its drive without a tree (`write.c:257`); two
downloads at once write one installer (`server.c:446`); a deletion in the history shows
another record than the one promised (`history.h:19`). `show_upgrade` names a variable `host`
that does not exist (`disk.js:281`), so the dialog that offers a new version never opens.

Fairness. `Drives`: weak fairness for each thread of the service, which Windows schedules;
never for users, drives, crashes, or the success of `fopen`. `Dialogs`: timers of the page
fire, a host answers or its request fails, scans end and days pass; not for the user or the
download threads. `FormUpload`: the timers of the submission and of the timeout fire; nothing
is assumed of the server or the frame. `EffectQueue`: the interval comes again and a pass
ends, and time goes on while the interval runs. `FormObservers`: timers fire and callbacks
return or throw. All of these are timers of the browser, which it runs when no handler does.
`CHECK_DEADLOCK FALSE` is given where the model may come to rest: all changes, keys or clicks
are used up, or the process has faulted.

## 4. Proofs

TLAPS checks every theorem for all values of the constants that satisfy the named assumptions
of the modules. Few properties are inductive; what follows names, for each module, the
inductive invariant and why it says more. The refinement and most safety properties of the
passing runs are proved; the end of this section lists the rest.

* `HistoryProofs`, for every `MAX_HISTORY` and `VIEW_HISTORY` with `0 < VIEW_HISTORY <
  MAX_HISTORY` (`HistoryAssumption`), hence for the program's 30 and 15 (`history.h`).
  `HistoryInv` is `TypeOK /\ PinsDistinct /\ HeadNotPinned`. None of the last two is inductive
  alone: a pin takes the slot the scan stops at, and one must know that this slot is neither
  pinned already nor the head. The second is the counting argument of `ScanStopsBeforeHead`:
  the head is the farthest unpinned slot, so to stop there the scan would have to pass all
  other unpinned slots, and those are more than the places of the page leave. From the
  invariant follow `TypeCorrect`, `PinsStayDistinct`, `HeadNeverPinned` and the action
  property `AddKeepsPinnedRecords`.
  - `PlacesAlwaysMatchSlots`: in a set of numbers the rank of an element is how many are below
    it. Ranks are distinct and below the size of the set, hence each is taken (`RankTaken`).
    The scan for an unpinned place stops at the unpinned slot of the same rank, slots being
    numbered by their distance to the head; and there is one, as pinned places and pinned
    slots are equally many.
  - `RingImplementsList`: every step of the ring is a step of `HistoryList` or a stutter.
    `SlotOf` pairs places and slots by rank, before and after the step. An operation takes at
    most one slot out of the unpinned ones or puts one in, and `RankWithout` says what that
    does to the ranks of the others; one lemma per operation (`AddImplements`, ...) reads the
    effect on the list from it.
* `HistoryAppProofs`, in addition for any page (`PageAssumption`) and number of failures:
  `AppTypeCorrect`, `LoadedRingIsSound`, `FileHoldsMemory`. `AppInv` adds two facts to the
  ring's own invariant. `FileSound`: head and pins of the file are sound in every state of the
  file, those torn by a crash or a short save included, since `history_load` believes them.
  `Synchronised`: a process that has not loaded has either saved all its memory or still has
  the memory it was started with; without it, nothing is known of the first save after a
  start.
* `NtfsIndexProofs`, for any number of volumes, files and changes, overlapping or not, and
  with the interleavings that `ntfs_threads` shows to mix up renames: `NtfsTypeCorrect`,
  `TreeStaysWellFormed`. The tree is well formed only together with: no entry is its own
  parent (a vector would be changed while it is walked), and what `DirMaps` holds for a number
  has that number, freed or not (`MapNumbers`); the latter needs that no record names a file
  as its own directory (`Journals`). The effects of creating, moving and deleting are stated
  for an arbitrary heap, and the branches of `updateFileEntry` cite them.
* `NtfsIndexProofs` again, under `Alone`: one volume (`Drive = {1}`) whose files are changed
  one at a time (`~Overlap`), as in the run `ntfs`, but with any files, names, length of the
  journal and delay of the monitor. Neither half can be dropped: with two volumes the
  assertion fails (`ntfs_threads`), with overlapping changes a deleted file stays indexed
  (`ntfs_temp`). Proved are `IndexFollowsDisk`, `CountIsTheTree`, `LookupStaysRight` and
  `OneFileChanges`, and `FaultsAreStale`: no `NULL` is followed and the assertion of
  `updateFileEntry` holds (`AssertionHolds`), so what `ntfs_dirmap` shows is all that can end
  the process.
  - No property of the heap alone is inductive: that the file of a rename is found, or that a
    move puts no directory below itself, is so because the volume was a tree when the record
    was written, perhaps long ago. `ReplayInv` says so: there are states `s[0]`, ...,
    `s[Len(journal)]` of an abstract index (a set of entries and the static of the rename),
    the first is the heap as it is, each follows from the one before by one record
    (`Handles`), each is a tree (`IsTree`), and the last agrees with the volume, or will when
    the file that is open is closed (`Ends`). Stated with `\E s`, the replay needs no
    recursion: a change of the volume puts a state at its end (`ReadsMore`), a record that is
    read takes one off its front (`ReadsLess`).
  - `Hangs` and `MapsHold` tie the heap to the first state: a live entry is in the vector of
    its parent, a number has one live entry, and `DirMaps` knows each directory of the tree if
    only by an entry that was freed. Each branch of `updateFileEntry` then does what `Handles`
    says, or faults (`OnCreateHandles`, ...).
  - That the heap has no cycle is `Rooted`, a statement about sets: no set of files contains
    the directories of all its members. It is what makes `Subtree` of the root, defined by
    closed sets, all live entries (`SubtreeIsLive`).
* `DrivesProofs`, for any letters, offline slots and volumes and every interleaving,
  concurrent rescans included: `DrivesTypeCorrect`, `DrivesCountCovers`, the latter as long as
  no two threads have counted at once, a hypothesis that `drives_count` shows to be needed.
  `CountInv` counts files as pairs of a tree and a row, and with them the rows that a failed
  `readfile` has left waiting, which are in the count and in no tree. `RootsSet` is needed for
  the types: a thread that publishes or saves has a root.
* `DrivesTreesProofs`, under `SerialRescan`: `LoadedDrivesAreLive`, `NoTreeLoadedTwice`. The
  hypothesis cannot be dropped, as `drives_rescan` shows. `TreesInv` says which threads can be
  under way together (`Schedule`), that a drive that is loaded or about to be published has a
  live tree that no offline slot shows, slots in `hollow` excepted (`OwnRoots`), and, because
  a removed drive leaves its root in its letter and in the offline slot that took it over,
  that such a letter waits for its drive to arrive or is being scanned (`SharedWaits`). For
  this, arrivals and removals of a letter must take turns in the message queue (`Alternate`).
* `SearchPageProofs`, for any texts, hits, page sizes and numbers of timers
  (`PageAssumption`): `PageTypeCorrect`, `SettledPageShowsBox`, `BatchHitsSelected`,
  `NoFileTwice`. `PageInv` follows a text from the box to the grid: one that was heard is the
  one searched unless a key is down (`HeardText`); with no search pending the answer is that
  of the text searched (`FilesAnswerSearch`), the rows are the answer's unless the text has
  changed (`RowsShowFiles`), and numbers and `#loading` lag behind by their own timers.
  `cur_page_end` outlives a search, and `Gap` says that it is no part of a page ahead of the
  rows. That no file is shown twice holds whatever is pending: rows count up in the answers
  they came from (`RowsCountUp`).
* `DialogsProofs`, for any number of threads, checks, rescans and deaths of the service:
  `DialogsTypeCorrect`, `NewStaysVerified`. A download writes the status when it starts and
  when it ends, so one must know that one runs at a time (`OneDownload`) and none while the
  status is "new" (`NewIsFinal`). `RefreshIsOwn` is what makes the refresh one chain.
* `WebProofs`:
  - Requests, for any finite sets of them (`AjaxAssumption`): `CountAccounts` and `OneChain`.
    `RequestInv` says which states a request may be in: one under way is counted, and
    `readyState` 4 and `_complete` go together, which keeps a synchronous request from
    completing twice. `CountInv` says that the count is the number of counted requests, and
    `ChainInv` where the one poll is: at the timer, or at `updater`, which is why `stop` need
    unhook only that one; there is none once a throw has ended the chain, and a `stop` that a
    callback calls leaves it for the next `stop`. `ReplaceRequest` says what replacing one
    request does to the sets of requests.
  - Editor, for any texts that differ from what the editor writes itself (`TextsAssumption`),
    any requests and clicks: `EditorNeverLosesText`. "Saving..." is kept as the old text only
    after a text was given up (`KeptIsText`), because no form is open while saving
    (`NoFormWhileSaving`).
  - Uploads, any number of them: `UploadTypeCorrect`, `UploadCompletesOnce`. `Sound` says what
    an upload in each phase may still be waiting for, and bounds the calls of `error` and
    `complete` by the ways it has been ended. `CountSound` puts `$.active` between the uploads
    that may count themselves off and those counted.
  - Autocompleter, for any texts, entries and requests: `AutocompleterTypeCorrect`,
    `MenuIsForText`. While nothing has come between and no observer event is to come, a box
    with the focus has its last request, or with none under way its menu, for its text
    (`LastIsForText`). Nothing of the kind holds without the focus, as an answer is then
    ignored; but a menu that takes keys has it.
  - Sorted lists, for any lists, items and options: `SortedListsAreReported`. As long as
    nothing was lost, what was reported is the sequence of the ids shown, or a drag is under
    way and `lastValue` remembers what was reported (`NothingLost`).

  - Effect queues, for any effects, delays, durations and times (`EffectAssumption`):
    `QueueTypeCorrect`, `EffectsAtTheEndWait`. Whatever an effect at the end waits for is
    finished, or stands before it in the queue and is to end before it starts (`Awaits`): a
    front effect puts both off by the same time, or only the one that waits. Every effect that
    the pass has looked at and that is still queued is not yet due (`PassInOrder`), so when
    the pass comes to an effect that is due, one that it waits for has finished, or stands at
    a place the pass has gone by without looking. Nothing is assumed of earlier passes or of
    the callbacks.

Only model-checked:

* That the index follows several volumes, or a volume with overlapping changes, is false (the
  runs above), and is not restated under weaker conditions.
* `StyleIsPutBack` compares the effects of sixteen fixed programs run by an interpreter that
  folds over their steps; its only parameter is the number of effects started, and TLC checks
  it to the bound.
* The types of `DragDrop`, `FormObservers` and `EffectStyles`, hence the types of `MCPages`
  and `MCProgress`, which join those of all their modules. That a list an item is dragged
  through stays an arrangement of its items rests on `SelectSeq`, which is recursive.
* Liveness: `ScanningEnds`, `FailedDownloadIsForgotten`, `RescanIsShown`, `UploadEnds`,
  `EffectsFinish`, `FieldIsTold`. Fairness and `ENABLED` are beyond the prover.

## 5. Not modelled, and why

* The connections of the search server, parsing and matching of queries, and the packing of
  sizes and times are not modelled. They hold loops over bytes and statics whose hazards are
  listed with a note where they have one; they would be the next modules (`SearchServer`, then
  `Match` against "contains").
* FAT, Mac and Linux monitors share the tree operations of `NtfsIndex` with other sources of
  events; they would come after these. Monitor threads are not in `Drives`.
* Of the page, what only draws or calls the shell: menus, pictures, marks of the matching
  letters, layout. Of the libraries, the extensions of strings, arrays and elements and what
  effects draw: they keep no state between events. The copies are in the repository, and no
  view of the site includes them; they are modelled as the code stands.
* Two browsers of one user that share the history file, and two pages at once.
* Browser shells, icons, hot keys, installers, MD5, crash dumps and the Rails controllers of
  the site call libraries or are generated, and keep no state the index depends on.

Worth proving next: that `IndexMatchesDisk` holds of each of several volumes when no two have
a rename under way at once; the types of `DragDrop`, once its lists are changed by position as
the queue of `EffectQueue` is (`RemoveFirst`); and `ObserverTypeOK`.
