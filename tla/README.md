# gotrackfs: specification, model checking and proofs

gotrackfs is a FUSE file system. It mirrors a music library and shows an album
that is one audio file with a cue sheet as a directory of tracks. A track is cut
out of the album with ffmpeg when it is opened, kept in a temporary directory
while it is in use, and removed some time after its last use. This directory
holds TLA+ models of that program, written from its source; TLC checks them on
small instances, and TLAPS proves the most important properties for every value
of the constants. Paths are relative to the repository; `manager.go` and
`ffmpeg.go` are in `src/internal/cutter/`, `fs.go`, `cache.go`, `build.go`,
`resolve.go`, `name.go` and `path_fallback.go` in `src/internal/vfs/`, `parser.go`,
`sheet.go`, `tokenizer.go` and `encoding.go` in `src/internal/cue/`.

## Inventory

| component | source | state | operations |
|---|---|---|---|
| slice cache (`TrackCacheManager`) | manager.go | `entries` (key to entry with `activeWaiters`, `refCount`, `done`, `err`, `cancelCut`, `timer`), `closed`, the temporary directory | `Acquire`, `Release`, `GetExisting`, `Close`; the goroutine `runCut`; the TTL callback |
| ffmpeg cutter (`FFmpeg`) | ffmpeg.go | the semaphore `sem` | `Cut`, `SetMaxConcurrency`, `SetTimeout` |
| album cache (`AlbumCache`) | cache.go | `dirs` (path to state and mtime), the singleflight group | `GetDirState` |
| VFS handles (`VFS`) | fs.go | `openFiles`, `nextHandle`, each handle's atomic file pointer, `ctx` | `Open`, `Read`, `Getattr`, `Release`, `Destroy` |
| directory state and naming | build.go, resolve.go, name.go, fs.go | none: it computes a `DirState` | `buildDirState`, `assignTrackFilenames`, `resolveAudioFileForCue`; read by `resolve`, `Getattr`, `Readdir` |
| path fallback | path_fallback.go | none | `statPath`, `lstatSyscall`, `openRealFile`, `readDir`: system calls tried again in the other Unicode form |
| cue sheet commands and timing | parser.go, sheet.go, build.go, ffmpeg.go | none: it computes a `Sheet` | `Parse` (two passes), `calculateTrackBoundaries`, ends, tags and estimates in `buildDirState`, `-ss`/`-t` in `BuildArgs` |
| tokenizer, encodings | tokenizer.go, encoding.go | none | `parseCommandBytes`, `SniffAndPreprocess`, `DetectEncoding`, `MakeDecoder` |
| audio probing | `src/internal/audio/` | none | `Probe`: header parsing, a call of ffprobe |
| quality cap, slice keys | `src/internal/track/` | none | `Quality.Plan`, `Slice.Key`, parsing of flags |
| stat fields | stat_linux.go, stat_darwin.go | none | copies of the fields of stat and statfs |
| command line, container | `src/cmd/gotrackfs/main.go`, `src/docker/` | none | flags, wiring, clean-up order |

How they interact. A FUSE thread in `Open` resolves the path through
`AlbumCache.GetDirState`, which builds the directory state from cue sheets. For a
virtual track it calls `TrackCacheManager.Acquire`, which starts `runCut` in a
goroutine; that calls `FFmpeg.Cut` with a context of its own and closes `done`.
The handle keeps the path open and its number goes to the kernel; `Release` of
the handle releases the slice. `Destroy` (unmounting) cancels the VFS's context,
closes all files and closes the cache, which cancels the cuts and removes the
temporary directory.

Where it is hard:

* one cut serves many waiters, each with a context of its own, and `m.mu` is taken
  and given back five times on the way; the cut may end between any two of them;
* `time.Timer.Stop` does not wait for a callback that has already fired;
* ffmpeg is killed at any point by a cancellation or a timeout, and tried twice;
* directories change while they are read, and builders share results;
* `Destroy` runs while threads are between `Acquire` and the registration of a handle;
* real names, virtual names, discs and artwork compete for names in one directory;
* sheets compete for audio files, and fall back to others when theirs are missing;
* one name has two Unicode forms, on the disk, in sheets and in what the kernel asks for;
* cue sheets leave out, repeat and misplace commands, and are split into parameters
  before it is known what their bytes mean.

What makes each component correct:

* *slice cache*: the counters are the users; a file is there and complete from
  `Acquire` to `Release`; no two cuts write one path; an unused file goes away, and
  so does everything after `Close` (it does not, see the findings); no `Acquire` waits for ever;
* *cutter*: as many slots are taken as cuts run; a call returns, leaves a complete
  file on success and none after a cancellation; artwork is never fatal;
* *album cache*: a state is never labelled newer than it is, and a failed build is not
  kept; a stale answer goes only to a lookup that joined an older one, and does not last;
* *handles*: each `Acquire` is matched by one `Release`, each open file can be
  closed, nothing is registered after `Destroy`, and `Destroy` blocks nobody;
* *directory state*: every track has one path, no name is listed twice or leads to
  something else, nothing real is lost, no audio file belongs to two albums, and a
  sheet whose audio is there gets it, in every order of the sheets, unless another one
  had to fall back on it;
* *path fallback*: a name in either form leads to the file;
* *commands and timing*: the tracks divide the audio as the sheet says, and a reported
  size is not below the real one;
* *texts*: what somebody wrote into the sheet is what is in the tags of the track;
* *probing and cap*: a cap lowers what exceeds it and raises nothing (but in one case, see
  "Behaviour that differs").

## Modules

| module | models | composes or refines |
|---|---|---|
| `SliceCache` | what the cache promises its callers: one slice per key, not removed in use | abstract |
| `TrackCache` | manager.go | implements `SliceCache` |
| `Cutter` | what manager.go relies on in a cutter | abstract |
| `FFmpegCutter` | ffmpeg.go, `Cut` and its slots | implements `Cutter` |
| `AlbumCache` | cache.go and the listings of build.go | |
| `VfsHandles` | fs.go, `Open` to `Destroy` | contains `SliceCache` as its cache |
| `VirtualDir` | build.go, resolve.go, name.go, path_fallback.go, readers in fs.go | |
| `CueSheet` | parser.go, and build.go and ffmpeg.go where they use its times and texts | uses `CueText`, `SourceAudio` |
| `CueText` | operators: tokenizer.go, encoding.go, and the writers of sheets | |
| `SourceAudio` | operators: `audio.Probe`, the quality cap, the sizes of cuts | |
| `MC*` | instances for TLC: sets of names and sheets, symmetry | |
| `TrackCacheProofs`, `TrackCacheRefinement`, `FFmpegCutterProofs`, `AlbumCacheProofs`, `VfsHandlesProofs`, `VirtualDirProofs`, `CueTextProofs`, `CueSheetProofs` | proofs | |

So the stack is verified in layers: ffmpeg.go implements `Cutter`, whose steps are
those of the cut in `TrackCache`; `TrackCache` implements `SliceCache`; and
`VfsHandles` runs on `SliceCache`. Operators named `Bad...` are plausible slips
that the code does not make (a dropped guard, a missing reset); nothing uses them,
and substituting one for its original violates the property it was written for.

### TrackCache

One action is one critical section of `m.mu`, or one step outside of it.

| code | actions |
|---|---|
| `Acquire`/`getOrCreateEntry` | `AcquireNew` (starts the cut), `AcquireExisting` (joins a cut, hits, or meets a failure: `Joined`), `AcquireRefused` (closed) |
| `waitForEntry` | `WakeDone` (`done` is closed: `Woken`), `WakeCancelled` (`ctx.Done()`: `cancelWaiterLocked` is `WaiterLeft`), `CtxDone` |
| `runCut`, up to its lock | `CutCreate`, `CutRetry`, `CutSucceed`, `CutFail`: what the cutter does to the file |
| `runCut`, under the lock, and `close(done)` | `RunCutOk`, `RunCutErr` (`CutEnded`) |
| `Release` | `Release` (`Released`) |
| `scheduleTTLTimerLocked` and the callback | `ScheduleTTL`, `TimerFire`, `TimerCallback`, `LateCallback` (`Evictable`, `Expire`) |
| `GetExisting` | `Lookup` (under the lock), `Stat` (outside of it) |
| `Close`, and its `os.RemoveAll` outside of the lock | `Close` (`ShutDown`), `RemoveFiles`, `RemoveDir` |

An entry is an object with an identity (`EntryIds`), since old entries live on in
callers and timers when the key has a new one; an id is used again once nothing
refers to it (`Collected`). `late` counts callbacks that had fired when their
timer was stopped. `file` says whose cut made the file at a key's path.

### FFmpegCutter

`Cut`'s call is `queued` in the `select`, then holds a slot while it is
`starting`, `running`, `writing`, `exited` or `returning` (deferred functions).
The timeout and a cancellation are one event, `CtxDone`, that can come at any of
these points. The second try (`RetryWithoutArtwork`, if `MayRetry`) goes back to `starting`
without `art`. `Sound` are the tracks that ffmpeg cuts without artwork if nothing stops it: what
it makes of the artwork, and of other tracks, is open.

### AlbumCache

One directory, since paths do not interact. Its mtime is a number that grows with
each change. A lookup is `Stat`, `Lookup`, then `Lead` or `Join` a flight; a
flight is `Recheck`, `ReadCues`, `NoAlbums` or `ReadNames`, or `BuildError`, then `Store`, `Land`. A
`DirState` is known by the versions that its first and last listing saw: the first is for the
cue sheets and the last for names and artwork. An error of the first fails the build. That of the last
is dropped (build.go:283), and the state then has no version of the names (`None`) until the
directory changes again; a sheet or an audio file that cannot be read is likewise left out till then.

### VfsHandles

A thread's program counter says what it has done of `Open`, `Read`, `Release` or of the
`Getattr` of a track; `destroy` the same of `Destroy`. A claim is one `Acquire` and what follows from it
until its `Release`, whoever carries it: a thread, a handle, a thread again.
`Slicer!Ask`, `Obtain`, `Leave`, `Evict` and `Close` are the steps of `SliceCache`.
After `Close` the promise ends, so `OpenTemp` may find the complete file or none.
`Getattr` takes the size from the file of its handle (`GetattrLoad`, `GetattrStat`) or from
`GetExisting`, which is `Peek` under the cache's lock and `Measure` without it. `Peek` takes the
entry that is there, also one that is still being cut; `found` says what becomes of it until
`Measure` (`Outlived`: its cut fails, or it expires) and `seen` which handles of the track were
open when it was looked up. `Answer` is the return, with `whole` for the size of the complete slice.

### VirtualDir

One action per turn of a loop:

| code | actions |
|---|---|
| `buildDirState`, over the cue sheets | `SkipCue` (unreadable, without tracks, or split per track), `OpenCue` |
| ..., over the FILEs of a sheet | `FindSource` (`resolveAudioFileForCue` is `FindAudio`), `SkipMissing` (the sheet is dropped) |
| ..., after them | `AddAlbum` (claims the audio), `Collect` (begins the `DirState`) |
| ..., over several albums | `AddSubdir` (`determineDiscDirName` is `DiscName`) |
| `assignTrackFilenames` | `NameTrack` (`Free` is its search for a suffix) |

A name is a stem, ` (n)` suffixes, an extension and a form, because collisions of
suffixed names and of forms are the point. The program puts what it is asked for
into NFC (`Nfc`); `Exact` is a system call that takes the path as it is, `Lookup`
one with the fallback, and `Reached` says whether the directory itself is found.
The fallback normalizes a path as a whole, so the forms on the way to the directory
matter (`path`); `OneForm` says that they and those of the entries are the same.
`Resolve`, `ResolveIn` and `Listed...` are what `resolve`, `Getattr` and `Readdir` make
of the state. Cue sheets are read in any order, of which the code takes one.

The path that a sheet declares is a sequence of names, so a FILE may be below a subdirectory (`below`);
`Tries` are that path, its base name beside the sheet, the stem of the FILE and that of the sheet with
each extension, as in `resolveAudioFileForCue`. `Listings` are the listings for the only unclaimed
audio file, any of which may fail, and `listed` is what the last one gave for the names (`Lost`: what
it may lack; the code drops its error). `Hidden` is made of base names, as `HiddenMonoliths` is.

### CueSheet and CueText

`SplitLines` is pass 1 with the detection of the encoding; then one action per
command of pass 2 (`ReadFile`, `ReadTrack`, `ReadIndex`, `ReadPregap`, `ReadText`,
`ReadRem`), `SetBoundaries` (`calculateTrackBoundaries`) and `SetLastEnds` (the ends from
the probed length). `Cut` is the set of frames that the arguments of ffmpeg select,
`Tags` the nine tags of a slice and `Metadata` what the cut then has: `BuildArgs` passes no empty
tag, and ffmpeg keeps those of its input that it is not given (`OfSource`).

The reference for all this reads the sheet and not the state. `FilesSaid` and `TracksSaid`
count the commands up to one (`OpensFile`: a FILE, or a TRACK before any): they say which
file it is about and which of its tracks, 0 for none. `Orderly` is a sheet as programs
write it, and `Owner` the track to which it gives a frame: that of the last index up to
the frame, in its file. `TextsInPlace` is a sheet whose texts stand where they belong, in
styles that can carry them (`Safe`), and `Wrote` the text that it gives a track or the album.

A line is a sequence of bytes, each known by its role: quotes, backslash, letters
that may follow one, first and second bytes of other characters (`Codes`). `Line` is
what a writer makes of a text in a style of quoting and an encoding; `Params` is
`parseCommandBytes`, one `Turn` per byte (`Turns`, a recursive function, so that it can be
proved about; `DecodeStates` is another); `DetectEncoding` and `Decode` are their namesakes. The letter scores by which the code chooses among code pages
are taken to find the right one.

### SourceAudio

`Probe` is `audio.Probe`: the header of a FLAC or WAV file (`FLACInfo`, `WAVInfo`)
counts only if it tells both rate and length, and otherwise `FFprobe`, where each
field may be missing. A sample format may have more bits than the file (`Overstated`). `Capped` is `Quality.Plan` in one dimension, `Targets` what
`buildDirState` puts into a slice, `Output` the format ffmpeg then writes,
`QualityRatio` the factor by which the estimate is lowered. `Density` and `Size` stand
for the encoders: of the bytes of PCM, FLAC and WavPack keep six tenths, which is
what `wavToFlacSizeRatio` says, and lossy ones far less.

## Runs

| run | instance | shows |
|---|---|---|
| `slice_cache` | 3 callers, 1 key, 2 entries, 1 late callback, fair; 175,799 states | counters exact, held slices intact, one cut per path, no leak, abandoned cuts cancelled, `SliceCache` implemented, every `Acquire` returns, unused files go, cuts clean up after `Close` |
| `cache_close` | 2 callers, fair | *violated:* a file can stay after `Close` |
| `cache_get_existing` | 2 callers | *violated:* `GetExisting` can report the size of a partial file |
| `ffmpeg_cutter` | 3 calls, one of them for a track that ffmpeg may not cut, limits 1 and 2; 123,382 states | slots, clean-up, artwork, `Cutter` implemented, every call returns |
| `album_cache` | 3 lookups, 1 change, failing listings; 74,879 states | labels honest, failures not cached, answers fresh, every lookup returns, staleness ends |
| `vfs_handles` | 3 threads, 2 claims, 1 key, 2 handles; 490,827 states | references and files neither lost nor given back twice, whole slices, exact sizes of open tracks, no virtual handle after `Destroy`, `Destroy` frees blocked `Open`s |
| `virtual_dir` | 7 optional names in both forms, a file in a subdirectory, 4 kinds of path, 2 sheets of 7 kinds, failing listings, with and without `--keep-album`; 1,647,884 states | listing, resolution, names, sources, complete sheets are used |
| `dir_disc_of_set` | discs numbered `1/2` and `2/2` | *violated:* their directories cannot be reached |
| `dir_forms` | 2 audio files, one in NFD, 2 sheets | *violated:* an audio file found in the other form makes its sheet be skipped |
| `cue_sheet` | 15,861 sheets, audio of 8 kinds, 3 caps; 572,032 states | frames in their tracks, tags as written, estimates are bounds, caps lower |
| `cue_pregap` | sheets of two tracks with `PREGAP` | *violated:* the track before is cut off |
| `cue_double_byte` | texts of up to 3 characters in a double-byte code page | *violated:* a second byte is taken for an escape |

Bounds and why they are enough. Keys of the cache share only `closed` and the
temporary directory, so one key shows the races; three callers are a holder, a
waiter and one that gives up or joins; two entry objects are the current one
and an old one that a caller or a late callback still has. Larger instances were
run by hand without a violation: two keys with three entries and three callers
(1.48 million states), one key with three entries, and `MaxLate = 2`. For `album_cache`, three lookups are a
leader, a joiner, and a slow one with an old mtime, and one change makes it old. For
`ffmpeg_cutter`, three calls are two for the last slot and one that gives it back; one of them
may fail for good. For `vfs_handles`, three threads are `Open`, `Release` (or `Read`,
or `Getattr`) and a competitor of either beside `Destroy`; two claims are a slice that somebody has
and another one in the making. `MaxHandles` bounds `nextHandle` by not
starting an `Open` that would exceed it. The names of `virtual_dir` are what tracks
and discs want, with and without suffix, the fallbacks of the audio search, and an
image to mirror; three of them have accents, one in both forms, one in NFD only. The file in
the subdirectory has the name that tracks want and that may be beside it. Its
sheets declare one file or two, the same or different ones, one in the subdirectory, or none, with a
FILE without tracks; a listing for the names has everything or, when it fails, nothing.
The sheets of `cue_sheet` are all orderly ones of three tracks with times up to 4
in audio of 5 frames, and pairs of tracks with a command missing, doubled,
unparsable or before the first FILE; further texts of up to three
characters, in four styles, four encodings and three places (album, track, a track of a
second file), where a text is given by all six commands, so that each tag has its
own precedence to show. The characters are those that matter to an encoding (a blank, the
quotes, a letter that an escape ends in, a byte like a backslash, an accent), so every pair
of a role and what follows it occurs. Its audio is probed in every way that `Probe`
tells apart, with rates of one and two units (as 48 and 96 kHz) and 16, 20 or 24 bits, of
which 20 are told as 32 by the sample format; it is capped in both dimensions, in one that is
exceeded or just met, or not at all.
Deadlock is checked where the system goes on
for ever; a build (`VirtualDir`) and a sheet (`CueSheet`) end, and their
configurations say so. `SYMMETRY` is used only in runs without liveness properties.

## Fairness

* `TrackCache`: goroutines that can run do (`Wake`, `Stat`, `RunCut`, and the two halves of
  `Close`), timers that are armed fire and their callbacks run. `CutReturn` is fair:
  `NewFFmpeg` sets a positive timeout, `main.go` leaves it, and `EveryCutReturns` of
  `FFmpegCutter` shows that a call with a timeout returns. Nobody has to acquire,
  release, cancel or close; `IdleSliceReclaimed` is about slices that are not in use.
* `FFmpegCutter`: the goroutine of `Cut` runs, the timeout elapses, and a killed
  process exits. ffmpeg itself need not finish.
* `AlbumCache`: a lookup runs on, and so does a build. Nobody has to call or to
  change the directory.
* `VfsHandles`: threads that are not blocked run on, and a `Destroy` that has begun goes on.
  Cuts need not end: this is what makes `DestroyUnblocks` a property.

## Proofs

Proved for any number of callers, keys, entries, paths, threads, handles, files, sheets,
tracks, commands, characters and changes. All safety properties of the passing runs are proved,
and the two refinements. Each module proves an inductive invariant (`Invariance`,
`CutterInvariance`, `AlbumInvariance`), type correctness (`TypeCorrect`), and from it:

* `TrackCacheProofs`: `CountersExact`, `HeldSliceSafe`, `CutsExclusive`, `NothingLeaks`,
  `IdleSlicesExpire`, `AbandonedCutsStop`. None of these properties is inductive. `IInv` adds
  where a caller may point (`CallersPlaced`), that used and running entries are in
  the map while it is open (`MapSound`, `UsedIsMapped`), that the two counters count
  waiters and holders (`WaitersCounted`, `HoldersCounted`), that the file at a path
  is that of the mapped entry (`FileMatchesCut`), and that timers belong to
  finished slices without references (`TimersOnlyOnIdle`). The last is the key: it is why
  a callback, however late, cannot take a file in use; it needs the condition
  `TTLCoversWakeup` for the interval between `close(done)` and the waiter's lock, which is
  therefore a hypothesis of the theorems on `TrackCache` (without it TLC finds `HeldSliceIntact`
  violated, checked by hand). The lemmas on `StopTimer`, `Joined`, `Woken`, `WaiterLeft`
  and so on say what each critical section does to the counters; each action then has one lemma.
* `TrackCacheRefinement`: `ManagerKeepsPromise`, the initial states and each step of
  `TrackCache` map to those of `SliceCache` or to a stutter.
* `FFmpegCutterProofs`: `SlotsExact`, `CancelledIsClean`, `ArtworkTolerated` from an
  invariant that says what a call has done to its output at each point
  (`OutputMatchesCall`), and `FFmpegIsACutter`, the refinement of `Cutter`. For `ArtworkTolerated`
  it adds that the second try is without the artwork, and that a process of a track in `Sound`
  has failed only with its artwork or a context that is done.
* `AlbumCacheProofs`: `CacheLabelHonest` and `AnswersFresh`. The invariant adds that
  nobody has seen the future, that a flight has exactly one caller that has not
  joined, its leader, and that what it has read is no older than the leader's mtime.
* `VfsHandlesProofs`: `ClaimsAreOwned`, `FilesAreWhole`, `NoTrackAfterSweep`, `FilesAreClosed`,
  `SizesAreHonest`.
  `IInv` ties where a thread or a handle is to the status of its claim: what each has at each
  point (`ThreadsPlaced`, `HandlesPlaced`), that handle numbers and claims are not used twice
  (`NumbersLeft`, `ClaimsUnique`, `FreeClaims`, `UsedClaims`), and that a claim that somebody
  carries keeps its slice in the cache (`HeldIsReady`, `OpeningHolds`, `HandlesHold`). The last
  and `OpenFilesLive` (what is in `openFiles` was not closed) are why a `Getattr` that loses
  its handle to a `Release` still finds the slice if another handle has it. `SeenIsCurrent` is what
  `GetExisting` needs: if a handle that was open at the lookup is still open, the entry that was
  found is the one in the cache.
* `VirtualDirProofs`: `SourcesOnce`, `EntriesSurvive`, `FaithfulListing`, `OnePathEach` and
  `CompleteAreUsed`. `IInv` follows the loops: the files found so far differ from each other
  and from the claimed ones (`LoopPlaced`, `AlbumsPlaced`); the names given so far differ from each
  other and from those they are put beside, and stand for the first tracks (`NamesPlaced`).
  `FreeName` shows that a suffix is always found: of n + 1 suffixed names, n
  taken ones cannot be all. `CompleteAreUsed` rests on two parts of it: a file that a
  sheet was given and does not declare was a fallback, because the declared one is tried
  first (`FallbackPlaced`); and a complete sheet that was read has its album, or was robbed of a
  file by one that fell back (`CompletePlaced`, `Robbed`). No other hypothesis is made about the
  other sheets: they may lack files, declare none, or the same ones as each other. `FaithfulListing` and `OnePathEach` have the
  hypothesis `Compound = {}`; `dir_disc_of_set` shows that they fail without it.
* `CueTextProofs`: `TextArrives`, a text of any length comes out of the split and the decoder as
  it was written, in every encoding and in each style that can carry it. The prover has no
  induction schema with an operator as parameter; `Induction` is stated on a set instead and
  follows from the least number principle, and so does `Recursion`, which shows that the
  functions defined by recursion exist. The rest goes character by character: `CharWritten`
  says that the split adds the bytes of the next one to the parameter, for characters of one or
  two bytes with or without a backslash before them; `QuotedLine` and `BareLine` go on to whole
  lines, the latter word by word; `DecodedText` says that decoding undoes the code, whether the
  detection finds the encoding in the sample or has nothing to find.
* `CueSheetProofs`: `TypeOK`, `EveryFrameInItsTrack`, `EstimateCoversCut`, `CapOnlyLowers` and
  `TextsSurvive`. What the parser has built says nothing of the commands it came from, so
  `IInv` relates the two by the counts: the files and tracks so far are those counted
  (`TracksPlaced`), so a command finds the track that is counted for it (`PointedTrack`); its times are
  those of the indices counted into it (`TimesPlaced`); ends follow from starts and pre-gaps
  (`EndsPlaced`). `TextsPlaced` says the same of the texts: each is the last that the commands
  so far gave (`WroteUpTo`), and the encoding is the one that all texts show; `NumbersPlaced` says it
  of the numbers. The hypotheses:
  * `PregapsAtStart` for frames, no PREGAP but in the first track of a file: `cue_pregap`
    shows that it is needed;
  * `KanaElsewhere` for texts, no double-byte character with a backslash in it:
    `cue_double_byte` shows that it is needed.

  `EstimateCovers` and `CapsLower` have none: what they leave out is said by the properties.

Assumptions on constants are the `ASSUME`s of the modules, which TLC evaluates in the runs.

Only model-checked: liveness (`EveryAcquireReturns`, `IdleSliceReclaimed`, `ClosedCleansUp`,
`EveryCutReturns`, `EveryLookupReturns`, `StalenessEnds`, `DestroyUnblocks`), which
the prover does not support under fairness.

## Findings

* `cache_get_existing`: `GetExisting` stats the path after unlocking (manager.go:101).
* `cache_close`: `Close` removes the temporary directory without waiting for the cuts it has
  cancelled (manager.go:288), against "removes all temporary files" (manager.go:267): a cut that
  creates its file behind the removal keeps the directory, and the file too if ffmpeg still
  ends well. fs.go:544 drops the error. `ClosedCleansUp` is what does hold: of a cut that
  failed or was stopped nothing stays.
* `dir_disc_of_set`: `REM DISCNUMBER 1/2` becomes a directory name with a slash (name.go:17).
* `cue_pregap`: `PREGAP` is a length but is stored as an offset (parser.go:189).
* `dir_forms`: the audio search finds a file with the fallback for Unicode forms and `os.Stat`
  then looks for it without (build.go:111); `cue.ParseFile` (build.go:62) and the probe have
  none either, so below a directory whose name is in NFD no sheet is read at all.
* `cue_double_byte`: the tokenizer takes the second byte of a Shift-JIS, GBK or Big5 character for a
  backslash (tokenizer.go:85), and with it the closing quote or a letter (tokenizer.go:95).

Behaviour that differs from what the repository says, in cases that a passing run has and
whose property names as its exception:

* a sheet that declares `disc1/album.flac` hides the base name (build.go:279), so that an
  unrelated `album.flac` beside it, or a track of that name, cannot be found, whereas "unrelated files"
  are a "byte-exact pass-through" (README.md:116). The exception is `HiddenByNamesake`;
* a file of 20 bits, told as `s32`, under a cap of 24 comes out with 24 bits, whereas "a cap is strictly an
  upper bound" that must "prevent accidental upsampling" (quality.go:106) and "tracks at or below the
  cap keep the source format" (README.md:40). The exception in `CapOnlyLowers` is `Overstated`;
* an error of the listing for the names is dropped (build.go:283): tracks are named as if nothing were
  in the directory, artwork is missing, and this stays in the cache until the directory changes, whereas "Name
  collisions are resolved with deterministic suffixes, never silently" (README.md:23).
  `StalenessEnds` allows it, and the properties of `VirtualDir` on names ask for a listing that worked (`Named`);
* a sheet whose own audio is missing takes the only unclaimed file (resolve.go:74), even if a later
  sheet declares it: that sheet is then left with another file or none. `CompleteSheetsAreUsed` says
  that this is the only way (`FellBack`).

Behaviour that is not called wrong, because nothing in the repository promises
otherwise: a caller that joins a cancelled cut shares its failure; a late timer
callback can cut the next idle period short; a caller that joins a flight may get
a state slightly older than its own stat; the time a cut waits for a slot counts
towards its timeout; tags that the sheet does not give are those of the album file, a date or a
comment for instance, and the album's songwriter comes before the track's while
its performer comes after (build.go:194, 218). The TTL callback tests `refCount` and not `activeWaiters` (manager.go:241), so a TTL
shorter than the time a woken goroutine takes to run removes a slice that a waiter
is about to get. `Open` of a real file does not look at `v.ctx` under the lock (fs.go:471) as
that of a virtual track does (fs.go:441), so one that runs beside `Destroy` can stay registered.
"Reported sizes are honest after the first slice" (README.md:31) holds while a handle
of the track is open (`HonestSize`); once its slice has expired, `Getattr` is back at the
estimate. So it is for a `Getattr` that began before the handle was there: it may have found an
entry that was still being cut, and if that cut fails it returns the estimate although another
`Open` has cut the track again and registered its handle by then. README.md says that a cut is aborted when all its readers have gone away; the
VFS passes its one context to all `Acquire`s, so this happens on unmounting only, whereas
the cache itself does it (`AbandonedCutIsAborted`).

## Modelling assumptions

* Every change of a directory's entries gives it a new mtime. Files rewritten in
  place, and changes within one tick of the clock, are caveats of the program.
* Keys are distinct for distinct slices and paths are a function of the key, as
  `track.Slice.Key` hashes its fields; collisions are left out.
* `SetMaxConcurrency`, which only the tests call, is called before the first cut:
  it replaces the semaphore without a lock.
* `Acquire`'s first look at its context is left out: a call that it refuses has
  done nothing.
* What a header or ffprobe does tell is true, except that a sample format only bounds
  the depth from above, and the files of one sheet are alike. `EstimateCoversCut` is stated for
  lossless sources whose length is known and whose depth is not overstated.
  Elsewhere the "safe upper bound" of build.go:21 cannot be had from these
  numbers: a FLAC cut of an MP3 is several times its share of the MP3, a 24-bit file
  told to be `s32` is estimated a quarter too low under a cap of 24, and a file
  without a length gives only an average.
* A guess among code pages is right: the letter scores find the encoding in which the texts are
  written. A line has no blanks at its end. The detection sees the six texts of a sheet only; in the code
  names of files and other comments are in its sample as well, and are plain here.
* The padding of numbers in default titles is left out.
* The source root is plain: forms matter below it. The property `OneForm` is a
  precondition where the program promises nothing for mixed forms.
* `Release` is called by a caller that holds a slice, as fs.go does.
* Declared paths lead to the directory of the sheet or below it, none above (`FILE "../x"`).
* `os.Remove` of a slice succeeds; manager.go ignores its error (manager.go:183, 243).
  Creating an output fails only once the temporary directory is gone or as one
  way for a cut to fail.

## Not modelled

* The letter scores of encoding.go and the library (chardet) they compete with: statistics over
  tables, which tests with real sheets exercise. The digits of `parseTime`.
* CATALOG, CDTEXTFILE, ISRC, FLAGS, REM TOTALDISCS and other comments: stored, and used by nothing here.
* The bytes of audio headers, `ParseRate` and `ValidateBits`: conversions of one text or
  block, tested by tables of cases. `Slice.Key`: the caches take keys as given.
* Which embedded picture is chosen; attributes of files and the fields of stat.
* `main.go` and the container: start-up; its order of clean-up is in `VfsHandles`.

## Plan

Done, in this order: `TrackCache` with `SliceCache` and proofs; `FFmpegCutter` with `Cutter`
and proofs; `AlbumCache` and proofs; `VfsHandles`; `VirtualDir`; `CueSheet` with
`SourceAudio`; texts in `CueSheet` with `CueText`; Unicode forms and the order of
claims in `VirtualDir`; proofs for `VfsHandles` and `VirtualDir`; `Getattr` in `VfsHandles`;
proofs for `CueSheet` and `CueText`; declared paths with a directory and failing
listings in `VirtualDir`; all tags in `CueSheet`.

To do, most important first:

1. *Slice keys*: what `Slice.Key` separates: two tracks share a key only if their cuts
   are the same; beside it the parsing of the flags `--max-rate` and `--max-bits`.
2. *Composition* of `TrackCache` with `VfsHandles` for `Close`: which of the late results
   of `Acquire` the handles can meet.
