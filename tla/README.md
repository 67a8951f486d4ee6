# TLA+ verification of mcumgr image management (Zephyr port)

This directory models the device side of mcumgr's image management on Zephyr,
and the Zephyr port of its file-system management. It model-checks the models
with TLC and proves their central invariants with TLAPS.
The source it models is:

- `src/cmd/img_mgmt/port/zephyr/src/zephyr_img_mgmt.c`: the Zephyr port. It
  covers flash checks, slot selection, version comparison, upload inspection,
  image data write and erase, the erase command and the swap type.
- `src/unnamed/part_000`: Zephyr `fs_mgmt` (lines 1-174) and
  `img_mgmt_state.c` (lines 175-530). The latter covers slot flags,
  set-pending, confirm, state read and state write.

## The system and how its parts interact

An image upload is a sequence of request/response exchanges. In each one:

1. `img_mgmt_impl_upload_inspect` decides what the chunk means.
2. The upload handler applies that decision to the singleton
   `g_img_mgmt_state`: area, offset, size and data sha. The handler is
   `img_mgmt.c`, which is not in `src/` and is modelled from `spec.md`.
3. The handler erases the area (`img_mgmt_impl_erase_image_data`) and writes
   through `img_mgmt_impl_write_image_data`. That function keeps a *separate*
   `flash_img` write context, either static or on the heap. The context is a
   stream: it counts the bytes it has taken, buffered or flushed, and takes a
   chunk only at that count (`zephyr_img_mgmt.c:488`). When
   `flash_img_buffered_write` fails in a flush (line 493), the stream has
   already taken the bytes, but the handler does not advance the session.
   The stream is then ahead of the session (the write_fault_desync finding).

File uploads and downloads (`fs_mgmt`) are independent of image management.
The command handlers, which are not in the repository, call
`fs_mgmt_impl_write` once per chunk and `fs_mgmt_impl_read` once per chunk.
`fs_mgmt_impl_write` keeps the file open between chunks, in a static
`fs_file_t` and a heap copy of its path (`previous_path`). It reopens when:

- the chunk is a first chunk (offset 0), which also truncates the file by
  unlinking it;
- or nothing is cached;
- or the path differs from the cached one.

Inspect decides among these paths:

- a first chunk is rejected, resumed by sha, or refused (no slot, or a
  downgrade);
- or it starts an upload, with an erase if `zephyr_img_mgmt_flash_check_empty`
  finds data;
- a continuation is dropped and resynchronised, or written, cut to the flash
  alignment unless it is the final chunk.

Slot selection (`img_mgmt_get_unused_slot_area_id`) excludes slots that
`img_mgmt_state_flags` marks active, confirmed or pending. Those flags derive
from MCUboot's swap type. The state-write command (`img_mgmt_state_write`)
changes the swap type through `img_mgmt_state_set_pending` and
`img_mgmt_state_confirm`. The image-erase command (`img_mgmt_impl_erase_slot`)
erases an unused slot. At reboot MCUboot swaps, reverts or discards per the
swap type, and all RAM state is lost.

## Modules

- `ImgMgmt.tla` is the model. Its state is:
  - `swap_type`: MCUboot's swap type.
  - `flash`: the slots, cell by cell. A cell is erased, holds a byte of some
    image, or is CORRUPT after being programmed over other data without an
    erase (NOR flash).
  - `g_img_mgmt_state` and `ctx`: the handler's session and the port's write
    context.
  - `client`, `sent` and `rsp`: the environment.
  - `sess`: a history variable with the image and area of the upload's first
    chunk.
  - `nfault`, `nstray`, `nboot`: fault, redelivery and reboot counters.

  Actions:
  - `Upload(r)` is the handler applied to one request. It is the disjunction
    of inspect's outcomes (`UploadRejected`, `UploadResumed`, `UploadRefused`,
    `UploadStarted`, `UploadResynced`, `UploadContinued`). Each includes the
    whole handler step: the erase, `WriteChunk` (the write, the context, the
    offset advance and the close) and the reply.
  - `img_mgmt_state_write(hash, confirm)` is the state-write command with
    every return path of set-pending and confirm.
  - `img_mgmt_impl_erase_slot` is the erase command.
  - `Reboot` is a power cycle.
  - The client's `ClientStart`, `ClientSend`, `ClientSendLost` and
    `Redelivered` model a link that loses responses and delivers old or
    malformed requests again.

  Flash and bootloader failures (erase, write, `boot_request_upgrade`,
  `boot_write_img_confirmed`) are nondeterministic faults, bounded by
  `MaxFault`. A failed write of a chunk is one of two things:
  - the `flash_img_init_id` of a first chunk fails, and the stream takes
    nothing;
  - a flush inside `flash_img_buffered_write` fails. The stream has then
    taken some k of the chunk's bytes (at least one for a continuation) and
    programmed j <= k of them. The session's offset does not move, and a
    heap context is not freed even on the last chunk. The operator names follow the C functions, and `PROJECT.json`
  "map" gives the lines each definition translates.
- `MC_ImgMgmt.tla` instantiates the constants for TLC. There are two images:
  - image 1 is the running one, v1.0.0 and 4 units long;
  - image 2 is v1.1.0 and 3 units long.

  With alignment 2 and chunks of 2 or 3:
  - a non-final chunk of 3 is cut to 2;
  - image 2 ends with an unaligned final chunk of 1 or 3;
  - the upgrade-only gate has both a newer and a same-version image.

  Every config uses two slots of 4 units, pages of 1 and a full empty-check
  scan.
- `ImgMgmtProofs.tla` holds the TLAPS proofs of the write context, and
  `FlashProofs.tla`, which extends it, the proof of `FlashNeverCorrupt`.
  `SessionProofs.tla` and `SlotProofs.tla` both extend `FlashProofs`. The
  first proves the refinement `UploadSessionRefined`, the second the
  action property `NoWriteToInUseSlot`.
- `UploadSession.tla` is the abstract upload session of `spec.md`: Idle, or
  Active with an area, a size, a next offset and a fingerprint, and a count
  of the device's restarts. Its actions:
  - `Open`: a first chunk, which may already write k bytes. It is never for
    the fingerprint of the open session, which is resumed instead.
  - `Advance(k)`: k bytes more, never past the size, closing at the size.
  - `Abandon`: a restart, which counts one.

  `ImgMgmt` instantiates it as `Session`. The refinement mapping
  `AbsSession` maps `g_img_mgmt_state` to the abstract session, and a
  closed session (area -1) to Idle whatever offset it kept. The restart
  count maps to `nboot`, so only a reboot may abandon a session. The property
  `UploadSessionRefined == Session!Spec` says that every step of the
  detailed model is a step of the abstract session or leaves it unchanged.
- `FsMgmt.tla` models `part_000` lines 1-174. Its state is:
  - `present` and `content`: the files, as sequences of bytes. A byte is the
    tag of the chunk that wrote it, or ZERO in a hole;
  - `file` and `previous_path`: the two statics of `fs_mgmt_impl_write`;
  - `last`: a history of the last call, its arguments and its result;
  - `nfault`: the failures so far.

  `fs_mgmt_impl_write(p, off, len, t, f)` has one disjunct per path through
  the function: the cached handle is reused; the truncate fails; the open
  fails; `k_malloc` fails (the new file is closed, the created file stays);
  or the chunk is written. `WriteBody` is `fs_seek`, `fs_write` and
  `fs_sync`: the bytes written depend on the failure, and the result is
  `fs_sync`'s alone. `fs_mgmt_impl_read` changes no state. Its result is
  ENOENT, EUNKNOWN (failed seek) or success. After a failed `fs_read` it
  returns success with arbitrary data. Each call takes one failure `f` from
  `FaultKinds`, at most `MaxFault` in a run. The callers may send any path,
  offset and length.
- `MC_FsMgmt.tla` names the fault sets of the runs. `FsMgmtProofs.tla`
  holds the TLAPS proofs about `FsMgmt`.

## Runs

| run | cfg | checks | result |
|---|---|---|---|
| main | `MC_ImgMgmt.cfg` | `FlashNeverCorrupt`, `StreamNotBehind`, `NoWriteToInUseSlot`, `UploadSessionRefined` | pass (about 79k states) |
| intact | `MC_Intact.cfg` | `CompletedUploadIntact` | pass (about 93k states) |
| live | `MC_Live.cfg` | `UploadEnds` under `LiveSpec` | pass (about 21k states) |
| erase_mid_upload | `MC_EraseMidUpload.cfg` | `CompletedUploadIntact` | violated (finding) |
| resume_stall | `MC_ResumeStall.cfg` | `UploadEnds` | violated (finding) |
| short_chunk_stall | `MC_ShortChunkStall.cfg` | `UploadEnds` | violated (finding) |
| overlong | `MC_Overlong.cfg` | `SessionWithinSize` | violated (finding) |
| write_fault_desync | `MC_WriteFaultDesync.cfg` | `WriteCtxInSync` | violated (finding) |
| fs_main | `MC_FsMgmt.cfg` | `CacheCoherent`, `WriteStaysInPath`, `FirstChunkTruncates` | pass (about 11.6k states) |
| fs_stat_remnant | `MC_FsStatRemnant.cfg` | `FirstChunkTruncates` | violated (finding) |
| fs_write_lost | `MC_FsWriteLost.cfg` | `WriteDurable` | violated (finding) |
| fs_read_uninit | `MC_FsReadUninit.cfg` | `ReadReportsFile` | violated (finding) |

The properties:

- `FlashNeverCorrupt`: no cell is programmed over data without an erase. The
  empty check and the page-rounded erase of a first chunk must cover
  everything the upload then writes, across faults, lost responses and
  reboots.
- `StreamNotBehind`: while an upload is open past its first write, the
  write stream is allocated, bound to the session's area and at or past the
  session's offset. A failed flush may leave it ahead. No path may leave it
  behind: then it would take a chunk whose earlier bytes it never took.
- `WriteCtxInSync` (violation run only): the same with the stream exactly at
  the session's offset. This is what resynchronising retried chunks
  (spec.md §4.4) needs, and a failed flush breaks it.
- `NoWriteToInUseSlot` (action property): no step but a reboot changes a slot
  that is active, confirmed or pending.
- `CompletedUploadIntact` (action property): when the handler closes an
  upload, its area holds the whole image of the upload's first chunk.
- `UploadEnds` (liveness): an upload the client starts ends, either completed
  or refused.
- `UploadSessionRefined` (refinement): the handler's session behaves as the
  abstract session. A first chunk opens it; a continuation advances it by
  what was written, never past its size; it closes exactly at its size; a
  first chunk with its fingerprint never reopens it; and nothing but a first
  chunk or a reboot replaces it.
- `SessionWithinSize`: the session's offset never passes its size.
- `CacheCoherent`: `previous_path` is NULL exactly when the static handle is
  closed, and an open handle is open on `previous_path`. Every return path
  of `fs_mgmt_impl_write` must keep the two together.
- `WriteStaysInPath` (action property): a write changes no file but the one
  it names. The cached handle is reused only for its own path (the `strcmp`
  at line 121), across interleaved uploads of two files and failed opens.
- `FirstChunkTruncates` (action property): a first chunk reported written
  leaves its file no longer than the chunk, so no tail of an older file
  remains.
- `WriteDurable` (action property): a write reported successful put its
  bytes at its offset.
- `ReadReportsFile`: a read reported successful returned the file's bytes.

Each passing property has a mutant in `PROJECT.json`. This is a plausible
code bug that TLC shows the property catches:

- a one-unit short erase;
- the stream left at the chunk's offset after a write (`StreamNotBehind`);
- the in-use check dropped;
- the empty check skipped;
- the final chunk cut to the alignment;
- the session left open when its offset reaches its size (refinement);
- the `k_malloc` failure leaving the new file open (`CacheCoherent`);
- the `strcmp` dropped from the reopen test (`WriteStaysInPath`);
- the unlink of the truncate skipped (`FirstChunkTruncates`).

**Bounds.**
- One fault, one redelivery and one reboot are enough. Each finding needs a
  single fault or a single erase command, and the faults of the model are
  independent.
- Four cells and two images of different lengths and versions give:
  - first chunks that are cut to the alignment and ones that are not;
  - remnants of a longer image after a shorter one;
  - downgrade and same-version refusals.
- Each run leaves out what its property does not need, to stay within a
  few minutes:
  - the main run sends only chunks of 3 and has no redelivery;
  - the intact run has no reboot, since a reboot only discards the session;
  - the live run sends only chunks of 3 and has no redelivery or erase
    command.
  Between them every action fires. A chunk of 3 is still cut to 2 when it is
  not the final one, and image 2's single chunk of 3 is final and unaligned.
- The client is done when the offset of a response reaches or passes its
  image's size. A malformed continuation that runs to the area's end can
  move the session's offset past the size (the overlong finding), and the
  client must not then send a negative length. The client's two success
  arms (done, or go on at the answered offset) have exclusive guards, so
  `AfterResponse` is a function of the response and the proofs can split on
  it.
- `FsMgmt` runs use two paths, two tags, files of up to two bytes and one
  failure. That is enough for:
  - a first chunk shorter than the file it overwrites;
  - a continuation of one file after a write to the other;
  - a hole left by a write past the end;
  - each failure on each path.
  The main run leaves out the `fs_stat` failure, which is the
  fs_stat_remnant finding. Three-byte files take about two minutes, too
  slow for the coverage runs.

**Fairness.** `LiveSpec` adds weak fairness on `ClientSend`. A client that
keeps retrying until a response reaches it is the mcumgr client's retry loop.
Nothing on the device is assumed fair: the device only reacts to requests.
`UploadEnds` is checked without flash faults (`MaxFault = 0`). With one fault
it fails, which is the resume_stall finding.

## Findings

1. **The erase command erases an upload in progress** (erase_mid_upload).
   `img_mgmt_impl_erase_slot` selects with
   `img_mgmt_get_unused_slot_area_id(-1)`
   (`zephyr_img_mgmt.c:222`). That function looks only at the swap-type flags,
   not at `g_img_mgmt_state.area_id`. The trace:
   1. The first chunk of image 1 is written to slot 1.
   2. The erase command erases slot 1.
   3. The remaining chunks are accepted, and the upload closes with no header.

   `spec.md` §5 forbids erasing the region of a slot that is mid-upload.
2. **A failed first write blocks resumption** (resume_stall).
   1. The session is recorded before the erase and the first write.
   2. If either fails, the session stays at offset 0.
   3. The resumption shortcut (`zephyr_img_mgmt.c:677`) then answers every
      retry of the same image, with its sha, with offset 0 and no write.

   The client loops until a reboot or an upload of different data.
3. **A chunk shorter than the alignment never advances** (short_chunk_stall).
   A non-final chunk is cut to a multiple of the alignment
   (`zephyr_img_mgmt.c:764`). With an alignment of 4 and chunks of 3, every
   chunk is cut to 0 and answered with success at the same offset.
4. **An overlong continuation passes the size** (overlong). A continuation
   is checked only for its offset (`zephyr_img_mgmt.c:753`), never for
   `off + len <= size`. The overlong chunk is written, `off` passes `size`,
   and the session never closes. spec.md §4.4 says it resets at the size.
5. **A failed file write is reported as success** (fs_write_lost). After a
   failed `fs_seek` or `fs_write`, `rc = fs_sync(&file)` replaces the error
   (`part_000:168`). A short `fs_write` is not checked at all.
6. **A failed file read is reported as success** (fs_read_uninit). A negative
   `fs_read` jumps to `done` with rc still 0 (`part_000:65`). The call returns
   success without setting `*out_len` or the data.
7. **A failed fs_stat skips the truncate** (fs_stat_remnant).
   `zephyr_fs_mgmt_truncate` takes any `fs_mgmt_impl_filelen` error as "no
   file" (`part_000:90`). The first chunk is written over the old file, and
   the old tail remains.
8. **A failed flash write leaves the stream ahead** (write_fault_desync).
   `flash_img_buffered_write` can fail in a flush after it has taken the
   chunk's bytes (`zephyr_img_mgmt.c:493`). The handler answers an error
   and keeps the session's offset. Every retry of the chunk at that offset
   then fails the stream's offset check (line 488), and a client resuming
   by sha is sent back to it again and again. On a last chunk the heap
   context is not freed either. The session is stuck until an upload of
   other data or a reboot. spec.md §4.4 presents retried chunks as handled by
   resynchronisation.

## Proofs

`ImgMgmtProofs.tla` proves `THEOREM StreamNotBehindInvariant == Spec =>
[]StreamNotBehind` for every value of the constants. It uses only
`ConstAssumption` (the constants' types, alignment > 0). `StreamNotBehind`
alone is not inductive. The strengthening `IInv` adds:

- the session and the context are records with their fields, so that the
  `EXCEPT` of a write leaves the other fields alone;
- the session's, the stream's and the response's offsets are integers;
- the client's image is an image and its offset an integer;
- every sent request has integer `off` and `len`.

The integer facts are what make `off + len = size` imply that the final chunk
is written uncut. So the upload closes in the very step that frees a heap
context. They also make a failed flush that took k >= 0 bytes leave the
stream at `off + k >= off`. The facts hold because the client's requests
are built from offsets the device answered with.

The proof is laid out as lemmas:

- `WriteChunkNotBehind`: every outcome of a write, one step each: a chunk
  of length 0, a refused write, a write, a failed write.
- `UploadNotBehind`: every handler path.
- `ClientRequestInt`, `AfterResponseType`, `MalformedInt`: the client's
  requests.
- `IInvInit` and `IInvStep`: the two halves of the induction, one step per
  action of `Next`; `FlashProofs` reuses `IInvStep`.
- `IInvInductive`: the two combined with PTL.

`tlapm ImgMgmtProofs.tla` checks all of its obligations.

`FsMgmtProofs.tla` proves, from `FsAssumption` alone:

- `CacheCoherentInvariant == Spec => []CacheCoherent`;
- `WriteStaysInPathHolds == Spec => WriteStaysInPath`;
- `FirstChunkTruncatesHolds`: if `"stat"` is not in `FaultKinds`, then
  `Spec => FirstChunkTruncates`.

The inductive invariant `IInv` adds to the type invariant:

- `CachedPresent`: a cached path names a file that exists;
- `AbsentEmpty`: a path with no file has empty content.

With these, a reopen that unlinks the file leaves it empty, so the write
that follows makes it exactly as long as the chunk. The lemmas:

- `WriteAtType` and `WriteAtEmptyLen`: `WriteAt`, the seek-and-write, gives
  a sequence of bytes, and on an empty file its length is `off + n`;
- `BytesWrittenRange`: the bytes written are between 0 and `len`;
- `TruncateKeeps`: the truncate changes no other path;
- `WriteCached` and `WriteReopened`: the two paths that write;
- `StepKeeps` and `IInvInductive`: one step per disjunct.

The two action properties follow from `IInv /\ [Next]_vars => [A]_vars`
with PTL. `tlapm FsMgmtProofs.tla` checks its 186 obligations.

`FlashProofs.tla` proves `THEOREM FlashNeverCorruptInvariant`: if `ScanLen
= Cap` and `MaxStray = 0`, then `Spec => []FlashNeverCorrupt`. The two
assumptions are the configuration of the main run, and each has a reason:

- `ScanLen = Cap` is the non-Scorpio build, whose
  `zephyr_img_mgmt_flash_check_empty` reads the whole area
  (`end = fa->fa_size`). With the Scorpio 512-byte scan, an area whose first
  cells are erased is not erased before a write. See "Not modelled" for why
  that case is not reached here.
- `MaxStray = 0` is a link that does not redeliver requests. Inspect never
  checks `off + len <= size` (the overlong finding). So a stray continuation
  can program cells past the session's size, which were never erased.

The argument is that every programmed cell was known to be erased. A first
chunk writes an area that `check_empty` found empty, or that was just
erased up to `RoundUpPage(size) >= size`. A continuation writes inside
`[off, size)` of its session, and only when the stream is at `off`. That
tail stays erased until it is written. A failed flush programs at most
the bytes it took, so the tail past the stream stays erased.
The client keeps the continuation inside the tail: its chunks end at its
image's end, and the session it continues has its image's size. The
inductive invariant `FInv` states this:

- `IInv` from `ImgMgmtProofs`;
- `FlashTypeOK`: the shapes the proof reads, and `nstray = 0`;
- `SessionBounds`: an open session's offset is in `[0, size)`, and a session
  opened with a sha has that image's size;
- `ClientOwnsSession`: a client past its first chunk is strictly inside its
  image, and the session is its image's (`SessionOf`). An open session has
  its image's size. A closed one sits at offset 0 or at the image's end,
  which no continuation of the client matches;
- `TailErased`: with eager erase, `[ctx.off, size)` of an open session past
  its first write is erased. It is stated from the stream's offset: after a
  failed flush, the cells the stream took may have been programmed, and
  the ones after them are still erased. Writes happen only when the stream
  is at the session's offset, since inspect requires `off` to equal the
  session's and the stream requires it to equal its own;
- `FlashNeverCorrupt` itself.

TLC checked `FInv` as an invariant before the proof. It held on the main
configuration, on a static context, on chunk lengths {1, 3}, on lazy erase
with 2-cell pages, and on 3-cell pages with alignment 1.

The lemmas:

- `ImgFacts`, `RcFacts`, `CapFacts`: facts about the constants. Each is
  stated on its own so that a step's context stays small.
- `ProgrammedClean`, `ImageDataErasedClean`, `AreaErasedClean`,
  `SwappedClean`, `RoundUpCovers`: what the flash operators change.
- `FirstChunkFlash`: an honest first chunk, through every handler path.
- `NextChunkFlash`: a continuation inside its image.
- `AfterResponseFields`: what the client keeps, and when it goes on.
- `FInvInit`, `FInvStep`: the induction. Redelivery is impossible when
  `MaxStray = 0`. The erase command and a reboot only erase, swap or close
  the session.

`SessionProofs.tla` proves `THEOREM UploadSessionRefinement`: under the
same two assumptions, `Spec => UploadSessionRefined`. So the handler's
session, mapped by `AbsSession` with `nboot` as the restart count, behaves
as the abstract session of `UploadSession`. That spec has guards to break:

- a first chunk carrying the open session's fingerprint must not reopen it
  (inspect's `Resumes` test);
- only a reboot may abandon a session;
- an advance must stay within the size and close exactly at it.

`MaxStray = 0` is needed here as well. A redelivered overlong continuation
carries the session past its size (the overlong finding), which no
abstract step allows. The theorem covers the honest link, and the overlong
run shows what happens without it. The proof is the usual one. `Init` maps to the abstract
`Init`. Every step that keeps `FInv` maps to an abstract step or a stutter
(`SessionStep`). `FInv` is needed because a continuation stays inside its
session only when the client continues its own session and stops at its
image's end. The lemmas:

- `OpenMaps`: a session record a first chunk writes (area, size,
  fingerprint other than the open session's, k bytes written, closed if k
  is the size) is an abstract `Open`.
- `AdvanceMaps`: `Advanced` by k bytes within the size is an abstract
  `Advance`, or a `Close` when the offset reaches the size.
- `FirstChunkSession` and `NextChunkSession`: every handler path of an
  honest first chunk, and of a continuation inside its image.
- `SessionStep`: one case per action. A reboot maps to `Abandon` and counts
  a restart. A state write and the erase command leave both the session
  and the count alone.

`SlotProofs.tla` proves `THEOREM NoWriteToInUseSlotHolds`: if `ScanLen =
Cap`, `MaxStray = 0` and `~LazyErase`, then `Spec => NoWriteToInUseSlot`.
The third assumption is the eager-erase build of the main run. The
argument:

- A first chunk and the erase command write only the slot that
  `img_mgmt_get_unused_slot_area_id` found unused.
- A continuation writes only its session's area.
- That area stays unused while the session is open past its first write
  and its stream is at its offset. It is never slot 0, which is always
  active or confirmed. If it is slot 1, no swap is scheduled.
- A failed flush of the last chunk can leave the whole image in slot 1
  while the session stays open with the stream ahead. Slot 1 may then be
  made pending. But such a session takes no further chunk: inspect requires
  the session's offset, and the stream its own. That state lasts until a
  new first chunk or a reboot.
- Slot 1 becomes pending only through `img_mgmt_state_set_pending`. That
  needs `img_mgmt_find_by_hash` to read a whole image in slot 1.
- An open session's area whose stream is at its offset cannot be read
  whole. Its head is erased, or holds an image of the session's size. The
  cell at the session's offset, inside that size, is erased (`TailErased`).

The inductive invariant `SInv` adds to `FInv`:

- `SwapOK`: the swap type is one MCUboot reports;
- `BootOK`: the reboot counter is a number, so a reboot is told apart;
- `NotOnSlot0`: no session is ever open on slot 0;
- `PendingApart`: a session on slot 1 past its first write, with its stream
  at its offset, means no swap is scheduled;
- `HeadSized`: the head of an open session's area is erased or an image of
  the session's size.

TLC checked `SInv` as an invariant before the proof. After the failed
flush was modelled, it was checked again on the main configuration and on
a static context with chunk lengths {1, 3} and two faults. Before that, it
held on:

- the main configuration;
- chunk lengths {1, 3};
- a static context;
- three slots;
- 3-cell pages with alignment 1.

The lemmas:

- `SlotUse`, `SelectedUnused`: slot use by swap type, and what the slot
  selection returns;
- `NotReadable`, `StateWriteKeepsNone`, `StateWriteSwap`: the state write;
- `WriteChunkFootprint`, `FirstChunkFootprint`, `NextChunkFootprint`: which
  slots and which head cell an upload can change;
- `ClientUploadSlots`, `EraseSlots`: the two writers;
- `SInvInit`, `SInvStep`: the induction;
- `InUseSlotKeptStep`: `SInv /\ [Next]_vars => [InUseSlotKept]_vars`, whose
  body is that of `NoWriteToInUseSlot`.

With lazy erase, the handler erases each page only before its first
write. So an open session's tail is not known to be erased (`TailErased`
is stated for eager erase). `NotReadable` then has no ground, and the
proof does not cover that build. A lazy-erase configuration (2-cell pages)
showed no violation of `NoWriteToInUseSlot` under TLC while this proof was
developed. No run of the project checks that configuration yet (Plan,
item 3).

Left to TLC:

- the liveness property `UploadEnds`: fairness and ENABLED are out of the
  prover's reach;
- `FlashNeverCorrupt` and `UploadSessionRefined` with redelivery or the
  Scorpio scan, and `NoWriteToInUseSlot` with lazy erase: these are outside
  the theorems' assumptions;
- `CompletedUploadIntact`, for now.

## Not modelled

- The `CONFIG_BOARD_SCORPIO` branches: the flags read from the trailers, the
  reclamation in the erase command and the trailer helpers.
- The unknown-swap-type default.
- `img_mgmt_state_read` and `img_mgmt_impl_read`, which only encode or read.
- The `fs_mgmt` command handlers, which are not in the repository. The
  unlink of an open file that the truncate's comment warns of cannot happen
  here: the cached file is closed before the truncate.
- The Scorpio 512-byte empty check (`ScanLen < Cap`). It would need a slot
  with its first cells erased and data after them. That needs an erase cut
  short by a power loss, or an upload abandoned after its erase. Neither
  happens in the model: its erase is atomic, and its client never abandons.
- The DIRECT_XIP address check, which is not configured.
- A failed `k_malloc` of the heap context is only a generic write fault.
- What `img_mgmt_impl_log_confirm` returns. `img_mgmt_state_confirm` returns
  its result instead of `rc` (`part_000:380`), and the function is not in
  the repository. The model lets it return `rc` or 0. Where it returns 0, a
  confirm refused because a test is pending answers success, against
  spec.md's "confirm() fails ... whenever either slot reports Pending". No
  run checks this, because the outcome is decided by code that is not here.

## Plan

1. Prove `Spec => []TypeOK` for `ImgMgmt`. This needs an invariant tying the
   client's offset to the size of its image.
2. Prove `CompletedUploadIntact`. It needs `FInv` to carry the cells an
   upload has written, `[0, off)` of its area.
3. Add runs for lazy erase, and for an interrupted erase at a reboot (the
   Scorpio scan).
