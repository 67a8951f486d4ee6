------------------------------ MODULE ImgMgmt ------------------------------
(***************************************************************************)
(* Device side of mcumgr image management on Zephyr.                       *)
(*                                                                         *)
(*  - the slot state flags derived from the MCUboot swap type and the      *)
(*    image-state write handler (set pending, confirm): img_mgmt_state.c;  *)
(*  - the chunked image upload: img_mgmt_impl_upload_inspect decides, the  *)
(*    upload handler applies the decision to g_img_mgmt_state and writes   *)
(*    through img_mgmt_impl_write_image_data: zephyr_img_mgmt.c;           *)
(*  - the image-erase command, img_mgmt_impl_erase_slot;                   *)
(*  - the environment: an honest client that uploads one image at a time   *)
(*    over a link that loses responses and redelivers old requests, and    *)
(*    reboots, after which MCUboot performs the swap the trailers request. *)
(*                                                                         *)
(* Data is abstracted to what the properties tell apart: an image area is  *)
(* a function from offsets (in write units) to cells, a cell is erased,    *)
(* holds the byte of some image at that offset, or is corrupt (programmed  *)
(* twice without an erase in between).  An image is identified by its      *)
(* content hash, so the "sha" of a request is an image or absent.          *)
(***************************************************************************)
EXTENDS Integers, FiniteSets

CONSTANTS
  NSlots,     \* slots with a flash-area label image_0 .. image_<NSlots-1>
  Cap,        \* capacity of an image area, in write units
  Align,      \* flash_area_align() of the image areas
  Page,       \* erase-page size of the flash device
  HdrLen,     \* sizeof(struct image_header): the shortest first chunk
  Imgs,       \* the images a client may upload (identified by their hash)
  ImgSize,    \* ImgSize[i]: the length of image i
  ImgVer,     \* ImgVer[i]: <<major, minor, revision, build>> of image i
  Running,    \* the image in the primary slot at power-on
  ChunkLens,  \* the chunk lengths the client sends
  HeapCtx,    \* CONFIG_HEAP_MEM_POOL_SIZE > 0: the write context is on the heap
  LazyErase,  \* IMG_MGMT_LAZY_ERASE: the write stream erases as it goes
  ScanLen,    \* how much of an area zephyr_img_mgmt_flash_check_empty reads
  EraseCmd,   \* whether the client issues the image-erase command
  MaxFault,   \* bound on flash / bootloader operations that fail
  MaxStray,   \* bound on redelivered (duplicated, delayed) requests
  MaxBoot     \* bound on reboots

Slots == 0 .. NSlots - 1
Offs  == 0 .. Cap - 1

ERASED  == 0      \* a cell in the erased state
CORRUPT == -1     \* a cell programmed over different data without an erase
NOAREA  == -1     \* area id -1: no area / no upload in progress
NOSHA   == 0      \* request without a "sha" field
LONGSHA == -1     \* a "sha" longer than IMG_MGMT_DATA_SHA_LEN
NONE    == -1     \* an absent "off" or "len" field

ASSUME ConstAssumption ==
  /\ NSlots \in 2 .. 4
  /\ Cap \in Nat \ {0}
  /\ Align \in Nat \ {0}
  /\ Page \in Nat \ {0}
  /\ HdrLen \in Nat \ {0}
  /\ Imgs \subseteq Nat \ {0}
  /\ ImgSize \in [Imgs -> 1 .. Cap]
  /\ ImgVer \in [Imgs -> [iv_major : Nat, iv_minor : Nat,
                           iv_revision : Nat, iv_build_num : Nat]]
  /\ Running \in Imgs
  /\ ChunkLens \subseteq Nat \ {0}
  /\ HeapCtx \in BOOLEAN /\ LazyErase \in BOOLEAN /\ EraseCmd \in BOOLEAN
  /\ ScanLen \in 1 .. Cap
  /\ MaxFault \in Nat /\ MaxStray \in Nat /\ MaxBoot \in Nat

(* Error codes of mgmt.h that the handlers return. *)
EOK == 0
ENOMEM == 2
EINVAL == 3
EUNKNOWN == 1
EBADSTATE == 6

SwapTypes == {"NONE", "TEST", "PERM", "REVERT"}
IMG_MGMT_BOOT_CURR_SLOT == 0

VARIABLES
  swap_type,        \* what mcuboot_swap_type() reports for the next boot
  flash,            \* flash[s][o]: cell o of the area of slot s
  g_img_mgmt_state, \* the upload in progress: area_id, off, size, data_sha
  ctx,              \* the flash_img_context of img_mgmt_impl_write_image_data
  sess,             \* history: image and area of the upload's first chunk
  client,           \* the honest client's upload
  sent,             \* requests of the client's current upload, redeliverable
  rsp,              \* the last response: return code and "off"
  nfault, nstray, nboot

vars == <<swap_type, flash, g_img_mgmt_state, ctx, sess, client, sent,
          rsp, nfault, nstray, nboot>>

-----------------------------------------------------------------------------
(***************************************************************************)
(* Slot state (img_mgmt_state.c).  IMG_MGMT_BOOT_CURR_SLOT is slot 0.       *)
(***************************************************************************)

(* img_mgmt_state_flags for swap type t: the non-Scorpio branch. *)
StateFlags(t, s) ==
  CASE t = "NONE"   -> IF s = IMG_MGMT_BOOT_CURR_SLOT
                       THEN {"CONFIRMED", "ACTIVE"} ELSE {}
    [] t = "TEST"   -> IF s = IMG_MGMT_BOOT_CURR_SLOT
                       THEN {"CONFIRMED"} ELSE {"PENDING"}
    [] t = "PERM"   -> IF s = IMG_MGMT_BOOT_CURR_SLOT
                       THEN {"CONFIRMED"} ELSE {"PENDING", "PERMANENT"}
    [] t = "REVERT" -> IF s = IMG_MGMT_BOOT_CURR_SLOT
                       THEN {"ACTIVE"} ELSE {"CONFIRMED"}

img_mgmt_state_flags(s) == StateFlags(swap_type, s)

img_mgmt_state_any_pending ==
  "PENDING" \in img_mgmt_state_flags(0) \cup img_mgmt_state_flags(1)

img_mgmt_slot_in_use(s) ==
  img_mgmt_state_flags(s) \cap {"ACTIVE", "CONFIRMED", "PENDING"} # {}

-----------------------------------------------------------------------------
(***************************************************************************)
(* Slot selection and version comparison (zephyr_img_mgmt.c).  The area id *)
(* of slot s is s itself: an opaque handle, equal to nothing but itself.   *)
(***************************************************************************)

zephyr_img_mgmt_flash_area_id(slot) == IF slot \in Slots THEN slot ELSE NOAREA

(* Mutant: a slot asked for directly is taken even if it is in use. *)
GetSlotUnchecked(slot) ==
  CASE slot < -1  -> NOAREA
    [] slot = -1  -> IF ~img_mgmt_slot_in_use(0)
                     THEN zephyr_img_mgmt_flash_area_id(0)
                     ELSE IF ~img_mgmt_slot_in_use(1)
                          THEN zephyr_img_mgmt_flash_area_id(1)
                          ELSE NOAREA
    [] OTHER      -> zephyr_img_mgmt_flash_area_id(slot)

(* Auto-selection (slot = -1) scans slots 0 and 1 only; a direct request   *)
(* for slot 0 or 1 needs it unused, any other labelled slot is accepted.   *)
img_mgmt_get_unused_slot_area_id(slot) ==
  CASE slot < -1  -> NOAREA
    [] slot = -1  -> IF ~img_mgmt_slot_in_use(0)
                     THEN zephyr_img_mgmt_flash_area_id(0)
                     ELSE IF ~img_mgmt_slot_in_use(1)
                          THEN zephyr_img_mgmt_flash_area_id(1)
                          ELSE NOAREA
    [] slot \in 0 .. 1 -> IF img_mgmt_slot_in_use(slot) THEN NOAREA
                          ELSE zephyr_img_mgmt_flash_area_id(slot)
    [] OTHER      -> zephyr_img_mgmt_flash_area_id(slot)

(* Three-way comparison on major, minor, revision; the build is ignored.   *)
img_mgmt_vercmp(a, b) ==
  IF a.iv_major # b.iv_major
  THEN IF a.iv_major < b.iv_major THEN -1 ELSE 1
  ELSE IF a.iv_minor # b.iv_minor
       THEN IF a.iv_minor < b.iv_minor THEN -1 ELSE 1
       ELSE IF a.iv_revision # b.iv_revision
            THEN IF a.iv_revision < b.iv_revision THEN -1 ELSE 1
            ELSE 0

-----------------------------------------------------------------------------
(***************************************************************************)
(* Flash contents.                                                         *)
(***************************************************************************)

Cells == {ERASED, CORRUPT} \cup Imgs

(* Mutant: the scan is skipped and the area reported empty. *)
FlashCheckEmptyUnread(a) == TRUE

(* zephyr_img_mgmt_flash_check_empty: the first ScanLen units are erased.  *)
zephyr_img_mgmt_flash_check_empty(a) == \A o \in 0 .. ScanLen - 1 : flash[a][o] = ERASED

(* The image whose header is at offset 0 of slot s, if the whole image is  *)
(* there (img_mgmt_read_info succeeds; MCUboot validates it).               *)
Readable(f, s) ==
  /\ f[s][0] \in Imgs
  /\ \A o \in 0 .. ImgSize[f[s][0]] - 1 : f[s][o] = f[s][0]

(* img_mgmt_find_by_hash: the first of slots 0, 1 holding image h, or -1.  *)
img_mgmt_find_by_hash(h) ==
  IF Readable(flash, 0) /\ flash[0][0] = h THEN 0
  ELSE IF Readable(flash, 1) /\ flash[1][0] = h THEN 1
  ELSE -1

(* Programming a cell: on NOR flash a cell can only be programmed from the *)
(* erased state (or to the value it holds); the lazy-erase stream erases   *)
(* each page before its first write.                                       *)
Program(c, i) == IF LazyErase \/ c \in {ERASED, i} THEN i ELSE CORRUPT

Programmed(f, a, from, n, i) ==
  [f EXCEPT ![a] = [o \in Offs |-> IF o \in from .. from + n - 1
                                   THEN Program(f[a][o], i) ELSE f[a][o]]]

(* img_mgmt_impl_erase_image_data(0, n): erase the pages that cover [0, n). *)
RoundUpPage(n) == ((n + Page - 1) \div Page) * Page

(* Mutant: the erase stops one unit short of the page that holds n - 1. *)
ImageDataErasedShort(f, a, n) ==
  [f EXCEPT ![a] = [o \in Offs |-> IF o < RoundUpPage(n) - 1 THEN ERASED ELSE f[a][o]]]

ImageDataErased(f, a, n) ==
  [f EXCEPT ![a] = [o \in Offs |-> IF o < RoundUpPage(n) THEN ERASED ELSE f[a][o]]]

AreaErased(f, a) == [f EXCEPT ![a] = [o \in Offs |-> ERASED]]

Fault == nfault < MaxFault /\ nfault' = nfault + 1

-----------------------------------------------------------------------------
(***************************************************************************)
(* Image upload.  A request r has the fields of img_mgmt_upload_req:       *)
(* off and size (NONE when absent), len (data_len), img (whose bytes the   *)
(* data are), sha, image (the target image field, 0 = any slot), upgrade,  *)
(* and magic (the header's ih_magic is IMAGE_MAGIC).                       *)
(* img_mgmt_impl_upload_inspect is the set of guards below; the upload     *)
(* handler that executes its decision is the body of each action.         *)
(***************************************************************************)

(* The early returns of inspect for a first chunk that is malformed. *)
MalformedFirst(r) ==
  \/ r.len < HdrLen
  \/ r.size = NONE
  \/ ~r.magic
  \/ r.sha = LONGSHA

(* The resumption shortcut: an upload with the same data hash is open. *)
Resumes(r) ==
  /\ r.sha \in Imgs
  /\ g_img_mgmt_state.area_id # NOAREA
  /\ g_img_mgmt_state.data_sha = r.sha

SelectedArea(r) == img_mgmt_get_unused_slot_area_id(r.image - 1)

(* img_mgmt_my_version: the version in the header of the running image. *)
MyVersionOk == Readable(flash, IMG_MGMT_BOOT_CURR_SLOT)
Downgrade(r) ==
  img_mgmt_vercmp(ImgVer[flash[IMG_MGMT_BOOT_CURR_SLOT][0]], ImgVer[r.img]) >= 0

(* Mutant: the final chunk is cut to the alignment as well. *)
WriteBytesAlwaysAligned(r, size) == r.len - (r.len % Align)

(* The length written: all but the final chunk are cut to the alignment.  *)
WriteBytes(r, size) ==
  IF r.off + r.len < size THEN r.len - (r.len % Align) ELSE r.len

Reply(rc, st) == rsp' = [rc |-> rc, off |-> IF rc = EOK THEN st.off ELSE NONE]

(* A first chunk that inspect lets through, before any fault. *)
StartsUpload(r) ==
  /\ r.off = 0
  /\ ~MalformedFirst(r)
  /\ ~Resumes(r)
  /\ SelectedArea(r) # NOAREA
  /\ r.upgrade => MyVersionOk /\ ~Downgrade(r)

(* Mutant: the stream's count leaves out the bytes still buffered        *)
(* (bytes_written without buf_bytes), as if nothing of the chunk had been *)
(* flushed yet.                                                           *)
CtxAfterWriteUnflushed(c, r, wb, last) ==
  IF HeapCtx /\ last THEN [alloc |-> FALSE, area |-> NOAREA, off |-> 0]
  ELSE [c EXCEPT !.off = r.off]

(* Mutant: the stream is advanced by the request's data_len. *)
CtxAfterWriteByLen(c, r, wb, last) ==
  IF HeapCtx /\ last THEN [alloc |-> FALSE, area |-> NOAREA, off |-> 0]
  ELSE [c EXCEPT !.off = r.off + r.len]

(* The write context after wb bytes written at r.off: the stream has     *)
(* taken them, and a heap context is freed after the last chunk.         *)
CtxAfterWrite(c, r, wb, last) ==
  IF HeapCtx /\ last THEN [alloc |-> FALSE, area |-> NOAREA, off |-> 0]
  ELSE [c EXCEPT !.off = r.off + wb]

(* Mutant: the session is advanced but never closed at its size. *)
AdvancedNoClose(st, wb) == [st EXCEPT !.off = st.off + wb]

(* The handler after a write of wb bytes: off advances, and the upload is *)
(* closed (area_id -1) when off reaches size.                            *)
Advanced(st, wb) ==
  [st EXCEPT !.off = st.off + wb,
             !.area_id = IF st.off + wb = st.size THEN NOAREA ELSE st.area_id]

(***************************************************************************)
(* The write of a chunk by the handler, from upload state st and flash f:  *)
(* img_mgmt_impl_write_image_data(r.off, data, wb, last), then advancing   *)
(* off and closing the upload when it reaches size.  A fault is the       *)
(* failure of flash_img_init_id (first chunk; the stream is reset, k = 0)  *)
(* or of flash_img_buffered_write, which fails in a flush after it has    *)
(* taken k > 0 of the wb bytes into the stream's count and programmed j   *)
(* <= k of them; off is not advanced and a heap context is not freed.     *)
(***************************************************************************)
WriteChunk(st, f, r, wb) ==
  LET last == st.off + r.len = st.size
      c1   == IF r.off = 0
              THEN [alloc |-> TRUE, area |-> st.area_id, off |-> 0]
              ELSE ctx
      ok   == /\ r.off # 0 => ctx.alloc
              /\ r.off = 0 => st.area_id # NOAREA
              /\ r.off = c1.off
              /\ r.off + wb <= Cap
      done == Advanced(st, wb)
  IN \/ /\ r.len = 0
        /\ flash' = f /\ g_img_mgmt_state' = st
        /\ UNCHANGED <<ctx, nfault>>
        /\ Reply(EOK, st)
     \/ /\ r.len # 0 /\ ok
        /\ flash' = Programmed(f, c1.area, r.off, wb, r.img)
        /\ ctx' = CtxAfterWrite(c1, r, wb, last)
        /\ g_img_mgmt_state' = done
        /\ UNCHANGED nfault
        /\ Reply(EOK, done)
     \/ /\ r.len # 0 /\ ~ok
        /\ flash' = f /\ g_img_mgmt_state' = st
        /\ ctx' = IF r.off = 0 /\ st.area_id # NOAREA THEN c1 ELSE ctx
        /\ UNCHANGED nfault
        /\ Reply(EUNKNOWN, st)
     \/ /\ r.len # 0 /\ ok /\ Fault
        /\ g_img_mgmt_state' = st
        /\ \E k \in 0 .. wb, j \in 0 .. wb :
             /\ r.off # 0 => k # 0
             /\ j <= k
             /\ flash' = Programmed(f, c1.area, r.off, j, r.img)
             /\ ctx' = [c1 EXCEPT !.off = r.off + k]
        /\ Reply(EUNKNOWN, st)

(* A rejected first chunk or request without "off": nothing changes. *)
UploadRejected(r) ==
  /\ \/ r.off = NONE
     \/ r.off = 0 /\ MalformedFirst(r)
  /\ Reply(EINVAL, g_img_mgmt_state)
  /\ UNCHANGED <<flash, g_img_mgmt_state, ctx, sess, nfault>>

(* Same data hash as the open upload: answer with its offset. *)
UploadResumed(r) ==
  /\ r.off = 0 /\ ~MalformedFirst(r) /\ Resumes(r)
  /\ Reply(EOK, g_img_mgmt_state)
  /\ UNCHANGED <<flash, g_img_mgmt_state, ctx, sess, nfault>>

(* No slot, a downgrade, the running version or the slot unreadable. *)
UploadRefused(r) ==
  /\ r.off = 0 /\ ~MalformedFirst(r) /\ ~Resumes(r)
  /\ \/ /\ SelectedArea(r) = NOAREA
        /\ Reply(ENOMEM, g_img_mgmt_state)
        /\ UNCHANGED nfault
     \/ /\ SelectedArea(r) # NOAREA /\ r.upgrade /\ ~MyVersionOk
        /\ Reply(EUNKNOWN, g_img_mgmt_state)
        /\ UNCHANGED nfault
     \/ /\ SelectedArea(r) # NOAREA /\ r.upgrade /\ MyVersionOk
        /\ Downgrade(r)
        /\ Reply(EBADSTATE, g_img_mgmt_state)
        /\ UNCHANGED nfault
     \/ /\ StartsUpload(r) /\ ~LazyErase
        /\ Fault
        /\ Reply(EUNKNOWN, g_img_mgmt_state)
  /\ UNCHANGED <<flash, g_img_mgmt_state, ctx, sess>>

(* A new upload: record it, erase the area unless it is empty, write. *)
UploadStarted(r) ==
  LET a  == SelectedArea(r)
      st == [area_id |-> a, off |-> 0, size |-> r.size,
             data_sha |-> IF r.sha \in Imgs THEN r.sha ELSE NOSHA]
      erase == ~LazyErase /\ ~zephyr_img_mgmt_flash_check_empty(a)
  IN /\ StartsUpload(r)
     /\ sess' = [img |-> r.img, area |-> a]
     /\ \/ /\ erase /\ r.size > Cap
           /\ g_img_mgmt_state' = st
           /\ Reply(EUNKNOWN, st)
           /\ UNCHANGED <<flash, ctx, nfault>>
        \/ /\ erase /\ r.size <= Cap /\ Fault
           /\ g_img_mgmt_state' = st
           /\ Reply(EUNKNOWN, st)
           /\ UNCHANGED <<flash, ctx>>
        \/ /\ erase => r.size <= Cap
           /\ WriteChunk(st, IF erase THEN ImageDataErased(flash, a, r.size)
                                      ELSE flash,
                         r, WriteBytes(r, r.size))

(* A continuation at another offset than expected: drop it, resync. *)
UploadResynced(r) ==
  /\ r.off \notin {NONE, 0}
  /\ r.off # g_img_mgmt_state.off
  /\ Reply(EOK, g_img_mgmt_state)
  /\ UNCHANGED <<flash, g_img_mgmt_state, ctx, sess, nfault>>

(* A continuation at the expected offset, whether an upload is open or   *)
(* not: inspect reuses area_id and size; it opens the area only to align  *)
(* a non-final chunk, which fails for area -1.                           *)
UploadContinued(r) ==
  LET st == g_img_mgmt_state
  IN /\ r.off \notin {NONE, 0}
     /\ r.off = st.off
     /\ UNCHANGED sess
     /\ \/ /\ r.off + r.len < st.size /\ st.area_id = NOAREA
           /\ Reply(EUNKNOWN, st)
           /\ UNCHANGED <<flash, g_img_mgmt_state, ctx, nfault>>
        \/ /\ ~(r.off + r.len < st.size /\ st.area_id = NOAREA)
           /\ WriteChunk(st, flash, r, WriteBytes(r, st.size))

(* img_mgmt_upload: one request handled to completion. *)
Upload(r) ==
  /\ \/ UploadRejected(r)
     \/ UploadResumed(r)
     \/ UploadRefused(r)
     \/ UploadStarted(r)
     \/ UploadResynced(r)
     \/ UploadContinued(r)
  /\ UNCHANGED swap_type

-----------------------------------------------------------------------------
(***************************************************************************)
(* Image state write (img_mgmt_state_write) and the two transitions it    *)
(* calls.  The bootloader side, boot_request_upgrade and                 *)
(* boot_write_img_confirmed, is MCUboot's: their effect on the swap type  *)
(* is given at that interface, with their failures as faults.            *)
(***************************************************************************)

(* boot_request_upgrade(permanent): write the secondary slot's magic and, *)
(* if permanent, its image_ok; a swap already scheduled is left alone.   *)
RequestedSwap(permanent) ==
  IF swap_type = "NONE" THEN IF permanent THEN "PERM" ELSE "TEST" ELSE swap_type

(* img_mgmt_state_set_pending(slot, permanent), which calls               *)
(* img_mgmt_impl_write_pending; the outcome is only logged.              *)
img_mgmt_state_set_pending(slot, permanent, rc) ==
  LET refused == "CONFIRMED" \in img_mgmt_state_flags(slot) /\ slot # 0
  IN \/ /\ refused
        /\ rc = EBADSTATE
        /\ UNCHANGED <<swap_type, nfault>>
     \/ /\ ~refused /\ slot # 1
        /\ rc = EUNKNOWN
        /\ UNCHANGED <<swap_type, nfault>>
     \/ /\ ~refused /\ slot = 1
        /\ rc = EOK
        /\ swap_type' = RequestedSwap(permanent)
        /\ UNCHANGED nfault
     \/ /\ ~refused /\ slot = 1
        /\ rc = EUNKNOWN
        /\ Fault
        /\ \/ UNCHANGED swap_type
           \/ permanent /\ swap_type' = RequestedSwap(FALSE)

(* img_mgmt_state_confirm: refused while a test is pending; it returns    *)
(* what img_mgmt_impl_log_confirm returns, which is rc or, for a logging *)
(* stub, 0.                                                              *)
img_mgmt_state_confirm(rc) ==
  \E rc0 \in {EOK, EBADSTATE, EUNKNOWN} :
    /\ \/ /\ img_mgmt_state_any_pending
          /\ rc0 = EBADSTATE
          /\ UNCHANGED <<swap_type, nfault>>
       \/ /\ ~img_mgmt_state_any_pending
          /\ rc0 = EOK
          /\ swap_type' = IF swap_type = "REVERT" THEN "NONE" ELSE swap_type
          /\ UNCHANGED nfault
       \/ /\ ~img_mgmt_state_any_pending
          /\ rc0 = EUNKNOWN
          /\ Fault
          /\ UNCHANGED swap_type
    /\ rc \in {rc0, EOK}

(* The handler: a hash selects the slot, no hash with confirm is the      *)
(* running slot; confirm of the running slot confirms, else set pending. *)
img_mgmt_state_write(hash, confirm) ==
  LET slot == IF hash = NOSHA THEN IF confirm THEN IMG_MGMT_BOOT_CURR_SLOT ELSE -1
              ELSE img_mgmt_find_by_hash(hash)
  IN /\ \/ /\ slot = -1
           /\ rsp' = [rc |-> EINVAL, off |-> NONE]
           /\ UNCHANGED <<swap_type, nfault>>
        \/ /\ slot # -1
           /\ \E rc \in {EOK, EINVAL, EUNKNOWN, EBADSTATE} :
                /\ IF slot = IMG_MGMT_BOOT_CURR_SLOT /\ confirm
                   THEN img_mgmt_state_confirm(rc)
                   ELSE img_mgmt_state_set_pending(slot, confirm, rc)
                /\ rsp' = [rc |-> rc, off |-> NONE]
     /\ UNCHANGED <<flash, g_img_mgmt_state, ctx, sess, client, sent,
                    nstray, nboot>>

(* img_mgmt_impl_erase_slot (non-Scorpio): erase an unused slot unless    *)
(* it is already empty.                                                   *)
img_mgmt_impl_erase_slot ==
  LET best == img_mgmt_get_unused_slot_area_id(-1)
  IN /\ EraseCmd
     /\ \/ /\ best = NOAREA
           /\ rsp' = [rc |-> EUNKNOWN, off |-> NONE]
           /\ UNCHANGED <<flash, nfault>>
        \/ /\ best # NOAREA /\ Fault
           /\ rsp' = [rc |-> EUNKNOWN, off |-> NONE]
           /\ UNCHANGED flash
        \/ /\ best # NOAREA
           /\ flash' = IF zephyr_img_mgmt_flash_check_empty(best) THEN flash
                       ELSE AreaErased(flash, best)
           /\ rsp' = [rc |-> EOK, off |-> NONE]
           /\ UNCHANGED nfault
     /\ UNCHANGED <<swap_type, g_img_mgmt_state, ctx, sess, client, sent,
                    nstray, nboot>>

-----------------------------------------------------------------------------
(***************************************************************************)
(* Reboot: RAM state is lost and MCUboot acts on the swap type: a test or *)
(* permanent swap of a valid secondary image exchanges slots 0 and 1 (a   *)
(* test swap is then reverted on the next boot unless confirmed), an      *)
(* invalid secondary image is erased.                                     *)
(***************************************************************************)
Swapped(f) == [f EXCEPT ![0] = f[1], ![1] = f[0]]

NoSess     == [img |-> 0, area |-> NOAREA]
InitUpload == [area_id |-> NOAREA, off |-> 0, size |-> 0, data_sha |-> NOSHA]
InitCtx    == [alloc |-> ~HeapCtx, area |-> NOAREA, off |-> 0]

Reboot ==
  /\ nboot < MaxBoot
  /\ nboot' = nboot + 1
  /\ \/ /\ swap_type = "NONE"
        /\ UNCHANGED <<swap_type, flash>>
     \/ /\ swap_type \in {"TEST", "PERM"} /\ Readable(flash, 1)
        /\ flash' = Swapped(flash)
        /\ swap_type' = IF swap_type = "TEST" THEN "REVERT" ELSE "NONE"
     \/ /\ swap_type \in {"TEST", "PERM"} /\ ~Readable(flash, 1)
        /\ flash' = AreaErased(flash, 1)
        /\ swap_type' = "NONE"
     \/ /\ swap_type = "REVERT"
        /\ flash' = Swapped(flash)
        /\ swap_type' = "NONE"
  /\ g_img_mgmt_state' = InitUpload
  /\ ctx' = InitCtx
  /\ sess' = NoSess
  /\ rsp' = [rc |-> EOK, off |-> NONE]
  /\ UNCHANGED <<client, sent, nfault, nstray>>

-----------------------------------------------------------------------------
(***************************************************************************)
(* The client uploads one image at a time in chunks, stop-and-wait: it    *)
(* sends the chunk at the offset of the last response and is done when    *)
(* that offset reaches its image's end; an error restarts the upload at  *)
(* 0, no slot or a downgrade ends it.  A lost response leaves it where it *)
(* was, to resend on timeout.                                             *)
(***************************************************************************)
ClientRequest(l) ==
  LET i   == client.img
      rem == ImgSize[i] - client.off
      len == IF l < rem THEN l ELSE rem
  IN IF client.off = 0
     THEN [off |-> 0, len |-> len, size |-> ImgSize[i], img |-> i,
           sha |-> client.sha, image |-> client.image,
           upgrade |-> client.upgrade, magic |-> TRUE]
     ELSE [off |-> client.off, len |-> len, size |-> NONE, img |-> i,
           sha |-> NOSHA, image |-> 0, upgrade |-> FALSE, magic |-> TRUE]

AfterResponse ==
  CASE rsp'.rc = EOK /\ rsp'.off >= ImgSize[client.img] ->
         [client EXCEPT !.phase = "idle"]
    [] rsp'.rc = EOK /\ rsp'.off < ImgSize[client.img] ->
         [client EXCEPT !.off = rsp'.off]
    [] rsp'.rc \in {ENOMEM, EBADSTATE} -> [client EXCEPT !.phase = "idle"]
    [] OTHER -> [client EXCEPT !.off = 0]

ClientStart(i, sha, image, upgrade) ==
  /\ client.phase = "idle"
  /\ client' = [phase |-> "up", img |-> i, off |-> 0, sha |-> sha,
                image |-> image, upgrade |-> upgrade]
  /\ sent' = {}
  /\ UNCHANGED <<swap_type, flash, g_img_mgmt_state, ctx, sess, rsp,
                 nfault, nstray, nboot>>

ClientSend(l) ==
  /\ client.phase = "up"
  /\ Upload(ClientRequest(l))
  /\ sent' = sent \cup {ClientRequest(l)}
  /\ client' = AfterResponse
  /\ UNCHANGED <<nstray, nboot>>

ClientSendLost(l) ==
  /\ client.phase = "up"
  /\ Upload(ClientRequest(l))
  /\ sent' = sent \cup {ClientRequest(l)}
  /\ UNCHANGED <<client, nstray, nboot>>

(* Requests a faulty client sends: no "off", a first chunk too short for *)
(* a header, without "len", with a bad magic, with an overlong "sha", and *)
(* a continuation after the header whose data run to the area's end.     *)
Malformed ==
  LET ok == [off |-> 0, len |-> HdrLen, size |-> ImgSize[Running],
             img |-> Running, sha |-> NOSHA, image |-> 0, upgrade |-> FALSE,
             magic |-> TRUE]
  IN {[ok EXCEPT !.off = NONE], [ok EXCEPT !.len = HdrLen - 1],
      [ok EXCEPT !.size = NONE], [ok EXCEPT !.magic = FALSE],
      [ok EXCEPT !.sha = LONGSHA],
      [ok EXCEPT !.off = HdrLen, !.len = Cap - HdrLen, !.size = NONE]}

(* The link delivers again a request of the current upload. *)
Redelivered(r) ==
  /\ nstray < MaxStray
  /\ nstray' = nstray + 1
  /\ Upload(r)
  /\ UNCHANGED <<client, sent, nboot>>

-----------------------------------------------------------------------------
Init ==
  /\ swap_type = "NONE"
  /\ \E old \in Imgs \cup {ERASED} :
       flash = [s \in Slots |-> [o \in Offs |->
                  CASE s = 0 /\ o < ImgSize[Running] -> Running
                    [] s = 1 /\ old \in Imgs /\ o < ImgSize[old] -> old
                    [] OTHER -> ERASED]]
  /\ g_img_mgmt_state = InitUpload
  /\ ctx = InitCtx
  /\ sess = NoSess
  /\ client = [phase |-> "idle", img |-> Running, off |-> 0, sha |-> NOSHA,
               image |-> 0, upgrade |-> FALSE]
  /\ sent = {}
  /\ rsp = [rc |-> EOK, off |-> NONE]
  /\ nfault = 0 /\ nstray = 0 /\ nboot = 0

Next ==
  \/ \E i \in Imgs, withSha \in BOOLEAN, image \in 0 .. NSlots,
        upgrade \in BOOLEAN :
       ClientStart(i, IF withSha THEN i ELSE NOSHA, image, upgrade)
  \/ \E l \in ChunkLens : ClientSend(l) \/ ClientSendLost(l)
  \/ \E r \in sent \cup Malformed : Redelivered(r)
  \/ \E hash \in {NOSHA} \cup Imgs, confirm \in BOOLEAN :
       img_mgmt_state_write(hash, confirm)
  \/ img_mgmt_impl_erase_slot
  \/ Reboot

(* The client keeps sending until a response reaches it. *)
Fairness == WF_vars(\E l \in ChunkLens : ClientSend(l))

Spec == Init /\ [][Next]_vars
LiveSpec == Spec /\ Fairness

-----------------------------------------------------------------------------
(***************************************************************************)
(* Properties.                                                             *)
(***************************************************************************)
Requests == [off : {NONE} \cup 0 .. Cap, len : 0 .. Cap,
             size : {NONE} \cup 0 .. Cap, img : Imgs,
             sha : {NOSHA, LONGSHA} \cup Imgs, image : 0 .. NSlots,
             upgrade : BOOLEAN, magic : BOOLEAN]

TypeOK ==
  /\ swap_type \in SwapTypes
  /\ flash \in [Slots -> [Offs -> Cells]]
  /\ g_img_mgmt_state \in [area_id : {NOAREA} \cup Slots, off : Nat,
                           size : Nat, data_sha : {NOSHA} \cup Imgs]
  /\ ctx \in [alloc : BOOLEAN, area : {NOAREA} \cup Slots, off : Nat]
  /\ sess \in [img : {0} \cup Imgs, area : {NOAREA} \cup Slots]
  /\ client \in [phase : {"idle", "up"}, img : Imgs, off : 0 .. Cap,
                 sha : {NOSHA} \cup Imgs, image : 0 .. NSlots,
                 upgrade : BOOLEAN]
  /\ sent \subseteq Requests
  /\ rsp \in [rc : {EOK, ENOMEM, EINVAL, EUNKNOWN, EBADSTATE},
              off : {NONE} \cup Nat]
  /\ nfault \in 0 .. MaxFault /\ nstray \in 0 .. MaxStray
  /\ nboot \in 0 .. MaxBoot

(* No cell of any image area is ever programmed over data without an     *)
(* erase: the first chunk of every upload finds its area erased, or has   *)
(* inspect's zephyr_img_mgmt_flash_check_empty ask for an erase of it.    *)
FlashNeverCorrupt == \A s \in Slots, o \in Offs : flash[s][o] # CORRUPT

(* The upload path never changes slot 0 or 1 while that slot is active,   *)
(* confirmed or pending: only MCUboot's swap at a reboot does.            *)
NoWriteToInUseSlot ==
  [][\A s \in 0 .. 1 :
       img_mgmt_slot_in_use(s) /\ nboot' = nboot => flash'[s] = flash[s]]_vars

(* While an upload is open past its first write, the write stream of     *)
(* img_mgmt_impl_write_image_data (its static or heap flash_img context)  *)
(* is allocated, bound to the session's area and at the session's offset: *)
(* the two are kept apart in the code (g_img_mgmt_state in the handler,   *)
(* ctx in the port), and the resynchronisation of retried chunks (spec    *)
(* section 4.4) needs them to agree.  A flush that fails inside           *)
(* flash_img_buffered_write after taking the bytes breaks it.             *)
WriteCtxInSync ==
  g_img_mgmt_state.area_id # NOAREA /\ g_img_mgmt_state.off # 0 =>
    /\ ctx.alloc
    /\ ctx.area = g_img_mgmt_state.area_id
    /\ ctx.off = g_img_mgmt_state.off

(* While an upload is open past its first write, the write stream is     *)
(* allocated, bound to the session's area and never behind the session's *)
(* offset.  A failed flash write can leave it ahead (the stream took the *)
(* bytes, the session did not advance), and then every continuation is    *)
(* refused at the stream's offset check; but no path leaves it behind, so *)
(* the stream never takes a chunk at an offset whose earlier bytes it has *)
(* not taken.                                                             *)
StreamNotBehind ==
  g_img_mgmt_state.area_id # NOAREA /\ g_img_mgmt_state.off # 0 =>
    /\ ctx.alloc
    /\ ctx.area = g_img_mgmt_state.area_id
    /\ ctx.off >= g_img_mgmt_state.off

(* When the upload handler closes an upload (off reaches size), the area  *)
(* holds the whole image of the upload's first chunk, readable by         *)
(* img_mgmt_read_info.                                                    *)
UploadClosed == g_img_mgmt_state'.area_id = NOAREA
                /\ g_img_mgmt_state' # g_img_mgmt_state /\ nboot' = nboot
CompletedUploadIntact ==
  [][UploadClosed => /\ Readable(flash', sess'.area)
                     /\ flash'[sess'.area][0] = sess'.img]_vars

(* The offset of the upload session never passes its declared size: the *)
(* session closes when off reaches size (spec: "when next_offset ==       *)
(* total_size, the session resets"), so no chunk may carry it beyond.    *)
SessionWithinSize == g_img_mgmt_state.off <= g_img_mgmt_state.size

(* The refinement mapping: the handler's g_img_mgmt_state seen as the    *)
(* session of UploadSession; a closed upload (area_id -1) is idle         *)
(* whatever off and size it kept.                                         *)
AbsSession ==
  IF g_img_mgmt_state.area_id = NOAREA
  THEN [area |-> NOAREA, size |-> 0, off |-> 0, sha |-> NOSHA]
  ELSE [area |-> g_img_mgmt_state.area_id, size |-> g_img_mgmt_state.size,
        off |-> g_img_mgmt_state.off, sha |-> g_img_mgmt_state.data_sha]

Session == INSTANCE UploadSession
             WITH Areas <- Slots, Sizes <- 0 .. Cap, Shas <- {NOSHA} \cup Imgs,
                  NoArea <- NOAREA, NoSha <- NOSHA, session <- AbsSession,
                  boots <- nboot

(* The inspect/handler pair implements the upload session of the spec:   *)
(* a first chunk opens a session, a continuation advances it by what it  *)
(* wrote and never past its size, it closes exactly at its size, a first *)
(* chunk with its fingerprint never reopens it, and it is abandoned only *)
(* by a reboot.                                                          *)
UploadSessionRefined == Session!Spec

(* An upload the client starts ends: it completes or is refused. *)
UploadEnds == client.phase = "up" ~> client.phase = "idle"

=============================================================================
