---------------------------- MODULE SlotProofs ----------------------------
(***************************************************************************)
(* NoWriteToInUseSlot for every value of the constants of the eager-erase *)
(* build that FlashProofs covers (the full empty-check scan, a link that   *)
(* does not redeliver).  The upload path writes only the area of its      *)
(* session: a first chunk the slot that img_mgmt_get_unused_slot_area_id  *)
(* found unused, which is never slot 0 (always active or confirmed); a    *)
(* continuation the area of its open session.  That area stays unused     *)
(* while the session is open past its first write: slot 1 becomes        *)
(* pending only through img_mgmt_state_set_pending, which needs           *)
(* img_mgmt_find_by_hash to read a whole image in it, and an open        *)
(* session's area holds at its head an image of the session's size (or   *)
(* an erased cell) and an erased cell at its offset.                      *)
(***************************************************************************)
EXTENDS FlashProofs, TLAPS

(* The swap type is one MCUboot reports. *)
SwapOK == swap_type \in SwapTypes

(* No session is ever open on slot 0, the running image. *)
NotOnSlot0 == St.area_id # 0

(* While a session on slot 1 is open past its first write and its write  *)
(* stream is at the session's offset, no swap is scheduled: slot 1 is not *)
(* pending.  A failed write of the last chunk can leave the image whole   *)
(* and the stream ahead, and then slot 1 may be made pending; but such a  *)
(* session takes no further chunk.                                        *)
PendingApart ==
  St.area_id = 1 /\ St.off # 0 /\ ctx.off = St.off => swap_type = "NONE"

(* The head of an open session's area is erased or an image of the       *)
(* session's size.                                                        *)
HeadSized ==
  St.area_id # NOAREA /\ St.off # 0 =>
    \/ flash[St.area_id][0] = ERASED
    \/ flash[St.area_id][0] \in Imgs /\ ImgSize[flash[St.area_id][0]] = St.size

(* The reboot counter is a number, so a reboot is told from other steps. *)
BootOK == nboot \in Nat

SInv == FInv /\ SwapOK /\ BootOK /\ NotOnSlot0 /\ PendingApart /\ HeadSized

-----------------------------------------------------------------------------
(* Slot 0 is always in use (active or confirmed), and slot 1 exactly when *)
(* a swap is scheduled or being reverted.                                *)
LEMMA SlotUse ==
  ASSUME SwapOK
  PROVE  /\ img_mgmt_slot_in_use(0)
         /\ img_mgmt_slot_in_use(1) <=> swap_type # "NONE"
BY DEF SwapOK, SwapTypes, img_mgmt_slot_in_use, img_mgmt_state_flags,
       StateFlags, IMG_MGMT_BOOT_CURR_SLOT

(* The slot selection of a first chunk or of the erase command yields a  *)
(* slot other than 0, and slot 1 only while no swap is scheduled.        *)
LEMMA SelectedUnused ==
  ASSUME SwapOK, NEW r, r.image \in 0 .. NSlots, SelectedArea(r) # NOAREA
  PROVE  /\ SelectedArea(r) \in Slots /\ SelectedArea(r) # 0
         /\ SelectedArea(r) = 1 => swap_type = "NONE"
<1>1. SelectedArea(r) \in Slots
  BY SelectedAreaType
<1>2. /\ img_mgmt_slot_in_use(0)
      /\ img_mgmt_slot_in_use(1) <=> swap_type # "NONE"
  BY SlotUse
<1>3. r.image - 1 \in -1 .. NSlots - 1 /\ NOAREA = -1
  BY CapFacts, RcFacts
<1>4. QED
  BY <1>1, <1>2, <1>3 DEF SelectedArea, img_mgmt_get_unused_slot_area_id,
                          zephyr_img_mgmt_flash_area_id

(* An open session past its first write whose stream is at its offset   *)
(* leaves its area unreadable: its head is erased, or an image of the     *)
(* session's size whose cell at the session's offset is still erased.     *)
LEMMA NotReadable ==
  ASSUME FInv, HeadSized, ~LazyErase, St.area_id # NOAREA, St.off # 0,
         ctx.off = St.off
  PROVE  ~Readable(flash, St.area_id)
<1>1. /\ 0 <= St.off /\ St.off < St.size /\ St.off \in Int
      /\ St.area_id \in Slots
  BY RcFacts DEF FInv, IInv, UploadInv, SessionBounds, FlashTypeOK, St
<1>2. \A o \in Offs : St.off <= o /\ o < St.size =>
        flash[St.area_id][o] = ERASED
  BY <1>1 DEF FInv, TailErased, St
<1>3. CASE flash[St.area_id][0] = ERASED
  BY <1>3, ImgFacts DEF Readable
<1>4. CASE /\ flash[St.area_id][0] \in Imgs
           /\ ImgSize[flash[St.area_id][0]] = St.size
  <2> DEFINE j == flash[St.area_id][0]
  <2>1. ImgSize[j] \in 1 .. Cap /\ j # ERASED
    BY <1>4, ImgFacts
  <2>2. St.off \in 0 .. ImgSize[j] - 1 /\ St.off \in Offs
    BY <1>1, <1>4, <2>1, CapFacts
  <2>3. flash[St.area_id][St.off] = ERASED
    BY <1>1, <1>2, <2>2
  <2>4. QED
    BY <2>1, <2>2, <2>3 DEF Readable
<1>5. QED
  BY <1>3, <1>4 DEF HeadSized

(* A state write cannot schedule a swap while slot 1 is unreadable: only *)
(* img_mgmt_state_set_pending on slot 1, found by its hash, changes the  *)
(* swap type, and a confirm leaves "NONE" alone.                          *)
LEMMA StateWriteKeepsNone ==
  ASSUME swap_type = "NONE", ~Readable(flash, 1),
         NEW hash, NEW confirm, img_mgmt_state_write(hash, confirm)
  PROVE  swap_type' = "NONE"
<1>1. img_mgmt_find_by_hash(hash) # 1
  BY DEF img_mgmt_find_by_hash
<1>2. QED
  BY <1>1 DEF img_mgmt_state_write, img_mgmt_state_set_pending,
              img_mgmt_state_confirm, IMG_MGMT_BOOT_CURR_SLOT


-----------------------------------------------------------------------------
(* The write of a chunk leaves flash and session alone (and, for a        *)
(* continuation, the stream), or programs the chunk into the area it      *)
(* writes (the new session's, or the stream's when it is at the chunk's   *)
(* offset) and advances the session, or fails after programming j of its *)
(* bytes and leaves the session where it was.                             *)
LEMMA WriteChunkFootprint ==
  ASSUME NEW st, NEW f, NEW r, NEW wb, WriteChunk(st, f, r, wb)
  PROVE  \/ /\ flash' = f /\ g_img_mgmt_state' = st
            /\ r.off # 0 => ctx' = ctx
         \/ /\ r.off = 0 => st.area_id # NOAREA
            /\ r.off # 0 => ctx.alloc /\ r.off = ctx.off
            /\ flash' = Programmed(f, IF r.off = 0 THEN st.area_id ELSE ctx.area,
                                   r.off, wb, r.img)
            /\ g_img_mgmt_state' = Advanced(st, wb)
         \/ /\ r.off = 0 => st.area_id # NOAREA
            /\ r.off # 0 => ctx.alloc /\ r.off = ctx.off
            /\ \E j \in 0 .. wb :
                 flash' = Programmed(f, IF r.off = 0 THEN st.area_id
                                        ELSE ctx.area, r.off, j, r.img)
            /\ g_img_mgmt_state' = st
BY DEF WriteChunk

(* An honest first chunk changes nothing, or opens a session on the slot  *)
(* the selection picked: it changes no other slot, and once it has       *)
(* written, the new session's head cell holds the image it uploads.      *)
LEMMA FirstChunkFootprint ==
  ASSUME FInv, ~LazyErase, NEW r, HonestFirst(r), Upload(r)
  PROVE  \/ UNCHANGED <<flash, g_img_mgmt_state, ctx>>
         \/ /\ SelectedArea(r) \in Slots /\ SelectedArea(r) # NOAREA
            /\ St'.area_id \in {SelectedArea(r), NOAREA}
            /\ St'.size = r.size
            /\ \A s \in Slots : s # SelectedArea(r) => flash'[s] = flash[s]
            /\ St'.area_id # NOAREA /\ St'.off # 0 =>
                 flash'[St'.area_id][0] = r.img
<1> USE DEF HonestFirst
<1>1. CASE UploadRejected(r) \/ UploadResumed(r) \/ UploadRefused(r)
           \/ UploadResynced(r) \/ UploadContinued(r)
  BY <1>1 DEF UploadRejected, UploadResumed, UploadRefused, UploadResynced,
              UploadContinued
<1>2. CASE UploadStarted(r)
  <2> DEFINE a  == SelectedArea(r)
             st == [area_id |-> a, off |-> 0, size |-> r.size,
                    data_sha |-> IF r.sha \in Imgs THEN r.sha ELSE NOSHA]
             erase == ~LazyErase /\ ~zephyr_img_mgmt_flash_check_empty(a)
             g  == IF erase THEN ImageDataErased(flash, a, r.size) ELSE flash
             wb == WriteBytes(r, r.size)
  <2>1. a \in Slots /\ a # NOAREA
    BY <1>2, SelectedAreaType DEF UploadStarted, StartsUpload
  <2>2. /\ r.size \in 1 .. Cap /\ r.len \in 1 .. r.size /\ wb \in 0 .. r.len
        /\ flash \in [Slots -> [Offs -> Cells]]
    <3>1. r.size \in 1 .. Cap
      BY ImgFacts
    <3>2. wb \in 0 .. r.len
      BY <3>1, WriteBytesRange
    <3>3. QED
      BY <3>1, <3>2 DEF FInv, FlashTypeOK
  <2>3. DOMAIN g = Slots /\ \A s \in Slots : s # a => g[s] = flash[s]
    BY <2>1, <2>2 DEF ImageDataErased
  <2>4. g[a][0] = ERASED
    <3>1. CASE erase
      <4>1. 0 < RoundUpPage(r.size) /\ 0 \in Offs
        <5>1. r.size \in Nat
          BY <2>2
        <5>2. r.size <= RoundUpPage(r.size) /\ RoundUpPage(r.size) \in Int
          BY <5>1, RoundUpCovers
        <5>3. QED
          BY <2>2, <5>2, CapFacts
      <4>2. QED
        BY <2>1, <2>2, <3>1, <4>1 DEF ImageDataErased
    <3>2. CASE ~erase
      <4>1. 0 \in 0 .. ScanLen - 1
        BY ConstAssumption
      <4>2. QED
        BY <3>2, <4>1 DEF zephyr_img_mgmt_flash_check_empty
    <3>3. QED
      BY <3>1, <3>2
  <2> HIDE DEF g
  <2>5. CASE \/ erase /\ r.size > Cap /\ g_img_mgmt_state' = st
                /\ UNCHANGED flash
             \/ erase /\ r.size <= Cap /\ g_img_mgmt_state' = st
                /\ UNCHANGED flash
    BY <2>1, <2>5 DEF St
  <2>6. CASE WriteChunk(st, g, r, wb)
    <3>1. CASE flash' = g /\ g_img_mgmt_state' = st
      BY <2>1, <2>3, <3>1 DEF St
    <3>2. CASE /\ flash' = Programmed(g, a, 0, wb, r.img)
               /\ g_img_mgmt_state' = Advanced(st, wb)
      <4>1. \A s \in Slots : s # a => flash'[s] = flash[s]
        BY <2>1, <2>3, <3>2 DEF Programmed
      <4>2. St'.area_id \in {a, NOAREA} /\ St'.size = r.size /\ St'.off = wb
        BY <2>2, <3>2 DEF Advanced, St
      <4>3. ASSUME St'.off # 0 PROVE flash'[a][0] = r.img
        <5>1. 0 \in 0 .. 0 + wb - 1 /\ 0 \in Offs
          BY <2>2, <4>2, <4>3, CapFacts
        <5>2. flash'[a] = [o \in Offs |-> IF o \in 0 .. 0 + wb - 1
                                         THEN Program(g[a][o], r.img)
                                         ELSE g[a][o]]
          BY <2>1, <2>3, <3>2 DEF Programmed
        <5>3. flash'[a][0] = Program(g[a][0], r.img)
          BY <5>1, <5>2
        <5>4. QED
          BY <2>4, <5>3 DEF Program
      <4>4. QED
        BY <2>1, <4>1, <4>2, <4>3
    <3>3. CASE /\ g_img_mgmt_state' = st
               /\ \E j \in 0 .. wb : flash' = Programmed(g, a, 0, j, r.img)
      <4>1. PICK j \in 0 .. wb : flash' = Programmed(g, a, 0, j, r.img)
        BY <3>3
      <4>2. \A s \in Slots : s # a => flash'[s] = flash[s]
        BY <2>1, <2>3, <4>1 DEF Programmed
      <4>3. QED
        BY <2>1, <2>2, <3>3, <4>2 DEF St
    <3>4. QED
      BY <2>6, <3>1, <3>2, <3>3, WriteChunkFootprint
  <2>7. QED
    BY <1>2, <2>5, <2>6 DEF UploadStarted, g
<1>3. QED
  BY <1>1, <1>2 DEF Upload

(* An honest continuation changes nothing, or writes the open session's   *)
(* area from its offset on: no other slot, and not the head cell.         *)
LEMMA NextChunkFootprint ==
  ASSUME FInv, NEW i \in Imgs, NEW r, r.img = i,
         r.off \in 1 .. ImgSize[i] - 1, SessionOf(i), Upload(r)
  PROVE  \/ UNCHANGED <<flash, g_img_mgmt_state, ctx>>
         \/ /\ St.area_id \in Slots /\ St.off # 0 /\ ctx.off = St.off
            /\ St'.area_id \in {St.area_id, NOAREA} /\ St'.size = St.size
            /\ \A s \in Slots : s # St.area_id => flash'[s] = flash[s]
            /\ \A s \in Slots : flash'[s][0] = flash[s][0]
<1>0. r.off # 0 /\ r.off # NONE /\ r.off \in Int
  BY RcFacts
<1>1. CASE UploadRejected(r) \/ UploadResumed(r) \/ UploadRefused(r)
           \/ UploadStarted(r) \/ UploadResynced(r)
  BY <1>0, <1>1, Zenon DEF UploadRejected, UploadResumed, UploadRefused,
                           UploadStarted, StartsUpload, UploadResynced
<1>2. CASE UploadContinued(r)
  <2> DEFINE wb == WriteBytes(r, St.size)
  <2>1. r.off = St.off
    BY <1>2 DEF UploadContinued, St
  <2>2. CASE UNCHANGED <<flash, g_img_mgmt_state, ctx>>
    BY <2>2
  <2>3. CASE /\ ctx.alloc /\ r.off = ctx.off
             /\ \E n : flash' = Programmed(flash, ctx.area, r.off, n, r.img)
             /\ g_img_mgmt_state' \in {Advanced(St, wb), St}
    <3>0. PICK n : flash' = Programmed(flash, ctx.area, r.off, n, r.img)
      BY <2>3
    <3>1. St.area_id # NOAREA
      BY <1>0, <2>1, ImgFacts DEF SessionOf
    <3>2. St.area_id \in Slots /\ ctx.area = St.area_id
          /\ flash \in [Slots -> [Offs -> Cells]]
      BY <1>0, <2>1, <3>1 DEF FInv, FlashTypeOK, IInv, UploadInv,
                              StreamNotBehind, St
    <3>3. St'.area_id \in {St.area_id, NOAREA} /\ St'.size = St.size
      <4>1. CASE g_img_mgmt_state' = St
        BY <4>1 DEF St
      <4>2. CASE g_img_mgmt_state' = Advanced(St, wb)
        <5>1. DOMAIN St = UploadFields
          BY DEF FInv, IInv, UploadInv, St
        <5>2. QED
          BY <4>2, <5>1 DEF Advanced, St, UploadFields
      <4>3. QED
        BY <2>3, <4>1, <4>2
    <3>4. \A s \in Slots : s # St.area_id => flash'[s] = flash[s]
      BY <3>0, <3>2 DEF Programmed
    <3>5. \A s \in Slots : flash'[s][0] = flash[s][0]
      <4>1. 0 \in Offs /\ 0 < r.off
        BY <1>0, CapFacts, ImgFacts
      <4>2. QED
        BY <3>0, <3>2, <4>1 DEF Programmed
    <3>6. QED
      BY <1>0, <2>1, <2>3, <3>2, <3>3, <3>4, <3>5
  <2>4. QED
    <3>1. CASE WriteChunk(St, flash, r, wb)
      <4>1. (IF r.off = 0 THEN St.area_id ELSE ctx.area) = ctx.area
        BY <1>0
      <4>2. \/ flash' = flash /\ g_img_mgmt_state' = St /\ ctx' = ctx
            \/ /\ ctx.alloc /\ r.off = ctx.off
               /\ flash' = Programmed(flash, ctx.area, r.off, wb, r.img)
               /\ g_img_mgmt_state' = Advanced(St, wb)
            \/ /\ ctx.alloc /\ r.off = ctx.off
               /\ \E j \in 0 .. wb :
                    flash' = Programmed(flash, ctx.area, r.off, j, r.img)
               /\ g_img_mgmt_state' = St
        BY <1>0, <3>1, <4>1, WriteChunkFootprint
      <4>3. QED
        BY <2>2, <2>3, <4>2 DEF St
    <3>2. QED
      BY <1>2, <2>2, <3>1 DEF UploadContinued, St
<1>3. QED
  BY <1>1, <1>2 DEF Upload


-----------------------------------------------------------------------------
(* A chunk the client sends keeps the session on an unused slot other   *)
(* than 0 and its head sized, and changes no slot in use: a first chunk *)
(* writes only the slot the selection found unused, a continuation only *)
(* its session's area.                                                    *)
LEMMA ClientUploadSlots ==
  ASSUME SInv, ~LazyErase, NEW l \in ChunkLens, client.phase = "up",
         Upload(ClientRequest(l))
  PROVE  /\ NotOnSlot0' /\ PendingApart' /\ HeadSized'
         /\ \A s \in 0 .. 1 : img_mgmt_slot_in_use(s) => flash'[s] = flash[s]
<1>0. PICK i \in Imgs : i = client.img
  BY DEF SInv, FInv, IInv, ClientInv
<1>1. PICK r : r = ClientRequest(l)
  OBVIOUS
<1> USE <1>0, <1>1
<1>2. /\ client.off \in Int /\ l \in Nat \ {0} /\ ImgSize[i] \in 1 .. Cap
      /\ client.sha \in {NOSHA, i} /\ client.image \in 0 .. NSlots
      /\ UNCHANGED swap_type
  BY CapFacts, ImgFacts DEF SInv, FInv, IInv, ClientInv, FlashTypeOK, Upload
<1>3. /\ img_mgmt_slot_in_use(0)
      /\ img_mgmt_slot_in_use(1) <=> swap_type # "NONE"
      /\ 0 \in Slots /\ 1 \in Slots /\ NOAREA \notin Slots
      /\ NOAREA # 0 /\ NOAREA # 1
  BY SlotUse, CapFacts, RcFacts DEF SInv
<1>4. CASE UNCHANGED <<flash, g_img_mgmt_state, ctx>>
  BY <1>2, <1>4 DEF SInv, NotOnSlot0, PendingApart, HeadSized, St
<1>5. CASE client.off = 0
  <2>1. HonestFirst(r)
    BY <1>2, <1>5 DEF ClientRequest, HonestFirst
  <2>2. r.img = i /\ r.size = ImgSize[i] /\ r.image \in 0 .. NSlots
    BY <1>2, <1>5 DEF ClientRequest
  <2>3. CASE /\ SelectedArea(r) \in Slots /\ SelectedArea(r) # NOAREA
             /\ St'.area_id \in {SelectedArea(r), NOAREA}
             /\ St'.size = r.size
             /\ \A s \in Slots : s # SelectedArea(r) => flash'[s] = flash[s]
             /\ St'.area_id # NOAREA /\ St'.off # 0 =>
                  flash'[St'.area_id][0] = r.img
    <3>1. SelectedArea(r) # 0 /\ (SelectedArea(r) = 1 => swap_type = "NONE")
      BY <2>2, <2>3, SelectedUnused DEF SInv
    <3>2. NotOnSlot0'
      BY <1>3, <2>3, <3>1 DEF NotOnSlot0
    <3>3. PendingApart'
      BY <1>2, <1>3, <2>3, <3>1 DEF PendingApart
    <3>4. HeadSized'
      BY <2>2, <2>3 DEF HeadSized
    <3>5. \A s \in 0 .. 1 : img_mgmt_slot_in_use(s) => flash'[s] = flash[s]
      BY <1>3, <2>3, <3>1
    <3>6. QED
      BY <3>2, <3>3, <3>4, <3>5
  <2>4. QED
    BY <1>4, <2>1, <2>3, FirstChunkFootprint DEF SInv
<1>6. CASE client.off # 0
  <2>1. 0 < client.off /\ client.off < ImgSize[i] /\ SessionOf(i)
    BY <1>6 DEF SInv, FInv, ClientOwnsSession
  <2>2. r.img = i /\ r.off \in 1 .. ImgSize[i] - 1
    <3>1. r.img = i /\ r.off = client.off
      BY <1>6 DEF ClientRequest
    <3>2. QED
      BY <1>2, <2>1, <3>1
  <2>3. CASE /\ St.area_id \in Slots /\ St.off # 0 /\ ctx.off = St.off
             /\ St'.area_id \in {St.area_id, NOAREA} /\ St'.size = St.size
             /\ \A s \in Slots : s # St.area_id => flash'[s] = flash[s]
             /\ \A s \in Slots : flash'[s][0] = flash[s][0]
    <3>1. St.area_id # 0 /\ (St.area_id = 1 => swap_type = "NONE")
      BY <2>3 DEF SInv, NotOnSlot0, PendingApart
    <3>2. NotOnSlot0'
      BY <1>3, <2>3, <3>1 DEF NotOnSlot0
    <3>3. PendingApart'
      BY <1>2, <1>3, <2>3, <3>1 DEF PendingApart
    <3>4. HeadSized'
      <4>1. \/ flash[St.area_id][0] = ERASED
            \/ /\ flash[St.area_id][0] \in Imgs
               /\ ImgSize[flash[St.area_id][0]] = St.size
        BY <1>3, <2>3 DEF SInv, HeadSized
      <4>2. QED
        BY <1>3, <2>3, <4>1 DEF HeadSized
    <3>5. \A s \in 0 .. 1 : img_mgmt_slot_in_use(s) => flash'[s] = flash[s]
      BY <1>3, <2>3, <3>1
    <3>6. QED
      BY <3>2, <3>3, <3>4, <3>5
  <2>4. QED
    BY <1>4, <2>1, <2>2, <2>3, NextChunkFootprint DEF SInv
<1>7. QED
  BY <1>5, <1>6


(* A state write changes only the swap type, to one MCUboot reports. *)
LEMMA StateWriteSwap ==
  ASSUME SwapOK, NEW hash, NEW confirm \in BOOLEAN,
         img_mgmt_state_write(hash, confirm)
  PROVE  SwapOK' /\ UNCHANGED <<flash, g_img_mgmt_state, ctx, nboot>>
<1>1. UNCHANGED <<flash, g_img_mgmt_state, ctx, nboot>>
  BY DEF img_mgmt_state_write
<1>2. \A p \in BOOLEAN : RequestedSwap(p) \in SwapTypes
  BY DEF SwapOK, SwapTypes, RequestedSwap
<1>3. ASSUME NEW slot, NEW p \in BOOLEAN, NEW rc,
             img_mgmt_state_set_pending(slot, p, rc)
      PROVE  SwapOK'
  BY <1>2, <1>3 DEF img_mgmt_state_set_pending, SwapOK
<1>4. ASSUME NEW rc, img_mgmt_state_confirm(rc) PROVE SwapOK'
  BY <1>4 DEF img_mgmt_state_confirm, SwapOK, SwapTypes
<1>6. QED
  BY <1>1, <1>3, <1>4 DEF img_mgmt_state_write, SwapOK

(* The erase command erases only the slot the selection found unused:    *)
(* it changes no slot in use, and any head it changes it erases.          *)
LEMMA EraseSlots ==
  ASSUME SInv, img_mgmt_impl_erase_slot
  PROVE  /\ UNCHANGED <<swap_type, g_img_mgmt_state, ctx, nboot>>
         /\ \A s \in Slots : flash'[s][0] \in {flash[s][0], ERASED}
         /\ \A s \in 0 .. 1 : img_mgmt_slot_in_use(s) => flash'[s] = flash[s]
<1> DEFINE best == img_mgmt_get_unused_slot_area_id(-1)
<1>1. UNCHANGED <<swap_type, g_img_mgmt_state, ctx, nboot>>
  BY DEF img_mgmt_impl_erase_slot
<1>2. CASE UNCHANGED flash
  BY <1>1, <1>2
<1>3. CASE best # NOAREA /\ flash' = AreaErased(flash, best)
  <2>1. best = SelectedArea([image |-> 0])
    BY DEF SelectedArea
  <2>2. /\ best \in Slots /\ best # 0
        /\ best = 1 => swap_type = "NONE"
    BY <1>3, <2>1, CapFacts, SelectedUnused DEF SInv
  <2>3. /\ img_mgmt_slot_in_use(0)
        /\ img_mgmt_slot_in_use(1) <=> swap_type # "NONE"
        /\ 0 \in Offs /\ flash \in [Slots -> [Offs -> Cells]]
    BY SlotUse, CapFacts DEF SInv, FInv, FlashTypeOK
  <2>4. QED
    BY <1>1, <1>3, <2>2, <2>3, CapFacts DEF AreaErased
<1>4. QED
  BY <1>2, <1>3 DEF img_mgmt_impl_erase_slot


-----------------------------------------------------------------------------
LEMMA SInvInit == Init => SInv
<1> SUFFICES ASSUME Init PROVE SInv
  OBVIOUS
<1>1. FInv
  BY FInvInit
<1>2. swap_type = "NONE" /\ nboot = 0 /\ St = InitUpload
  BY DEF Init, St
<1>3. QED
  BY <1>1, <1>2, RcFacts
  DEF SInv, SwapOK, SwapTypes, BootOK, NotOnSlot0, PendingApart, HeadSized,
      InitUpload

(* Every step keeps SInv, in the eager-erase build that FInvStep covers: *)
(* uploads by ClientUploadSlots, a state write because it cannot make    *)
(* slot 1 pending while a session on it is unreadable, an erase because  *)
(* it only erases, a reboot because it closes the session.               *)
LEMMA SInvStep ==
  ASSUME ScanLen = Cap, MaxStray = 0, ~LazyErase
  PROVE  SInv /\ [Next]_vars => SInv'
<1> SUFFICES ASSUME SInv, [Next]_vars PROVE SInv'
  OBVIOUS
<1>0. FInv'
  BY FInvStep DEF SInv
<1>1. ASSUME NEW i \in Imgs, NEW withSha \in BOOLEAN,
             NEW image \in 0 .. NSlots, NEW upgrade \in BOOLEAN,
             ClientStart(i, IF withSha THEN i ELSE NOSHA, image, upgrade)
      PROVE  SInv'
  BY <1>0, <1>1 DEF ClientStart, SInv, SwapOK, BootOK, NotOnSlot0,
                    PendingApart, HeadSized, St
<1>2. ASSUME NEW l \in ChunkLens, client.phase = "up",
             Upload(ClientRequest(l)), UNCHANGED nboot
      PROVE  SInv'
  <2>1. NotOnSlot0' /\ PendingApart' /\ HeadSized'
    BY <1>2, ClientUploadSlots
  <2>2. UNCHANGED swap_type
    BY <1>2 DEF Upload
  <2>3. QED
    BY <1>0, <1>2, <2>1, <2>2 DEF SInv, SwapOK, BootOK
<1>3. ASSUME NEW r, Redelivered(r) PROVE FALSE
  BY <1>3 DEF Redelivered, SInv, FInv, FlashTypeOK
<1>4. ASSUME NEW hash, NEW confirm \in BOOLEAN,
             img_mgmt_state_write(hash, confirm)
      PROVE  SInv'
  <2>1. SwapOK' /\ UNCHANGED <<flash, g_img_mgmt_state, ctx, nboot>>
    BY <1>4, StateWriteSwap DEF SInv
  <2>2. PendingApart'
    <3>1. SUFFICES ASSUME St.area_id = 1, St.off # 0, ctx.off = St.off
                   PROVE  swap_type' = "NONE"
      BY <2>1 DEF PendingApart, St
    <3>2. St.area_id # NOAREA
      BY <3>1, RcFacts
    <3>3. ~Readable(flash, 1)
      BY <3>1, <3>2, NotReadable DEF SInv
    <3>4. swap_type = "NONE"
      BY <3>1 DEF SInv, PendingApart
    <3>5. QED
      BY <1>4, <3>3, <3>4, StateWriteKeepsNone
  <2>3. QED
    BY <1>0, <2>1, <2>2 DEF SInv, BootOK, NotOnSlot0, HeadSized, St
<1>5. CASE img_mgmt_impl_erase_slot
  <2>1. /\ UNCHANGED <<swap_type, g_img_mgmt_state, ctx, nboot>>
        /\ \A s \in Slots : flash'[s][0] \in {flash[s][0], ERASED}
    BY <1>5, EraseSlots
  <2>2. HeadSized'
    <3>1. SUFFICES ASSUME St.area_id # NOAREA, St.off # 0
                   PROVE  \/ flash'[St.area_id][0] = ERASED
                          \/ /\ flash'[St.area_id][0] \in Imgs
                             /\ ImgSize[flash'[St.area_id][0]] = St.size
      BY <2>1 DEF HeadSized, St
    <3>2. St.area_id \in Slots
      BY <3>1 DEF SInv, FInv, FlashTypeOK
    <3>3. QED
      BY <2>1, <3>1, <3>2 DEF SInv, HeadSized
  <2>3. QED
    BY <1>0, <2>1, <2>2 DEF SInv, SwapOK, BootOK, NotOnSlot0, PendingApart, St
<1>6. CASE Reboot
  <2>1. St' = InitUpload /\ swap_type' \in SwapTypes /\ nboot' \in Nat
    BY <1>6 DEF Reboot, St, SInv, BootOK, SwapTypes
  <2>2. QED
    BY <1>0, <2>1, RcFacts
    DEF SInv, SwapOK, BootOK, NotOnSlot0, PendingApart, HeadSized, InitUpload
<1>7. CASE UNCHANGED vars
  BY <1>0, <1>7 DEF vars, SInv, SwapOK, BootOK, NotOnSlot0, PendingApart,
                    HeadSized, St
<1>8. QED
  BY <1>1, <1>2, <1>3, <1>4, <1>5, <1>6, <1>7
  DEF Next, ClientSend, ClientSendLost


-----------------------------------------------------------------------------
(* The step that NoWriteToInUseSlot constrains. *)
InUseSlotKept ==
  \A s \in 0 .. 1 :
    img_mgmt_slot_in_use(s) /\ nboot' = nboot => flash'[s] = flash[s]

(* No step but a reboot changes a slot in use: from SInv, by the slot     *)
(* each action may write.                                                 *)
LEMMA InUseSlotKeptStep ==
  ASSUME MaxStray = 0, ~LazyErase
  PROVE  SInv /\ [Next]_vars => [InUseSlotKept]_vars
<1> SUFFICES ASSUME SInv, [Next]_vars PROVE [InUseSlotKept]_vars
  OBVIOUS
<1>1. ASSUME UNCHANGED flash PROVE InUseSlotKept
  BY <1>1 DEF InUseSlotKept
<1>2. ASSUME NEW l \in ChunkLens, client.phase = "up",
             Upload(ClientRequest(l))
      PROVE  InUseSlotKept
  BY <1>2, ClientUploadSlots DEF InUseSlotKept
<1>3. ASSUME NEW r, Redelivered(r) PROVE FALSE
  BY <1>3 DEF Redelivered, SInv, FInv, FlashTypeOK
<1>4. CASE img_mgmt_impl_erase_slot
  BY <1>4, EraseSlots DEF InUseSlotKept
<1>5. CASE Reboot
  <2>1. nboot' # nboot
    BY <1>5 DEF Reboot, SInv, BootOK
  <2>2. QED
    BY <2>1 DEF InUseSlotKept
<1>6. QED
  BY <1>1, <1>2, <1>3, <1>4, <1>5
  DEF Next, ClientStart, ClientSend, ClientSendLost, img_mgmt_state_write, vars

(* The upload and erase commands never change slot 0 or 1 while that     *)
(* slot is active, confirmed or pending (img_mgmt_slot_in_use): only     *)
(* MCUboot's swap at a reboot does.  For every value of the constants of *)
(* the eager-erase build with the full empty-check scan, over a link     *)
(* that does not redeliver requests.                                      *)
THEOREM NoWriteToInUseSlotHolds ==
  ASSUME ScanLen = Cap, MaxStray = 0, ~LazyErase
  PROVE  Spec => NoWriteToInUseSlot
<1>1. Spec => []SInv
  BY SInvInit, SInvStep, PTL DEF Spec
<1>2. QED
  BY <1>1, InUseSlotKeptStep, PTL DEF Spec, NoWriteToInUseSlot, InUseSlotKept

=============================================================================
