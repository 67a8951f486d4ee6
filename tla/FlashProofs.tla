---------------------------- MODULE FlashProofs ----------------------------
(***************************************************************************)
(* FlashNeverCorrupt for every value of the constants of the non-Scorpio   *)
(* build (zephyr_img_mgmt_flash_check_empty scans the whole area,          *)
(* ScanLen = Cap) over a link that does not redeliver (MaxStray = 0).      *)
(*                                                                         *)
(* No cell is programmed over data because every write lands on cells the *)
(* handler knows to be erased: a first chunk on an area that was found    *)
(* empty or erased up to its image size, a continuation on the tail       *)
(* [off, size) of its session, which stays erased from the write stream's *)
(* offset on (a failed write may leave the stream ahead of the session,  *)
(* and then no continuation is taken).  That the continuation            *)
(* stays inside [off, size) is the client's doing: its chunks never run   *)
(* past the end of its image, and the session it continues has its        *)
(* image's size.  Nothing in inspect checks off + len <= size (the         *)
(* overlong finding), so the theorem needs the honest link.               *)
(***************************************************************************)
EXTENDS ImgMgmtProofs, TLAPS

St == g_img_mgmt_state

(* The shapes the flash proof reads: the flash cells, the session's area  *)
(* and size, the client's phase and sha, and no redelivery.               *)
FlashTypeOK ==
  /\ flash \in [Slots -> [Offs -> Cells]]
  /\ St.area_id \in Slots \cup {NOAREA}
  /\ St.size \in Int
  /\ client.phase \in {"idle", "up"}
  /\ client.sha \in {NOSHA, client.img}
  /\ client.image \in 0 .. NSlots
  /\ nstray = 0

(* An open session has its offset inside its size, and a session opened  *)
(* with a sha has that image's size.                                      *)
SessionBounds ==
  /\ St.area_id # NOAREA => 0 <= St.off /\ St.off < St.size
  /\ St.area_id # NOAREA /\ St.data_sha \in Imgs =>
       St.size = ImgSize[St.data_sha]

(* The session is one of image i's: open with its size, or closed at an  *)
(* offset (0 or the image's end) that no continuation of i matches.       *)
SessionOf(i) ==
  /\ St.area_id # NOAREA => St.size = ImgSize[i]
  /\ St.area_id = NOAREA => St.off \in {0, ImgSize[i]}

(* A client past its first chunk is inside its image, and the session it  *)
(* would continue is its own.                                             *)
ClientOwnsSession ==
  client.phase = "up" /\ client.off # 0 =>
    /\ 0 < client.off /\ client.off < ImgSize[client.img]
    /\ SessionOf(client.img)

(* The rest of an open session's image from the write stream's offset,  *)
(* [ctx.off, size), is still erased.  The stream is at the session's      *)
(* offset or ahead of it after a failed flash write, which programmed     *)
(* at most the bytes the stream took.                                      *)
TailErased ==
  ~LazyErase /\ St.area_id # NOAREA /\ St.off # 0 =>
    \A o \in Offs : ctx.off <= o /\ o < St.size =>
      flash[St.area_id][o] = ERASED

FInv ==
  /\ IInv
  /\ FlashTypeOK
  /\ SessionBounds
  /\ ClientOwnsSession
  /\ TailErased
  /\ FlashNeverCorrupt

(* The constants' facts the flash proof uses, each in a context of its own. *)
LEMMA ImgFacts ==
  ASSUME NEW i \in Imgs
  PROVE  /\ ImgSize[i] \in 1 .. Cap /\ i \in Nat \ {0}
         /\ NOSHA \notin Imgs /\ i # CORRUPT /\ i # ERASED
BY ConstAssumption DEF NOSHA, CORRUPT, ERASED

LEMMA RcFacts ==
  /\ EOK # EUNKNOWN /\ EOK # EINVAL /\ EOK # ENOMEM /\ EOK # EBADSTATE
  /\ NONE # 0 /\ NONE < 0 /\ NOAREA = -1 /\ NOSHA = 0 /\ ERASED # CORRUPT
BY DEF EOK, EUNKNOWN, EINVAL, ENOMEM, EBADSTATE, NONE, NOAREA, NOSHA,
       ERASED, CORRUPT

LEMMA CapFacts ==
  /\ Cap \in Nat \ {0} /\ Align \in Nat \ {0} /\ Page \in Nat \ {0}
  /\ ChunkLens \subseteq Nat \ {0} /\ LazyErase \in BOOLEAN
  /\ 0 \in Slots /\ 1 \in Slots /\ Slots = 0 .. NSlots - 1
  /\ NSlots \in 2 .. 4 /\ Offs = 0 .. Cap - 1
BY ConstAssumption DEF Slots, Offs

-----------------------------------------------------------------------------
(* The flash operators.  A rounded-up erase covers the length it rounds.  *)
LEMMA RoundUpCovers ==
  ASSUME NEW n \in Nat
  PROVE  RoundUpPage(n) \in Int /\ n <= RoundUpPage(n)
BY ConstAssumption DEF RoundUpPage

(* Programming n cells of area a from offset from with image i's bytes,   *)
(* over cells that are erased or already hold i (or under lazy erase),    *)
(* corrupts nothing and leaves every other cell as it was.                *)
LEMMA ProgrammedClean ==
  ASSUME NEW f \in [Slots -> [Offs -> Cells]],
         \A s \in Slots, o \in Offs : f[s][o] # CORRUPT,
         NEW a \in Slots, NEW from \in Int, NEW n \in Int, NEW i \in Imgs,
         LazyErase \/ \A o \in Offs : from <= o /\ o < from + n =>
                                        f[a][o] \in {ERASED, i}
  PROVE  LET g == Programmed(f, a, from, n, i) IN
         /\ g \in [Slots -> [Offs -> Cells]]
         /\ \A s \in Slots, o \in Offs : g[s][o] # CORRUPT
         /\ \A s \in Slots, o \in Offs :
              s # a \/ o < from \/ o >= from + n => g[s][o] = f[s][o]
<1>1. i # CORRUPT /\ i \in Cells
  BY ConstAssumption DEF CORRUPT, Cells
<1>2. ASSUME NEW o \in Offs, from <= o /\ o < from + n
      PROVE  Program(f[a][o], i) = i
  BY <1>2 DEF Program
<1>3. QED
  BY <1>1, <1>2 DEF Programmed

(* The erase of [0, n) rounded up to pages erases those cells and no      *)
(* other, and corrupts nothing.                                           *)
LEMMA ImageDataErasedClean ==
  ASSUME NEW f \in [Slots -> [Offs -> Cells]],
         \A s \in Slots, o \in Offs : f[s][o] # CORRUPT,
         NEW a \in Slots, NEW n \in Int
  PROVE  LET g == ImageDataErased(f, a, n) IN
         /\ g \in [Slots -> [Offs -> Cells]]
         /\ \A s \in Slots, o \in Offs : g[s][o] # CORRUPT
         /\ \A o \in Offs : o < RoundUpPage(n) => g[a][o] = ERASED
<1>1. ERASED \in Cells /\ ERASED # CORRUPT
  BY DEF ERASED, CORRUPT, Cells
<1>2. QED
  BY <1>1 DEF ImageDataErased

(* Erasing a whole area corrupts nothing and keeps erased cells erased. *)
LEMMA AreaErasedClean ==
  ASSUME NEW f \in [Slots -> [Offs -> Cells]],
         \A s \in Slots, o \in Offs : f[s][o] # CORRUPT,
         NEW a \in Slots
  PROVE  LET g == AreaErased(f, a) IN
         /\ g \in [Slots -> [Offs -> Cells]]
         /\ \A s \in Slots, o \in Offs : g[s][o] # CORRUPT
         /\ \A s \in Slots, o \in Offs : f[s][o] = ERASED => g[s][o] = ERASED
BY DEF AreaErased, ERASED, CORRUPT, Cells

(* The swap of slots 0 and 1 at a reboot corrupts nothing. *)
LEMMA SwappedClean ==
  ASSUME NEW f \in [Slots -> [Offs -> Cells]],
         \A s \in Slots, o \in Offs : f[s][o] # CORRUPT
  PROVE  /\ Swapped(f) \in [Slots -> [Offs -> Cells]]
         /\ \A s \in Slots, o \in Offs : Swapped(f)[s][o] # CORRUPT
<1>1. 0 \in Slots /\ 1 \in Slots
  BY ConstAssumption DEF Slots
<1>2. QED
  BY <1>1 DEF Swapped

-----------------------------------------------------------------------------
(* The flash, as the proof carries it from step to step. *)
FlashPart ==
  /\ flash \in [Slots -> [Offs -> Cells]]
  /\ FlashNeverCorrupt
  /\ TailErased

(* A first chunk as the honest client builds it (ClientRequest at off 0). *)
HonestFirst(r) ==
  /\ r.off = 0 /\ r.img \in Imgs /\ r.size = ImgSize[r.img]
  /\ r.len \in 1 .. r.size /\ r.sha \in {NOSHA, r.img}
  /\ r.image \in 0 .. NSlots

(* What the session is after a handled request, as the client reads it. *)
Answered(i) ==
  rsp'.rc = EOK => /\ rsp'.off = St'.off /\ St'.off >= 0
                   /\ SessionOf(i)'

(* Slot selection yields a slot or -1. *)
LEMMA SelectedAreaType ==
  ASSUME NEW r, r.image \in 0 .. NSlots
  PROVE  SelectedArea(r) \in Slots \cup {NOAREA}
<1>1. 0 \in Slots /\ 1 \in Slots /\ r.image - 1 \in -1 .. NSlots - 1
  BY ConstAssumption DEF Slots
<1>2. QED
  BY <1>1 DEF SelectedArea, img_mgmt_get_unused_slot_area_id,
              zephyr_img_mgmt_flash_area_id, Slots

(* The bytes a chunk writes are at most its length. *)
LEMMA WriteBytesRange ==
  ASSUME NEW r, NEW size \in Int, r.off \in Int, r.len \in Nat
  PROVE  WriteBytes(r, size) \in 0 .. r.len
BY ConstAssumption DEF WriteBytes

(* An honest first chunk programs only cells that are erased (the area  *)
(* was found empty or has just been erased up to the image size) and    *)
(* leaves the new session's tail erased; an answer of success carries    *)
(* the new session's offset.                                              *)
LEMMA FirstChunkFlash ==
  ASSUME FInv, ScanLen = Cap, NEW r, HonestFirst(r), Upload(r)
  PROVE  /\ FlashPart'
         /\ SessionBounds'
         /\ St'.area_id \in Slots \cup {NOAREA} /\ St'.size \in Int
         /\ Answered(r.img)
<1> USE DEF HonestFirst
<1>0. /\ ImgSize[r.img] \in 1 .. Cap /\ r.len \in Nat
      /\ NOSHA \notin Imgs /\ EOK # EUNKNOWN /\ EOK # EINVAL
      /\ EOK # ENOMEM /\ EOK # EBADSTATE /\ NONE # 0
  <2>1. ImgSize[r.img] \in 1 .. Cap /\ NOSHA \notin Imgs
    BY ImgFacts
  <2>2. r.len \in Nat
    BY <2>1
  <2>3. QED
    BY <2>1, <2>2, RcFacts
<1>1. CASE UploadRejected(r) \/ UploadRefused(r)
  <2>1. UNCHANGED <<flash, g_img_mgmt_state, ctx>> /\ rsp'.rc # EOK
    BY <1>0, <1>1 DEF UploadRejected, UploadRefused, Reply
  <2>2. QED
    BY <2>1 DEF FInv, FlashTypeOK, FlashPart, FlashNeverCorrupt, TailErased,
                SessionBounds, St, Answered
<1>2. CASE UploadResumed(r)
  <2>1. /\ UNCHANGED <<flash, g_img_mgmt_state, ctx>>
        /\ rsp' = [rc |-> EOK, off |-> St.off]
        /\ St.area_id # NOAREA /\ St.data_sha = r.img
    BY <1>0, <1>2 DEF UploadResumed, Reply, Resumes, St
  <2>2. QED
    BY <2>1 DEF FInv, FlashTypeOK, FlashPart, FlashNeverCorrupt, TailErased,
                SessionBounds, St, Answered, SessionOf
<1>3. CASE UploadResynced(r) \/ UploadContinued(r)
  BY <1>3 DEF UploadResynced, UploadContinued
<1>4. CASE UploadStarted(r)
  <2> DEFINE a  == SelectedArea(r)
             st == [area_id |-> a, off |-> 0, size |-> r.size,
                    data_sha |-> IF r.sha \in Imgs THEN r.sha ELSE NOSHA]
             erase == ~LazyErase /\ ~zephyr_img_mgmt_flash_check_empty(a)
             g  == ImageDataErased(flash, a, r.size)
             f  == IF erase THEN g ELSE flash
             wb == WriteBytes(r, r.size)
  <2>1. a \in Slots
    BY <1>4, SelectedAreaType DEF UploadStarted, StartsUpload
  <2>2. wb \in 0 .. r.len
    BY <1>0, WriteBytesRange
  <2>3. /\ flash \in [Slots -> [Offs -> Cells]]
        /\ \A s \in Slots, o \in Offs : flash[s][o] # CORRUPT
    BY DEF FInv, FlashTypeOK, FlashNeverCorrupt
  <2>4. /\ g \in [Slots -> [Offs -> Cells]]
        /\ \A s \in Slots, o \in Offs : g[s][o] # CORRUPT
        /\ \A o \in Offs : o < RoundUpPage(r.size) => g[a][o] = ERASED
    <3>1. r.size \in Int
      BY <1>0
    <3>2. QED
      BY <2>1, <2>3, <3>1, ImageDataErasedClean
  <2> HIDE DEF g
  <2>5. /\ f \in [Slots -> [Offs -> Cells]]
        /\ \A s \in Slots, o \in Offs : f[s][o] # CORRUPT
    BY <2>3, <2>4
  <2> HIDE DEF f
  <2>6. ~LazyErase => \A o \in Offs : o < r.size => f[a][o] = ERASED
    <3>1. CASE erase
      <4>1. f = g
        BY <3>1 DEF f
      <4>2. RoundUpPage(r.size) \in Int /\ r.size <= RoundUpPage(r.size)
        BY <1>0, RoundUpCovers
      <4>3. SUFFICES ASSUME NEW o \in Offs, o < r.size
                     PROVE  f[a][o] = ERASED
        OBVIOUS
      <4>4. o < RoundUpPage(r.size)
        BY <1>0, <4>2, <4>3, CapFacts
      <4>5. QED
        BY <2>4, <4>1, <4>3, <4>4
    <3>2. CASE ~erase
      BY <3>2, CapFacts DEF f, zephyr_img_mgmt_flash_check_empty
    <3>3. QED
      BY <3>1, <3>2
  <2>7. /\ st.area_id # NOAREA => 0 <= st.off /\ st.off < st.size
        /\ st.area_id # NOAREA /\ st.data_sha \in Imgs =>
             st.size = ImgSize[st.data_sha]
    BY <1>0
  <2>8. CASE /\ g_img_mgmt_state' = st /\ UNCHANGED flash
             /\ rsp'.rc = EUNKNOWN
    <3>1. TailErased'
      BY <2>8 DEF TailErased, St
    <3>2. QED
      BY <1>0, <2>1, <2>3, <2>7, <2>8, <3>1
      DEF FlashPart, FlashNeverCorrupt, SessionBounds, St, Answered
  <2>9. CASE WriteChunk(st, f, r, wb)
    <3>0. /\ LazyErase \/ \A o \in Offs : 0 <= o /\ o < 0 + wb =>
                                            f[a][o] \in {ERASED, r.img}
          /\ wb \in Int /\ 0 \in Int /\ r.img \in Imgs
      BY <1>0, <2>2, <2>6, CapFacts
    <3>1. \/ /\ flash' = f /\ g_img_mgmt_state' = st
             /\ rsp'.rc # EOK
          \/ /\ flash' = Programmed(f, a, 0, wb, r.img)
             /\ g_img_mgmt_state' = Advanced(st, wb)
             /\ rsp' = [rc |-> EOK, off |-> Advanced(st, wb).off]
             /\ ctx' = CtxAfterWrite([alloc |-> TRUE, area |-> a, off |-> 0],
                                     r, wb, 0 + r.len = r.size)
          \/ /\ g_img_mgmt_state' = st /\ rsp'.rc # EOK
             /\ \E j \in 0 .. wb : flash' = Programmed(f, a, 0, j, r.img)
      <4>1. r.len # 0
        BY <1>0
      <4>2. QED
        BY <1>0, <2>9, <4>1 DEF WriteChunk, Reply
    <3>2. CASE /\ flash' = f /\ g_img_mgmt_state' = st
               /\ rsp'.rc # EOK
      <4>2. TailErased'
        BY <3>2 DEF TailErased, St
      <4>3. QED
        BY <1>0, <2>1, <2>5, <2>7, <3>2, <4>2
        DEF FlashPart, FlashNeverCorrupt, SessionBounds, St, Answered
    <3>3. CASE /\ flash' = Programmed(f, a, 0, wb, r.img)
               /\ g_img_mgmt_state' = Advanced(st, wb)
               /\ rsp' = [rc |-> EOK, off |-> Advanced(st, wb).off]
               /\ ctx' = CtxAfterWrite([alloc |-> TRUE, area |-> a, off |-> 0],
                                       r, wb, 0 + r.len = r.size)
      <4>2. /\ flash' \in [Slots -> [Offs -> Cells]]
            /\ \A s \in Slots, o \in Offs : flash'[s][o] # CORRUPT
            /\ \A o \in Offs : o >= 0 + wb => flash'[a][o] = f[a][o]
        <5>2. /\ Programmed(f, a, 0, wb, r.img) \in [Slots -> [Offs -> Cells]]
              /\ \A s \in Slots, o \in Offs :
                   Programmed(f, a, 0, wb, r.img)[s][o] # CORRUPT
              /\ \A s \in Slots, o \in Offs :
                   s # a \/ o < 0 \/ o >= 0 + wb =>
                     Programmed(f, a, 0, wb, r.img)[s][o] = f[s][o]
          BY <2>1, <2>5, <3>0, ProgrammedClean
        <5>3. QED
          BY <2>1, <3>3, <5>2
      <4>3. /\ St'.off = wb /\ St'.size = r.size
            /\ St'.data_sha = st.data_sha
            /\ St'.area_id = IF wb = r.size THEN NOAREA ELSE a
        BY <2>2, <3>3 DEF Advanced, St
      <4>4. TailErased'
        <5>1. SUFFICES ASSUME ~LazyErase, wb # r.size, NEW o \in Offs,
                              ctx'.off <= o, o < r.size
                       PROVE  flash'[a][o] = ERASED
          BY <4>3 DEF TailErased
        <5>2. ctx'.off = wb
          <6>1. 0 + r.len # r.size
            BY <1>0, <5>1 DEF WriteBytes
          <6>2. QED
            BY <2>2, <3>3, <6>1 DEF CtxAfterWrite
        <5>3. flash'[a][o] = f[a][o]
          BY <4>2, <5>1, <5>2, <2>2, CapFacts
        <5>4. QED
          BY <2>6, <5>1, <5>3
      <4>5. SessionBounds'
        BY <1>0, <2>2, <2>7, <4>3 DEF SessionBounds
      <4>6. Answered(r.img)
        <5>1. a # NOAREA /\ rsp'.off = St'.off /\ rsp'.rc = EOK
          BY <2>1, <3>3, RcFacts, CapFacts DEF St
        <5>2. QED
          BY <1>0, <2>2, <4>3, <5>1 DEF Answered, SessionOf
      <4>7. St'.area_id \in Slots \cup {NOAREA} /\ St'.size \in Int
        BY <1>0, <2>1, <4>3
      <4>8. FlashPart'
        BY <4>2, <4>4 DEF FlashPart, FlashNeverCorrupt
      <4>9. QED
        BY <4>5, <4>6, <4>7, <4>8
    <3>4. CASE /\ g_img_mgmt_state' = st /\ rsp'.rc # EOK
               /\ \E j \in 0 .. wb : flash' = Programmed(f, a, 0, j, r.img)
      <4>1. PICK j \in 0 .. wb : flash' = Programmed(f, a, 0, j, r.img)
        BY <3>4
      <4>2. LazyErase \/ \A o \in Offs : 0 <= o /\ o < 0 + j =>
                                           f[a][o] \in {ERASED, r.img}
        BY <3>0, <4>1, CapFacts
      <4>3. /\ flash' \in [Slots -> [Offs -> Cells]]
            /\ \A s \in Slots, o \in Offs : flash'[s][o] # CORRUPT
        BY <2>1, <2>5, <3>0, <4>1, <4>2, ProgrammedClean
      <4>4. TailErased'
        BY <3>4 DEF TailErased, St
      <4>5. QED
        BY <1>0, <2>1, <2>7, <3>4, <4>3, <4>4
        DEF FlashPart, FlashNeverCorrupt, SessionBounds, St, Answered
    <3>5. QED
      BY <3>1, <3>2, <3>3, <3>4
  <2>10. QED
    BY <1>4, <2>8, <2>9 DEF UploadStarted, Reply, f, g
<1>5. QED
  BY <1>1, <1>2, <1>3, <1>4 DEF Upload

(* A continuation of image i inside its image, sent while the session is *)
(* i's, writes only cells of the session's erased tail, keeps the tail of *)
(* the advanced session erased, and keeps the session i's.               *)
LEMMA NextChunkFlash ==
  ASSUME FInv, NEW i \in Imgs, NEW r, r.img = i,
         r.off \in 1 .. ImgSize[i] - 1, r.len \in 1 .. ImgSize[i] - r.off,
         SessionOf(i), Upload(r)
  PROVE  /\ FlashPart'
         /\ SessionBounds'
         /\ St'.area_id \in Slots \cup {NOAREA} /\ St'.size \in Int
         /\ Answered(i) /\ SessionOf(i)'
<1>0. /\ ImgSize[i] \in 1 .. Cap /\ i # CORRUPT
      /\ EOK # EUNKNOWN /\ NONE # 0 /\ NONE < 0 /\ NOAREA = -1
  BY ImgFacts, RcFacts
<1>1. /\ St.off \in Int /\ St.size \in Int
      /\ St.area_id \in Slots \cup {NOAREA}
      /\ flash \in [Slots -> [Offs -> Cells]]
      /\ \A s \in Slots, o \in Offs : flash[s][o] # CORRUPT
      /\ St.area_id # NOAREA => 0 <= St.off
      /\ St.area_id = NOAREA => St.off \in {0, ImgSize[i]}
  BY DEF FInv, IInv, UploadInv, FlashTypeOK, FlashNeverCorrupt,
         SessionBounds, SessionOf, St
<1>2. CASE \/ UploadRejected(r) \/ UploadResumed(r)
           \/ UploadRefused(r) \/ UploadStarted(r)
  <2>1. r.off # 0 /\ r.off # NONE
    BY <1>0
  <2>2. QED
    BY <1>2, <2>1, Zenon DEF UploadRejected, UploadResumed, UploadRefused,
                             UploadStarted, StartsUpload
<1>3. CASE UploadResynced(r)
  <2>1. UNCHANGED <<flash, g_img_mgmt_state, ctx>> /\ rsp'.off = St.off
    BY <1>3 DEF UploadResynced, Reply, St
  <2>2. St.off >= 0
    BY <1>0, <1>1
  <2>3. QED
    BY <1>1, <2>1, <2>2 DEF FInv, FlashPart, FlashNeverCorrupt, TailErased,
                            SessionBounds, St, Answered, SessionOf
<1>4. CASE UploadContinued(r)
  <2> DEFINE wb   == WriteBytes(r, St.size)
             last == St.off + r.len = St.size
  <2>0. r.off = St.off
    BY <1>4 DEF UploadContinued, St
  <2>1. /\ r.off = St.off /\ St.area_id # NOAREA /\ St.size = ImgSize[i]
    <3>1. St.area_id # NOAREA
      BY <1>0, <1>1, <2>0
    <3>2. QED
      BY <2>0, <3>1 DEF SessionOf
  <2>2. /\ ctx.alloc /\ ctx.area = St.area_id /\ ctx.off >= St.off
        /\ ctx.off \in Int /\ DOMAIN ctx = CtxFields
    <3>1. St.off # 0
      BY <1>0, <2>0
    <3>2. QED
      BY <2>1, <3>1 DEF FInv, IInv, UploadInv, StreamNotBehind, St
  <2>3. wb \in 0 .. r.len
    BY <1>0, <1>1, WriteBytesRange
  <2>4. St.area_id \in Slots
    BY <1>1, <2>1
  <2>5. WriteChunk(St, flash, r, wb)
    BY <1>0, <1>4, <2>1 DEF UploadContinued, St
  <2>6. /\ ~LazyErase => \A o \in Offs : ctx.off <= o /\ o < St.size =>
                           flash[St.area_id][o] = ERASED
        /\ r.off \in Int /\ wb \in Int /\ r.off + wb <= St.size
    BY <1>0, <1>1, <2>1, <2>3 DEF FInv, TailErased
  <2>7. CASE /\ UNCHANGED <<flash, g_img_mgmt_state, ctx>>
             /\ rsp'.rc = EUNKNOWN
    BY <1>0, <1>1, <2>7 DEF FInv, FlashPart, FlashNeverCorrupt, TailErased,
                            SessionBounds, St, Answered, SessionOf
  <2>8. CASE /\ ctx.off = r.off
             /\ flash' = Programmed(flash, St.area_id, r.off, wb, i)
             /\ g_img_mgmt_state' = Advanced(St, wb)
             /\ rsp' = [rc |-> EOK, off |-> Advanced(St, wb).off]
             /\ ctx' = CtxAfterWrite(ctx, r, wb, last)
    <3>1. LazyErase \/ \A o \in Offs : r.off <= o /\ o < r.off + wb =>
                                         flash[St.area_id][o] \in {ERASED, i}
      <4>1. SUFFICES ASSUME ~LazyErase, NEW o \in Offs, r.off <= o,
                            o < r.off + wb
                     PROVE  flash[St.area_id][o] = ERASED
        OBVIOUS
      <4>2. ctx.off <= o /\ o < St.size
        <5>1. ctx.off = r.off
          BY <2>8
        <5>2. r.off + wb <= St.size /\ r.off \in Int /\ wb \in Int
          BY <2>6
        <5>3. o \in Int /\ St.size \in Int
          BY <1>1, CapFacts
        <5>4. QED
          BY <4>1, <5>1, <5>2, <5>3
      <4>3. QED
        BY <2>6, <4>1, <4>2
    <3>2. /\ flash' \in [Slots -> [Offs -> Cells]]
          /\ \A s \in Slots, o \in Offs : flash'[s][o] # CORRUPT
          /\ \A o \in Offs : o >= r.off + wb =>
               flash'[St.area_id][o] = flash[St.area_id][o]
      <4>2. /\ Programmed(flash, St.area_id, r.off, wb, i)
                 \in [Slots -> [Offs -> Cells]]
            /\ \A s \in Slots, o \in Offs :
                 Programmed(flash, St.area_id, r.off, wb, i)[s][o] # CORRUPT
            /\ \A s \in Slots, o \in Offs :
                 s # St.area_id \/ o < r.off \/ o >= r.off + wb =>
                   Programmed(flash, St.area_id, r.off, wb, i)[s][o]
                     = flash[s][o]
        <5>1. /\ flash \in [Slots -> [Offs -> Cells]]
              /\ \A s \in Slots, o \in Offs : flash[s][o] # CORRUPT
          BY DEF FInv, FlashTypeOK, FlashNeverCorrupt
        <5>2. St.area_id \in Slots /\ r.off \in Int /\ wb \in Int /\ i \in Imgs
          BY <2>4, <2>6
        <5>3. QED
          BY <3>1, <5>1, <5>2, ProgrammedClean
      <4>3. QED
        BY <2>4, <2>8, <4>2
    <3>3. /\ St'.off = r.off + wb /\ St'.size = St.size
          /\ St'.data_sha = St.data_sha
          /\ St'.area_id = IF r.off + wb = St.size THEN NOAREA ELSE St.area_id
      BY <1>1, <2>1, <2>8 DEF Advanced, St
    <3>4. TailErased'
      <4>1. SUFFICES ASSUME ~LazyErase, r.off + wb # St.size, NEW o \in Offs,
                            ctx'.off <= o, o < St.size
                     PROVE  flash'[St.area_id][o] = ERASED
        BY <3>3 DEF TailErased
      <4>2. ctx'.off = r.off + wb
        <5>1. ~last
          BY <2>1, <4>1 DEF WriteBytes
        <5>2. QED
          BY <2>2, <2>8, <5>1 DEF CtxAfterWrite
      <4>3. flash'[St.area_id][o] = flash[St.area_id][o]
        BY <3>2, <4>1, <4>2
      <4>4. ctx.off <= o /\ o < St.size
        <5>1. ctx.off = r.off /\ wb >= 0
          BY <2>3, <2>8
        <5>2. o \in Int /\ St.size \in Int
          BY <1>1, CapFacts
        <5>3. QED
          BY <2>6, <4>1, <4>2, <5>1, <5>2
      <4>5. QED
        BY <2>6, <4>1, <4>3, <4>4
    <3>5. SessionBounds'
      BY <1>0, <1>1, <2>1, <2>3, <3>3 DEF FInv, SessionBounds
    <3>6. Answered(i) /\ SessionOf(i)'
      <4>1. rsp'.off = St'.off /\ rsp'.rc = EOK
        BY <2>8 DEF St
      <4>2. SessionOf(i)'
        BY <1>0, <2>1, <2>3, <3>3 DEF SessionOf
      <4>3. QED
        BY <1>0, <2>1, <2>3, <3>3, <4>1, <4>2 DEF Answered
    <3>7. St'.area_id \in Slots \cup {NOAREA} /\ St'.size \in Int
      BY <1>1, <3>3
    <3>8. FlashPart'
      BY <3>2, <3>4 DEF FlashPart, FlashNeverCorrupt
    <3>9. QED
      BY <3>5, <3>6, <3>7, <3>8
  <2>9. CASE /\ ctx.off = r.off
             /\ UNCHANGED g_img_mgmt_state /\ rsp'.rc = EUNKNOWN
             /\ \E k \in 0 .. wb, j \in 0 .. wb :
                  /\ j <= k
                  /\ flash' = Programmed(flash, St.area_id, r.off, j, i)
                  /\ ctx' = [ctx EXCEPT !.off = r.off + k]
    <3>1. PICK k \in 0 .. wb, j \in 0 .. wb :
                  /\ j <= k
                  /\ flash' = Programmed(flash, St.area_id, r.off, j, i)
                  /\ ctx' = [ctx EXCEPT !.off = r.off + k]
      BY <2>9
    <3>2. LazyErase \/ \A o \in Offs : r.off <= o /\ o < r.off + j =>
                                         flash[St.area_id][o] \in {ERASED, i}
      <4>1. SUFFICES ASSUME ~LazyErase, NEW o \in Offs, r.off <= o,
                            o < r.off + j
                     PROVE  flash[St.area_id][o] = ERASED
        OBVIOUS
      <4>2. ctx.off <= o /\ o < St.size
        <5>1. ctx.off = r.off
          BY <2>9
        <5>2. r.off + wb <= St.size /\ r.off \in Int /\ wb \in Int
          BY <2>6
        <5>3. o \in Int /\ St.size \in Int
          BY <1>1, CapFacts
        <5>4. QED
          BY <3>1, <4>1, <5>1, <5>2, <5>3
      <4>3. QED
        BY <2>6, <4>1, <4>2
    <3>3. /\ flash' \in [Slots -> [Offs -> Cells]]
          /\ \A s \in Slots, o \in Offs : flash'[s][o] # CORRUPT
          /\ \A o \in Offs : o >= r.off + j =>
               flash'[St.area_id][o] = flash[St.area_id][o]
      <4>1. j \in Int
        BY <2>6, <3>1
      <4>2. QED
        BY <1>1, <2>4, <2>6, <3>1, <3>2, <4>1, ProgrammedClean
    <3>4. TailErased'
      <4>1. SUFFICES ASSUME ~LazyErase, NEW o \in Offs,
                            ctx'.off <= o, o < St.size
                     PROVE  flash'[St.area_id][o] = ERASED
        BY <2>1, <2>9 DEF TailErased, St
      <4>2. ctx'.off = r.off + k
        BY <2>2, <3>1
      <4>3. o >= r.off + j /\ ctx.off <= o
        <5>1. j \in Int /\ k \in Int /\ j <= k /\ o \in Int
          BY <2>6, <3>1, CapFacts
        <5>2. QED
          BY <2>9, <4>1, <4>2, <5>1
      <4>4. QED
        BY <2>6, <3>3, <4>1, <4>3
    <3>5. QED
      BY <1>0, <1>1, <2>9, <3>3, <3>4
      DEF FInv, FlashPart, FlashNeverCorrupt, SessionBounds, St, Answered,
          SessionOf
  <2>10. QED
    <3>1. r.len # 0 /\ r.off # 0
      OBVIOUS
    <3>2. \/ /\ UNCHANGED <<flash, g_img_mgmt_state, ctx>>
             /\ Reply(EUNKNOWN, St)
          \/ /\ r.off = ctx.off
             /\ flash' = Programmed(flash, ctx.area, r.off, wb, r.img)
             /\ ctx' = CtxAfterWrite(ctx, r, wb, last)
             /\ g_img_mgmt_state' = Advanced(St, wb)
             /\ Reply(EOK, Advanced(St, wb))
          \/ /\ r.off = ctx.off
             /\ UNCHANGED g_img_mgmt_state
             /\ \E k \in 0 .. wb, j \in 0 .. wb :
                  /\ j <= k
                  /\ flash' = Programmed(flash, ctx.area, r.off, j, r.img)
                  /\ ctx' = [ctx EXCEPT !.off = r.off + k]
             /\ Reply(EUNKNOWN, St)
      BY <2>5, <3>1 DEF WriteChunk, St
    <3>3. QED
      BY <1>0, <2>2, <3>2, <2>7, <2>8, <2>9 DEF Reply
<1>5. QED
  BY <1>2, <1>3, <1>4 DEF Upload

-----------------------------------------------------------------------------
(* The client after a response: its image, sha and target are kept, and  *)
(* it is still uploading past offset 0 only on a success that answered  *)
(* an offset inside its image, which it takes.                           *)
LEMMA AfterResponseFields ==
  ASSUME ClientInv, client.phase \in {"idle", "up"}, rsp'.off \in Int
  PROVE  /\ AfterResponse.img = client.img
         /\ AfterResponse.sha = client.sha
         /\ AfterResponse.image = client.image
         /\ AfterResponse.phase \in {"idle", "up"}
         /\ AfterResponse.phase = "up" /\ AfterResponse.off # 0 =>
              /\ rsp'.rc = EOK /\ AfterResponse.off = rsp'.off
              /\ rsp'.off < ImgSize[client.img]
<1>0. ImgSize[client.img] \in Int /\ EOK # ENOMEM /\ EOK # EBADSTATE
  BY ImgFacts, RcFacts DEF ClientInv
<1>1. CASE rsp'.rc = EOK /\ rsp'.off >= ImgSize[client.img]
  <2>1. AfterResponse = [client EXCEPT !.phase = "idle"]
    BY <1>0, <1>1 DEF AfterResponse
  <2>2. QED
    BY <2>1 DEF ClientInv, ClientFields
<1>2. CASE rsp'.rc = EOK /\ rsp'.off < ImgSize[client.img]
  <2>1. AfterResponse = [client EXCEPT !.off = rsp'.off]
    BY <1>0, <1>2 DEF AfterResponse
  <2>2. QED
    BY <1>2, <2>1 DEF ClientInv, ClientFields
<1>3. CASE rsp'.rc \in {ENOMEM, EBADSTATE}
  <2>1. AfterResponse = [client EXCEPT !.phase = "idle"]
    BY <1>0, <1>3 DEF AfterResponse
  <2>2. QED
    BY <2>1 DEF ClientInv, ClientFields
<1>4. CASE rsp'.rc # EOK /\ rsp'.rc \notin {ENOMEM, EBADSTATE}
  <2>1. AfterResponse = [client EXCEPT !.off = 0]
    BY <1>4 DEF AfterResponse
  <2>2. QED
    BY <2>1 DEF ClientInv, ClientFields
<1>5. QED
  BY <1>0, <1>1, <1>2, <1>3, <1>4

-----------------------------------------------------------------------------
(* The initial flash holds the running image, maybe an older image in    *)
(* slot 1, and erased cells; no session is open and the client is idle. *)
LEMMA FInvInit == Init => FInv
<1> SUFFICES ASSUME Init PROVE FInv
  OBVIOUS
<1>1. IInv
  BY IInvInit
<1>2. PICK old \in Imgs \cup {ERASED} :
        flash = [s \in Slots |-> [o \in Offs |->
                   CASE s = 0 /\ o < ImgSize[Running] -> Running
                     [] s = 1 /\ old \in Imgs /\ o < ImgSize[old] -> old
                     [] OTHER -> ERASED]]
  BY DEF Init
<1>3. /\ Running \in Imgs /\ Running # CORRUPT
      /\ old # CORRUPT /\ ERASED # CORRUPT
  <2>1. Running \in Imgs
    BY ConstAssumption
  <2>2. QED
    BY <2>1, ImgFacts, RcFacts
<1>4. /\ flash \in [Slots -> [Offs -> Cells]]
      /\ \A s \in Slots, o \in Offs : flash[s][o] # CORRUPT
  <2>1. \A s \in Slots, o \in Offs : flash[s][o] \in {Running, old, ERASED}
    BY <1>2
  <2>2. QED
    BY <1>2, <1>3, <2>1 DEF Cells
<1>5. /\ St = InitUpload /\ client.phase = "idle" /\ client.sha = NOSHA
      /\ client.image = 0 /\ nstray = 0
  BY DEF Init, St
<1>6. NOAREA \notin Slots /\ 0 \in 0 .. NSlots
  BY RcFacts, CapFacts
<1>7. QED
  BY <1>1, <1>4, <1>5, <1>6
  DEF FInv, FlashTypeOK, FlashNeverCorrupt, SessionBounds, ClientOwnsSession,
      TailErased, InitUpload

(* Every step keeps FInv, in the non-Scorpio build over a link that does *)
(* not redeliver: an upload by the lemmas above, the client by           *)
(* AfterResponseFields, an erase of a slot and a reboot because they     *)
(* corrupt nothing and only erase, and a reboot closes the session.      *)
LEMMA FInvStep ==
  ASSUME ScanLen = Cap, MaxStray = 0
  PROVE  FInv /\ [Next]_vars => FInv'
<1> SUFFICES ASSUME FInv, [Next]_vars PROVE FInv'
  OBVIOUS
<1>0. IInv'
  BY IInvStep DEF FInv
<1>1. ASSUME UNCHANGED <<g_img_mgmt_state, ctx, client, nstray>>,
             flash' \in [Slots -> [Offs -> Cells]],
             \A s \in Slots, o \in Offs : flash'[s][o] # CORRUPT,
             \A s \in Slots, o \in Offs :
               flash[s][o] = ERASED => flash'[s][o] = ERASED
      PROVE  FInv'
  <2>1. TailErased'
    BY <1>1 DEF FInv, FlashTypeOK, TailErased, St
  <2>2. QED
    BY <1>0, <1>1, <2>1 DEF FInv, FlashTypeOK, SessionBounds, SessionOf,
                            ClientOwnsSession, FlashNeverCorrupt, St
<1>2. /\ flash \in [Slots -> [Offs -> Cells]]
      /\ \A s \in Slots, o \in Offs : flash[s][o] # CORRUPT
  BY DEF FInv, FlashTypeOK, FlashNeverCorrupt
<1>3. ASSUME NEW i \in Imgs, NEW withSha \in BOOLEAN,
             NEW image \in 0 .. NSlots, NEW upgrade \in BOOLEAN,
             ClientStart(i, IF withSha THEN i ELSE NOSHA, image, upgrade)
      PROVE  FInv'
  BY <1>0, <1>3 DEF ClientStart, FInv, FlashTypeOK, SessionBounds,
                    ClientOwnsSession, TailErased, FlashNeverCorrupt, St
<1>4. ASSUME NEW l \in ChunkLens, client.phase = "up",
             Upload(ClientRequest(l)), UNCHANGED nstray,
             client' = AfterResponse \/ client' = client
      PROVE  FInv'
  <2>0. PICK i \in Imgs : i = client.img
    BY DEF FInv, IInv, ClientInv
  <2>9. PICK r : r = ClientRequest(l)
    OBVIOUS
  <2> USE <2>0, <2>9
  <2>1. /\ i \in Imgs /\ client.off \in Int /\ l \in Nat \ {0}
        /\ ImgSize[i] \in 1 .. Cap
        /\ client.sha \in {NOSHA, i} /\ client.image \in 0 .. NSlots
    BY CapFacts, ImgFacts DEF FInv, IInv, ClientInv, FlashTypeOK
  <2>2. /\ FlashPart' /\ SessionBounds'
        /\ St'.area_id \in Slots \cup {NOAREA} /\ St'.size \in Int
        /\ Answered(i)
        /\ client.off # 0 => SessionOf(i)'
    <3>1. CASE client.off = 0
      <4>1. HonestFirst(r)
        BY <2>1, <3>1 DEF ClientRequest, HonestFirst
      <4>2. r.img = i
        BY <3>1 DEF ClientRequest
      <4>3. QED
        BY <2>1, <3>1, <4>1, <4>2, <1>4, FirstChunkFlash
    <3>2. CASE client.off # 0
      <4>1. 0 < client.off /\ client.off < ImgSize[i] /\ SessionOf(i)
        BY <1>4, <3>2 DEF FInv, ClientOwnsSession
      <4>2. /\ r.img = i /\ r.off \in 1 .. ImgSize[i] - 1
            /\ r.len \in 1 .. ImgSize[i] - r.off
        BY <2>1, <3>2, <4>1 DEF ClientRequest
      <4>3. QED
        BY <2>1, <1>4, <4>1, <4>2, NextChunkFlash
    <3>3. QED
      BY <3>1, <3>2
  <2>3. /\ client'.img = i /\ client'.sha = client.sha
        /\ client'.image = client.image /\ client'.phase \in {"idle", "up"}
        /\ ClientOwnsSession'
    <3>1. CASE client' = client
      <4>1. client.off # 0 => 0 < client.off /\ client.off < ImgSize[i]
        BY <1>4 DEF FInv, ClientOwnsSession
      <4>2. QED
        BY <1>4, <2>2, <3>1, <4>1 DEF ClientOwnsSession, SessionOf, St
    <3>2. CASE client' = AfterResponse
      <4>1. rsp'.off \in Int /\ ClientInv
        BY <1>0 DEF FInv, IInv, UploadInv
      <4>2. /\ client'.img = i /\ client'.sha = client.sha
            /\ client'.image = client.image
            /\ client'.phase \in {"idle", "up"}
            /\ client'.phase = "up" /\ client'.off # 0 =>
                 /\ rsp'.rc = EOK /\ client'.off = rsp'.off
                 /\ rsp'.off < ImgSize[i]
        BY <1>4, <3>2, <4>1, AfterResponseFields
      <4>3. ASSUME client'.phase = "up", client'.off # 0
            PROVE  /\ 0 < client'.off /\ client'.off < ImgSize[i]
                   /\ SessionOf(i)'
        <5>1. rsp'.rc = EOK /\ client'.off = rsp'.off /\ rsp'.off < ImgSize[i]
          BY <4>2, <4>3
        <5>2. rsp'.off = St'.off /\ St'.off >= 0 /\ SessionOf(i)'
          BY <2>2, <5>1 DEF Answered
        <5>3. St'.off \in Int
          BY <1>0 DEF IInv, UploadInv, St
        <5>4. QED
          BY <4>3, <5>1, <5>2, <5>3
      <4>4. QED
        BY <4>2, <4>3 DEF ClientOwnsSession, SessionOf, St
    <3>3. QED
      BY <1>4, <3>1, <3>2
  <2>4. QED
    BY <1>0, <1>4, <2>1, <2>2, <2>3
    DEF FInv, FlashTypeOK, FlashPart, FInv
<1>5. ASSUME NEW r, Redelivered(r) PROVE FALSE
  BY <1>5 DEF Redelivered, FInv, FlashTypeOK
<1>6. ASSUME NEW hash, NEW confirm, img_mgmt_state_write(hash, confirm)
      PROVE  FInv'
  BY <1>1, <1>2, <1>6 DEF img_mgmt_state_write
<1>7. CASE img_mgmt_impl_erase_slot
  <2> DEFINE best == img_mgmt_get_unused_slot_area_id(-1)
  <2>1. best \in Slots \cup {NOAREA}
    <3>1. SelectedArea([image |-> 0]) \in Slots \cup {NOAREA}
      BY SelectedAreaType, CapFacts
    <3>2. QED
      BY <3>1 DEF SelectedArea
  <2>2. CASE UNCHANGED flash
    BY <1>1, <1>2, <1>7, <2>2 DEF img_mgmt_impl_erase_slot
  <2>3. CASE best \in Slots /\ flash' = AreaErased(flash, best)
    <3>1. /\ AreaErased(flash, best) \in [Slots -> [Offs -> Cells]]
          /\ \A s \in Slots, o \in Offs : AreaErased(flash, best)[s][o] # CORRUPT
          /\ \A s \in Slots, o \in Offs :
               flash[s][o] = ERASED => AreaErased(flash, best)[s][o] = ERASED
      BY <1>2, <2>3, AreaErasedClean
    <3>2. QED
      BY <1>1, <1>7, <2>3, <3>1 DEF img_mgmt_impl_erase_slot
  <2>4. QED
    BY <1>7, <2>1, <2>2, <2>3, RcFacts, CapFacts DEF img_mgmt_impl_erase_slot
<1>8. CASE Reboot
  <2>1. /\ flash' \in [Slots -> [Offs -> Cells]]
        /\ \A s \in Slots, o \in Offs : flash'[s][o] # CORRUPT
    <3>1. 1 \in Slots
      BY CapFacts
    <3>2. QED
      BY <1>2, <1>8, <3>1, SwappedClean, AreaErasedClean DEF Reboot
  <2>2. /\ St' = InitUpload /\ UNCHANGED <<client, nstray>>
    BY <1>8 DEF Reboot, St
  <2>3. ClientOwnsSession'
    BY <2>2 DEF FInv, ClientOwnsSession, SessionOf, InitUpload
  <2>4. NOAREA \notin Slots
    BY RcFacts, CapFacts
  <2>5. FlashTypeOK'
    BY <2>1, <2>2, <2>4 DEF FInv, FlashTypeOK, InitUpload, St
  <2>6. SessionBounds' /\ TailErased'
    BY <2>2 DEF SessionBounds, TailErased, InitUpload
  <2>7. FlashNeverCorrupt'
    BY <2>1 DEF FlashNeverCorrupt
  <2>8. QED
    BY <1>0, <2>3, <2>5, <2>6, <2>7 DEF FInv
<1>9. CASE UNCHANGED vars
  BY <1>9 DEF vars, FInv, IInv, UploadInv, ClientInv, StreamNotBehind,
              FlashTypeOK, SessionBounds, ClientOwnsSession, SessionOf,
              TailErased, FlashNeverCorrupt, St, IntReq
<1>10. QED
  BY <1>3, <1>4, <1>5, <1>6, <1>7, <1>8, <1>9
  DEF Next, ClientSend, ClientSendLost

(* The upload handler never programs a flash cell over data it did not  *)
(* write: in the non-Scorpio build, whose check_empty scans the whole    *)
(* area, and with a client that does not redeliver requests, no cell of *)
(* any slot is ever corrupt.                                             *)
THEOREM FlashNeverCorruptInvariant ==
  ASSUME ScanLen = Cap, MaxStray = 0
  PROVE  Spec => []FlashNeverCorrupt
<1>1. FInv => FlashNeverCorrupt
  BY DEF FInv
<1>2. QED
  BY FInvInit, FInvStep, <1>1, PTL DEF Spec

=============================================================================
