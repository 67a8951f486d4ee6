--------------------------- MODULE ImgMgmtProofs ---------------------------
(***************************************************************************)
(* Proofs about ImgMgmt for every value of the constants.                  *)
(*                                                                         *)
(* The main result is StreamNotBehind: the flash_img write stream of       *)
(* img_mgmt_impl_write_image_data is never behind the handler's           *)
(* g_img_mgmt_state.  It is not inductive alone: a step must know that the *)
(* session and the context are records (so that EXCEPT keeps their other  *)
(* fields), and that the offsets and lengths it adds are integers (so that *)
(* the final chunk, off + len = size, is not cut and closes the upload in *)
(* the step that frees the heap context, and so that a failed write that  *)
(* took k >= 0 bytes leaves the stream at off + k >= off).  Those facts   *)
(* come from the requests the client builds from the offsets the device   *)
(* answers with, so the strengthening covers the client, its sent         *)
(* requests and the response.                                             *)
(***************************************************************************)
EXTENDS ImgMgmt, TLAPS

UploadFields == {"area_id", "off", "size", "data_sha"}
CtxFields    == {"alloc", "area", "off"}
ClientFields == {"phase", "img", "off", "sha", "image", "upgrade"}

(* A request whose "off" and "len" are integers. *)
IntReq(r) == r.off \in Int /\ r.len \in Int

(* The write stream c is not behind the upload session st. *)
NotBehind(st, c) ==
  st.area_id # NOAREA /\ st.off # 0 =>
    /\ c.alloc
    /\ c.area = st.area_id
    /\ c.off >= st.off

(* The device side: session, write context and last response. *)
UploadInv ==
  /\ DOMAIN g_img_mgmt_state = UploadFields
  /\ g_img_mgmt_state.off \in Int
  /\ DOMAIN ctx = CtxFields
  /\ ctx.off \in Int
  /\ rsp.off \in Int
  /\ StreamNotBehind

(* The client side: its upload and the requests it has sent. *)
ClientInv ==
  /\ DOMAIN client = ClientFields
  /\ client.img \in Imgs
  /\ client.off \in Int
  /\ \A r \in sent : IntReq(r)

IInv == UploadInv /\ ClientInv

-----------------------------------------------------------------------------
(* The handler's write of a chunk never leaves the write stream behind    *)
(* the session: a write that does not close the upload advances both by   *)
(* the bytes written, the final chunk is written whole and closes the     *)
(* upload in the step that frees a heap context, a refused write moves    *)
(* neither, and a failed flash write moves the stream by the k >= 0 bytes *)
(* it took and leaves the session where it was.                          *)
LEMMA WriteChunkNotBehind ==
  ASSUME UploadInv,
         NEW st, NEW f, NEW r, NEW wb,
         IntReq(r),
         DOMAIN st = UploadFields, st.off \in Int,
         r.off = st.off,
         NotBehind(st, ctx),
         wb = WriteBytes(r, st.size),
         WriteChunk(st, f, r, wb)
  PROVE  UploadInv'
<1> USE ConstAssumption DEF IntReq
<1> DEFINE last == st.off + r.len = st.size
           c1   == IF r.off = 0
                   THEN [alloc |-> TRUE, area |-> st.area_id, off |-> 0]
                   ELSE ctx
           ok   == /\ r.off # 0 => ctx.alloc
                   /\ r.off = 0 => st.area_id # NOAREA
                   /\ r.off = c1.off
                   /\ r.off + wb <= Cap
           done == Advanced(st, wb)
<1>1. wb \in Int
  BY DEF WriteBytes
<1>2. last => st.off + wb = st.size
  BY DEF WriteBytes
<1>3. /\ DOMAIN c1 = CtxFields
      /\ c1.off \in Int
      /\ st.area_id # NOAREA /\ r.off # 0 => c1.alloc /\ c1.area = st.area_id
      /\ r.off = 0 => c1.alloc /\ c1.area = st.area_id /\ c1.off = 0
  BY DEF NotBehind, UploadInv, CtxFields
<1>4. /\ DOMAIN done = UploadFields
      /\ done.off = st.off + wb
      /\ done.area_id = IF st.off + wb = st.size THEN NOAREA ELSE st.area_id
  BY <1>1 DEF Advanced
<1>5. StreamNotBehind' = NotBehind(g_img_mgmt_state', ctx')
  BY DEF StreamNotBehind, NotBehind
<1>6. NONE \in Int
  BY DEF NONE
<1>7. CASE r.len = 0
  <2>1. g_img_mgmt_state' = st /\ ctx' = ctx /\ rsp'.off = st.off
    BY <1>7 DEF WriteChunk, Reply, EOK
  <2>2. QED
    BY <1>5, <2>1 DEF UploadInv
<1>8. CASE r.len # 0 /\ ~ok
  <2>1. /\ g_img_mgmt_state' = st
        /\ ctx' = IF r.off = 0 /\ st.area_id # NOAREA THEN c1 ELSE ctx
        /\ rsp'.off = NONE
    BY <1>8 DEF WriteChunk, Reply, EOK, EUNKNOWN
  <2>2. NotBehind(st, c1) /\ DOMAIN ctx' = CtxFields /\ ctx'.off \in Int
    BY <1>3, <2>1 DEF NotBehind, UploadInv
  <2>3. QED
    BY <1>5, <1>6, <2>1, <2>2 DEF UploadInv
<1>9. CASE r.len # 0 /\ ok /\ ctx' = CtxAfterWrite(c1, r, wb, last)
                           /\ g_img_mgmt_state' = done /\ Reply(EOK, done)
  <2>1. NotBehind(done, CtxAfterWrite(c1, r, wb, last))
    BY <1>1, <1>2, <1>3, <1>4, <1>9 DEF NotBehind, CtxAfterWrite
  <2>2. DOMAIN CtxAfterWrite(c1, r, wb, last) = CtxFields
        /\ CtxAfterWrite(c1, r, wb, last).off \in Int
    BY <1>1, <1>3 DEF CtxAfterWrite, CtxFields
  <2>3. QED
    BY <1>1, <1>4, <1>5, <1>9, <2>1, <2>2 DEF UploadInv, Reply, EOK
<1>10. CASE r.len # 0 /\ ok /\ g_img_mgmt_state' = st /\ Reply(EUNKNOWN, st)
            /\ \E k \in 0 .. wb : ctx' = [c1 EXCEPT !.off = r.off + k]
  <2>1. PICK k \in 0 .. wb : ctx' = [c1 EXCEPT !.off = r.off + k]
    BY <1>10
  <2>2. /\ DOMAIN ctx' = CtxFields
        /\ ctx'.off = r.off + k /\ ctx'.alloc = c1.alloc /\ ctx'.area = c1.area
    BY <1>3, <2>1
  <2>3. k \in Int /\ ctx'.off \in Int /\ ctx'.off >= st.off
    BY <1>1, <2>2
  <2>4. NotBehind(st, ctx')
    BY <1>3, <2>2, <2>3 DEF NotBehind
  <2>5. QED
    BY <1>5, <1>6, <1>10, <2>2, <2>3, <2>4 DEF UploadInv, Reply, EOK, EUNKNOWN
<1>11. QED
  <2>1. r.len # 0 /\ ok =>
          \/ ctx' = CtxAfterWrite(c1, r, wb, last)
             /\ g_img_mgmt_state' = done /\ Reply(EOK, done)
          \/ g_img_mgmt_state' = st /\ Reply(EUNKNOWN, st)
             /\ \E k \in 0 .. wb : ctx' = [c1 EXCEPT !.off = r.off + k]
    BY DEF WriteChunk
  <2>2. QED
    BY <1>7, <1>8, <1>9, <1>10, <2>1

(* No path of the upload handler leaves the write stream behind the      *)
(* session: rejections, the resumption shortcut, refusals and the     *)
(* resynchronisation leave both alone, a new upload starts at offset 0,   *)
(* and the writes are WriteChunkNotBehind.                                *)
LEMMA UploadNotBehind ==
  ASSUME UploadInv, NEW r, IntReq(r), Upload(r)
  PROVE  UploadInv'
<1> USE DEF IntReq
<1>1. NONE \in Int /\ EUNKNOWN # EOK
  BY DEF NONE, EUNKNOWN, EOK
<1>2. CASE \/ UploadRejected(r) \/ UploadResumed(r)
           \/ UploadRefused(r) \/ UploadResynced(r)
  BY <1>1, <1>2
  DEF UploadRejected, UploadResumed, UploadRefused, UploadResynced, Reply,
      UploadInv, StreamNotBehind
<1>3. CASE UploadStarted(r)
  <2> DEFINE a  == SelectedArea(r)
             st == [area_id |-> a, off |-> 0, size |-> r.size,
                    data_sha |-> IF r.sha \in Imgs THEN r.sha ELSE NOSHA]
             erase == ~LazyErase /\ ~zephyr_img_mgmt_flash_check_empty(a)
  <2>1. /\ DOMAIN st = UploadFields /\ st.off \in Int /\ st.off = 0
        /\ r.off = st.off /\ NotBehind(st, ctx)
    BY <1>3 DEF UploadStarted, StartsUpload, UploadFields, NotBehind
  <2>2. CASE /\ g_img_mgmt_state' = st
             /\ rsp'.off = NONE
             /\ UNCHANGED ctx
    BY <1>1, <2>1, <2>2 DEF UploadInv, StreamNotBehind, NotBehind
  <2>3. CASE \E f : WriteChunk(st, f, r, WriteBytes(r, r.size))
    <3>1. PICK f : WriteChunk(st, f, r, WriteBytes(r, r.size))
      BY <2>3
    <3>2. WriteBytes(r, r.size) = WriteBytes(r, st.size)
      OBVIOUS
    <3>3. QED
      BY <2>1, <3>1, <3>2, WriteChunkNotBehind
  <2>4. QED
    BY <1>1, <1>3, <2>2, <2>3 DEF UploadStarted, Reply
<1>4. CASE UploadContinued(r)
  <2> DEFINE st == g_img_mgmt_state
  <2>1. CASE UNCHANGED <<g_img_mgmt_state, ctx>> /\ rsp'.off = NONE
    BY <1>1, <2>1 DEF UploadInv, StreamNotBehind
  <2>2. CASE WriteChunk(st, flash, r, WriteBytes(r, st.size))
    <3>1. /\ DOMAIN st = UploadFields /\ st.off \in Int
          /\ r.off = st.off /\ NotBehind(st, ctx)
      BY <1>4 DEF UploadContinued, UploadInv, StreamNotBehind, NotBehind
    <3>2. QED
      BY <2>2, <3>1, WriteChunkNotBehind
  <2>3. QED
    BY <1>1, <1>4, <2>1, <2>2 DEF UploadContinued, Reply
<1>5. QED
  BY <1>2, <1>3, <1>4 DEF Upload

(* The client's next request carries integer "off" and "len": its offset  *)
(* is one the device answered with, and its length is a chunk length cut  *)
(* to what remains of the image.                                          *)
LEMMA ClientRequestInt ==
  ASSUME ClientInv, NEW l \in ChunkLens
  PROVE  IntReq(ClientRequest(l))
<1>1. ImgSize[client.img] \in Int /\ l \in Int
  <2>1. ImgSize[client.img] \in 1 .. Cap /\ l \in Nat
    BY ConstAssumption DEF ClientInv
  <2>2. QED
    BY <2>1, ConstAssumption
<1>2. QED
  BY <1>1 DEF ClientInv, ClientRequest, IntReq

(* A response keeps the client's record, its image and an integer offset. *)
LEMMA AfterResponseType ==
  ASSUME ClientInv, rsp'.off \in Int
  PROVE  /\ DOMAIN AfterResponse = ClientFields
         /\ AfterResponse.img = client.img
         /\ AfterResponse.off \in Int
BY DEF AfterResponse, ClientInv, ClientFields

(* The malformed requests of a faulty client have integer "off" and "len". *)
LEMMA MalformedInt ==
  ASSUME NEW r \in Malformed
  PROVE  IntReq(r)
<1> DEFINE ok == [off |-> 0, len |-> HdrLen, size |-> ImgSize[Running],
                  img |-> Running, sha |-> NOSHA, image |-> 0,
                  upgrade |-> FALSE, magic |-> TRUE]
<1>1. r \in {[ok EXCEPT !.off = NONE], [ok EXCEPT !.len = HdrLen - 1],
             [ok EXCEPT !.size = NONE], [ok EXCEPT !.magic = FALSE],
             [ok EXCEPT !.sha = LONGSHA],
             [ok EXCEPT !.off = HdrLen, !.len = Cap - HdrLen, !.size = NONE]}
  BY DEF Malformed
<1>2. HdrLen \in Int /\ Cap \in Int /\ NONE \in Int
  BY ConstAssumption DEF NONE
<1>3. CASE r = [ok EXCEPT !.off = HdrLen, !.len = Cap - HdrLen, !.size = NONE]
  BY <1>2, <1>3 DEF IntReq
<1>4. CASE r \in {[ok EXCEPT !.off = NONE], [ok EXCEPT !.len = HdrLen - 1],
                  [ok EXCEPT !.size = NONE], [ok EXCEPT !.magic = FALSE],
                  [ok EXCEPT !.sha = LONGSHA]}
  BY <1>2, <1>4 DEF IntReq
<1>5. QED
  BY <1>1, <1>3, <1>4

-----------------------------------------------------------------------------
(* IInv holds in every initial state. *)
LEMMA IInvInit == Init => IInv
BY ConstAssumption
DEF Init, IInv, UploadInv, ClientInv, StreamNotBehind, InitUpload, InitCtx,
    UploadFields, CtxFields, ClientFields, NONE

(* IInv is kept by every step of Next. *)
LEMMA IInvStep == IInv /\ [Next]_vars => IInv'
<1> SUFFICES ASSUME IInv, [Next]_vars PROVE IInv'
  OBVIOUS
<1>0. NONE \in Int
  BY DEF NONE
<1>1. ASSUME NEW i \in Imgs, NEW sha, NEW image, NEW upgrade,
             ClientStart(i, sha, image, upgrade)
      PROVE  IInv'
  BY <1>1 DEF ClientStart, IInv, UploadInv, ClientInv, StreamNotBehind,
              ClientFields
<1>2. ASSUME NEW l \in ChunkLens, ClientSend(l)
      PROVE  IInv'
  <2>1. IntReq(ClientRequest(l))
    BY ClientRequestInt DEF IInv
  <2>2. UploadInv'
    BY <1>2, <2>1, UploadNotBehind DEF ClientSend, IInv
  <2>3. /\ DOMAIN AfterResponse = ClientFields
        /\ AfterResponse.img = client.img
        /\ AfterResponse.off \in Int
    BY <2>2, AfterResponseType DEF IInv, UploadInv
  <2>4. QED
    BY <1>2, <2>1, <2>2, <2>3 DEF ClientSend, IInv, ClientInv
<1>3. ASSUME NEW l \in ChunkLens, ClientSendLost(l)
      PROVE  IInv'
  <2>1. IntReq(ClientRequest(l))
    BY ClientRequestInt DEF IInv
  <2>2. UploadInv'
    BY <1>3, <2>1, UploadNotBehind DEF ClientSendLost, IInv
  <2>3. QED
    BY <1>3, <2>1, <2>2 DEF ClientSendLost, IInv, ClientInv
<1>4. ASSUME NEW r \in sent \cup Malformed, Redelivered(r)
      PROVE  IInv'
  <2>1. IntReq(r)
    BY MalformedInt DEF IInv, ClientInv
  <2>2. QED
    BY <1>4, <2>1, UploadNotBehind DEF Redelivered, IInv, ClientInv
<1>5. ASSUME NEW hash, NEW confirm, img_mgmt_state_write(hash, confirm)
      PROVE  IInv'
  BY <1>0, <1>5 DEF img_mgmt_state_write, IInv, UploadInv, ClientInv,
                    StreamNotBehind
<1>6. CASE img_mgmt_impl_erase_slot
  BY <1>0, <1>6 DEF img_mgmt_impl_erase_slot, IInv, UploadInv, ClientInv,
                    StreamNotBehind
<1>7. CASE Reboot
  BY <1>0, <1>7 DEF Reboot, IInv, UploadInv, ClientInv, StreamNotBehind,
                    InitUpload, InitCtx, UploadFields, CtxFields
<1>8. CASE UNCHANGED vars
  BY <1>8 DEF vars, IInv, UploadInv, ClientInv, StreamNotBehind
<1>9. QED
  BY <1>1, <1>2, <1>3, <1>4, <1>5, <1>6, <1>7, <1>8 DEF Next

(* IInv holds in every reachable state. *)
LEMMA IInvInductive == Spec => []IInv
BY IInvInit, IInvStep, PTL DEF Spec

(* The flash_img write stream of img_mgmt_impl_write_image_data is never *)
(* behind the handler's g_img_mgmt_state: while an upload is open past    *)
(* its first write, the stream is allocated, bound to the session's area  *)
(* and at or past the session's offset, whatever the number of slots, the *)
(* alignment, the chunk lengths, failed flash writes (which may leave it  *)
(* ahead), lost responses, redelivered requests and reboots.             *)
THEOREM StreamNotBehindInvariant == Spec => []StreamNotBehind
<1>1. IInv => StreamNotBehind
  BY DEF IInv, UploadInv
<1>2. QED
  BY <1>1, IInvInductive, PTL
=============================================================================
