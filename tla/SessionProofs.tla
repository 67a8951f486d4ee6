--------------------------- MODULE SessionProofs ---------------------------
(***************************************************************************)
(* The upload handler implements the abstract upload session of          *)
(* UploadSession under the refinement mapping AbsSession, for every value *)
(* of the constants of the configuration FlashProofs proves its invariant *)
(* for: a first chunk opens a session (written k bytes into it at once), *)
(* unless it carries the open session's fingerprint (the resumption     *)
(* shortcut answers that one), a continuation advances it by the bytes it *)
(* wrote, never past its size, and closes it exactly at its size, only a  *)
(* reboot abandons it (and counts a restart), and every other step leaves *)
(* session and restart count alone.  That a continuation stays within the *)
(* size is the invariant FInv: the client continues only its own session, *)
(* whose size is its image's, and never sends past its image's end.      *)
(***************************************************************************)
EXTENDS FlashProofs, TLAPS

(* A session record written by the handler maps to an Open step: area a, *)
(* n bytes, fingerprint h other than the open session's, and k of them   *)
(* written (closed if all of them).                                       *)
LEMMA OpenMaps ==
  ASSUME NEW a \in Slots, NEW n \in 1 .. Cap, NEW h \in {NOSHA} \cup Imgs,
         NEW k \in 0 .. n,
         ~(St.area_id # NOAREA /\ h # NOSHA /\ St.data_sha = h),
         St'.area_id = (IF k = n THEN NOAREA ELSE a),
         St'.off = k, St'.size = n, St'.data_sha = h,
         nboot' = nboot
  PROVE  Session!Next
<1>1. a # NOAREA /\ n \in 0 .. Cap
  BY RcFacts, CapFacts
<1>2. ~(Session!Active /\ h # NOSHA /\ AbsSession.sha = h)
  BY DEF Session!Active, AbsSession, St
<1>3. Session!Open(a, n, h, k)
  BY <1>1, <1>2 DEF Session!Open, Session!Idle, AbsSession, St
<1>4. QED
  BY <1>1, <1>3 DEF Session!Next

(* Advancing an open session by k bytes, k at most what is left of its   *)
(* size, is an Advance step.                                              *)
LEMMA AdvanceMaps ==
  ASSUME DOMAIN St = UploadFields, St.area_id \in Slots,
         St.off \in Int, St.size \in Int,
         NEW k \in 0 .. St.size - St.off,
         St' = Advanced(St, k), nboot' = nboot
  PROVE  Session!Next
<1>1. St.area_id # NOAREA
  BY RcFacts, CapFacts
<1>2. AbsSession = [area |-> St.area_id, size |-> St.size, off |-> St.off,
                    sha |-> St.data_sha]
  BY <1>1 DEF AbsSession, St
<1>3. /\ St'.off = St.off + k /\ St'.size = St.size
      /\ St'.data_sha = St.data_sha
      /\ St'.area_id = IF St.off + k = St.size THEN NOAREA ELSE St.area_id
  BY DEF Advanced, UploadFields
<1>4. CASE St.off + k = St.size
  <2>1. AbsSession' = Session!Idle
    BY <1>3, <1>4 DEF AbsSession, Session!Idle, St
  <2>2. Session!Advance(k)
    BY <1>1, <1>2, <1>4, <2>1 DEF Session!Advance, Session!Active
  <2>3. QED
    BY <1>2, <2>2 DEF Session!Next
<1>5. CASE St.off + k # St.size
  <2>1. AbsSession' = [AbsSession EXCEPT !.off = St.off + k]
    <3>1. St'.area_id = St.area_id /\ St'.area_id # NOAREA
      BY <1>1, <1>3, <1>5
    <3>2. AbsSession' = [area |-> St.area_id, size |-> St.size,
                         off |-> St.off + k, sha |-> St.data_sha]
      BY <1>3, <3>1 DEF AbsSession, St
    <3>3. QED
      BY <1>2, <3>2
  <2>2. Session!Advance(k)
    BY <1>1, <1>2, <1>5, <2>1 DEF Session!Advance, Session!Active
  <2>3. QED
    BY <1>2, <2>2 DEF Session!Next
<1>6. QED
  BY <1>4, <1>5


(* An honest first chunk leaves the session alone (rejected, refused or  *)
(* resumed) or opens a session on the area it selected, for its image's *)
(* size, with the bytes it wrote.                                         *)
LEMMA FirstChunkSession ==
  ASSUME FInv, NEW r, HonestFirst(r), Upload(r), nboot' = nboot
  PROVE  [Session!Next]_Session!vars
<1> USE DEF HonestFirst
<1>0. /\ r.size \in 1 .. Cap /\ r.len \in 1 .. r.size /\ NOSHA \notin Imgs
  BY ImgFacts
<1>1. CASE \/ UploadRejected(r) \/ UploadRefused(r) \/ UploadResumed(r)
            \/ UploadResynced(r) \/ UploadContinued(r)
  <2>1. UNCHANGED g_img_mgmt_state
    BY <1>1, RcFacts DEF UploadRejected, UploadRefused, UploadResumed,
                         UploadResynced, UploadContinued
  <2>2. QED
    BY <2>1 DEF AbsSession, Session!vars
<1>2. CASE UploadStarted(r)
  <2> DEFINE a  == SelectedArea(r)
             h  == IF r.sha \in Imgs THEN r.sha ELSE NOSHA
             st == [area_id |-> a, off |-> 0, size |-> r.size, data_sha |-> h]
             erase == ~LazyErase /\ ~zephyr_img_mgmt_flash_check_empty(a)
             f  == IF erase THEN ImageDataErased(flash, a, r.size) ELSE flash
             wb == WriteBytes(r, r.size)
  <2>1. a \in Slots /\ h \in {NOSHA} \cup Imgs
    BY <1>2, SelectedAreaType DEF UploadStarted, StartsUpload
  <2>2. wb \in 0 .. r.size
    BY <1>0, WriteBytesRange
  <2>0. ~(St.area_id # NOAREA /\ h # NOSHA /\ St.data_sha = h)
    BY <1>2 DEF UploadStarted, StartsUpload, Resumes, St
  <2> HIDE DEF f
  <2>3. CASE WriteChunk(st, f, r, wb)
    <3>1. g_img_mgmt_state' = st \/ g_img_mgmt_state' = Advanced(st, wb)
      BY <1>0, <2>3 DEF WriteChunk
    <3>2. CASE g_img_mgmt_state' = st
      BY <1>0, <2>0, <2>1, <3>2, OpenMaps DEF St
    <3>3. CASE g_img_mgmt_state' = Advanced(st, wb)
      <4>1. /\ St'.area_id = (IF wb = r.size THEN NOAREA ELSE a)
            /\ St'.off = wb /\ St'.size = r.size /\ St'.data_sha = h
        BY <2>2, <3>3 DEF Advanced, St
      <4>2. QED
        BY <1>0, <2>0, <2>1, <2>2, <4>1, OpenMaps
    <3>4. QED
      BY <3>1, <3>2, <3>3
  <2>4. CASE g_img_mgmt_state' = st
    BY <1>0, <2>0, <2>1, <2>4, OpenMaps DEF St
  <2>5. QED
    BY <1>2, <2>3, <2>4 DEF UploadStarted, f
<1>3. QED
  BY <1>1, <1>2 DEF Upload

(* A continuation of image i inside its image, sent while the session is *)
(* i's, leaves the session alone or advances it by the bytes it wrote,   *)
(* which never run past its size.                                         *)
LEMMA NextChunkSession ==
  ASSUME FInv, NEW i \in Imgs, NEW r, r.img = i,
         r.off \in 1 .. ImgSize[i] - 1, r.len \in 1 .. ImgSize[i] - r.off,
         SessionOf(i), Upload(r), nboot' = nboot
  PROVE  [Session!Next]_Session!vars
<1>0. ImgSize[i] \in 1 .. Cap /\ NONE < 0
  BY ImgFacts, RcFacts
<1>1. /\ DOMAIN St = UploadFields /\ St.off \in Int /\ St.size \in Int
      /\ St.area_id \in Slots \cup {NOAREA}
      /\ St.area_id = NOAREA => St.off \in {0, ImgSize[i]}
  BY DEF FInv, IInv, UploadInv, FlashTypeOK, SessionOf, St
<1>2. CASE \/ UploadRejected(r) \/ UploadRefused(r) \/ UploadResumed(r)
           \/ UploadStarted(r) \/ UploadResynced(r)
  <2>1. r.off # 0 /\ r.off # NONE
    BY <1>0
  <2>2. UNCHANGED g_img_mgmt_state
    BY <1>2, <2>1, Zenon DEF UploadRejected, UploadRefused, UploadResumed,
                             UploadStarted, StartsUpload, UploadResynced
  <2>3. QED
    BY <2>2 DEF AbsSession, Session!vars
<1>3. CASE UploadContinued(r)
  <2> DEFINE wb == WriteBytes(r, St.size)
  <2>1. /\ r.off = St.off /\ St.area_id # NOAREA /\ St.size = ImgSize[i]
    BY <1>0, <1>1, <1>3 DEF UploadContinued, SessionOf, St
  <2>2. wb \in 0 .. St.size - St.off
    <3>1. wb \in 0 .. r.len
      BY <1>0, <1>1, WriteBytesRange
    <3>2. QED
      BY <1>1, <2>1, <3>1
  <2>3. St.area_id \in Slots
    BY <1>1, <2>1
  <2>4. UNCHANGED g_img_mgmt_state \/ g_img_mgmt_state' = Advanced(St, wb)
    <3>1. r.len # 0 /\ r.off # 0
      OBVIOUS
    <3>2. CASE WriteChunk(St, flash, r, wb)
      BY <3>1, <3>2 DEF WriteChunk, St
    <3>3. QED
      BY <1>3, <2>1, <3>2 DEF UploadContinued, St
  <2>5. QED
    BY <1>1, <2>2, <2>3, <2>4, AdvanceMaps DEF AbsSession, St, Session!vars
<1>4. QED
  BY <1>2, <1>3 DEF Upload

(* Every step of the system is a step of the abstract session or leaves *)
(* it alone: uploads by the two lemmas above, a reboot abandons it, and  *)
(* the client's start, the state write and the erase command never touch *)
(* g_img_mgmt_state.                                                       *)
LEMMA SessionStep ==
  ASSUME MaxStray = 0
  PROVE  FInv /\ [Next]_vars => [Session!Next]_Session!vars
<1> SUFFICES ASSUME FInv, [Next]_vars PROVE [Session!Next]_Session!vars
  OBVIOUS
<1>1. ASSUME UNCHANGED <<g_img_mgmt_state, nboot>>
      PROVE  [Session!Next]_Session!vars
  BY <1>1 DEF AbsSession, Session!vars
<1>2. ASSUME NEW l \in ChunkLens, client.phase = "up",
             Upload(ClientRequest(l)), nboot' = nboot
      PROVE  [Session!Next]_Session!vars
  <2>1. PICK i \in Imgs : i = client.img
    BY DEF FInv, IInv, ClientInv
  <2>2. PICK r : r = ClientRequest(l)
    OBVIOUS
  <2>3. /\ client.off \in Int /\ l \in Nat \ {0} /\ ImgSize[i] \in 1 .. Cap
        /\ client.sha \in {NOSHA, i} /\ client.image \in 0 .. NSlots
    BY <2>1, CapFacts, ImgFacts DEF FInv, IInv, ClientInv, FlashTypeOK
  <2>4. CASE client.off = 0
    <3>1. HonestFirst(r)
      BY <2>1, <2>2, <2>3, <2>4 DEF ClientRequest, HonestFirst
    <3>2. QED
      BY <1>2, <2>2, <3>1, FirstChunkSession
  <2>5. CASE client.off # 0
    <3>1. 0 < client.off /\ client.off < ImgSize[i] /\ SessionOf(i)
      BY <1>2, <2>1, <2>5 DEF FInv, ClientOwnsSession
    <3>2. /\ r.img = i /\ r.off \in 1 .. ImgSize[i] - 1
          /\ r.len \in 1 .. ImgSize[i] - r.off
      BY <2>1, <2>2, <2>3, <2>5, <3>1 DEF ClientRequest
    <3>3. QED
      BY <1>2, <2>2, <3>1, <3>2, NextChunkSession
  <2>6. QED
    BY <2>4, <2>5
<1>3. ASSUME NEW r, Redelivered(r) PROVE FALSE
  BY <1>3 DEF Redelivered, FInv, FlashTypeOK
<1>4. CASE Reboot
  <2>1. AbsSession' = Session!Idle /\ nboot' = nboot + 1
    BY <1>4 DEF Reboot, InitUpload, AbsSession, Session!Idle
  <2>2. QED
    BY <2>1 DEF Session!Next, Session!Abandon
<1>5. QED
  BY <1>1, <1>2, <1>3, <1>4
  DEF Next, ClientStart, ClientSend, ClientSendLost, img_mgmt_state_write,
      img_mgmt_impl_erase_slot, vars

(* The inspect/handler pair implements the upload session of the spec   *)
(* (UploadSessionRefined, the property the main run checks): in the      *)
(* configuration of FlashNeverCorruptInvariant, every behaviour of the    *)
(* handler, seen through AbsSession and its reboot count, is a behaviour *)
(* of UploadSession: no first chunk reopens the session whose fingerprint *)
(* it carries, and only a restart abandons a session.                     *)
THEOREM UploadSessionRefinement ==
  ASSUME ScanLen = Cap, MaxStray = 0
  PROVE  Spec => UploadSessionRefined
<1>1. Init => Session!Init
  BY DEF Init, InitUpload, AbsSession, Session!Init, Session!Idle
<1>2. FInv /\ [Next]_vars => [Session!Next]_Session!vars
  BY SessionStep
<1>3. Init => FInv
  BY FInvInit
<1>4. FInv /\ [Next]_vars => FInv'
  BY FInvStep
<1>5. QED
  BY <1>1, <1>2, <1>3, <1>4, PTL DEF Spec, UploadSessionRefined, Session!Spec

=============================================================================
