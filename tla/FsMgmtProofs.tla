--------------------------- MODULE FsMgmtProofs ---------------------------
(***************************************************************************)
(* Proofs about FsMgmt, for every value of the constants: the cache of    *)
(* fs_mgmt_impl_write stays coherent, a write never changes another path, *)
(* and a first chunk reported written leaves no remnant unless fs_stat    *)
(* can fail.                                                              *)
(***************************************************************************)
EXTENDS FsMgmt, SequenceTheorems, TLAPS

(* The inductive invariant.  Besides the types and the coherence of the   *)
(* cache, it records that the file a cached path names exists (nothing   *)
(* but a reopen of that path unlinks it) and that a path with no file has *)
(* no bytes, so that creating a file after an unlink creates it empty.    *)
CachedPresent == previous_path # NULL => previous_path \in present
AbsentEmpty == \A p \in Paths \ present : content[p] = <<>>

(* The part of the invariant about the file system and the cache. *)
StoreInv ==
  /\ present \subseteq Paths
  /\ content \in [Paths -> Seq(Bytes)]
  /\ file \in [open : BOOLEAN, path : Paths \cup {NULL}]
  /\ previous_path \in Paths \cup {NULL}
  /\ CacheCoherent /\ CachedPresent /\ AbsentEmpty

IInv == StoreInv /\ nfault \in 0 .. MaxFault

(* What a write step of path p leaves of every other path. *)
OthersKept(p) ==
  \A q \in Paths \ {p} : content'[q] = content[q] /\ (q \in present') = (q \in present)

(* A first chunk reported written: at most its length is in the file. *)
NoRemnant(p, off, len) ==
  off = 0 /\ last'.rc = EOK => Len(content'[p]) <= len

-----------------------------------------------------------------------------
(* Writing n bytes of a chunk at an offset keeps a file a byte sequence.  *)
LEMMA WriteAtType ==
  ASSUME NEW s \in Seq(Bytes), NEW off \in Nat, NEW n \in Nat,
         NEW t \in Bytes
  PROVE  WriteAt(s, off, n, t) \in Seq(Bytes)
<1>1. CASE n = 0
  BY <1>1 DEF WriteAt
<1>2. CASE n # 0
  <2> DEFINE k == Mx(Len(s), off + n)
  <2>1. k \in Nat /\ Len(s) \in Nat
    BY DEF Mx
  <2>2. \A i \in 1 .. k :
          (IF off < i /\ i <= off + n THEN t
           ELSE IF i <= Len(s) THEN s[i] ELSE ZERO) \in Bytes
    BY <2>1, ElementOfSeq DEF Bytes
  <2>3. [i \in 1 .. k |-> IF off < i /\ i <= off + n THEN t
                         ELSE IF i <= Len(s) THEN s[i] ELSE ZERO]
          \in Seq(Bytes)
    BY <2>1, <2>2, SeqDef
  <2>4. QED
    BY <1>2, <2>3 DEF WriteAt
<1>3. QED
  BY <1>1, <1>2

(* Writing n bytes at offset 0 of an empty file leaves a file of n bytes. *)
LEMMA WriteAtEmptyLen ==
  ASSUME NEW n \in Nat, NEW t
  PROVE  Len(WriteAt(<<>>, 0, n, t)) = n
<1>1. CASE n = 0
  BY <1>1 DEF WriteAt
<1>2. CASE n # 0
  <2>1. Mx(Len(<<>>), 0 + n) = n
    BY <1>2 DEF Mx
  <2>2. QED
    BY <1>2, <2>1 DEF WriteAt
<1>3. QED
  BY <1>1, <1>2

(* The bytes one fs_write puts in a file are between 0 and its length. *)
LEMMA BytesWrittenRange ==
  ASSUME NEW len \in Nat, NEW f
  PROVE  BytesWritten(len, f) \subseteq 0 .. len
BY DEF BytesWritten

(* The truncation of a first chunk keeps the file table well formed. *)
LEMMA TruncateKeeps ==
  ASSUME StoreInv, NEW p \in Paths, NEW gone \in BOOLEAN,
         gone => p \in present
  PROVE  LET pres == IF gone THEN present \ {p} ELSE present
             cont == IF gone THEN [content EXCEPT ![p] = <<>>] ELSE content
         IN  /\ pres \subseteq Paths
             /\ cont \in [Paths -> Seq(Bytes)]
             /\ \A q \in Paths \ pres : cont[q] = <<>>
             /\ \A q \in Paths \ {p} : cont[q] = content[q]
                                      /\ (q \in pres) = (q \in present)
             /\ cont[p] = IF gone THEN <<>> ELSE content[p]
<1>1. <<>> \in Seq(Bytes)
  BY EmptySeq
<1>2. QED
  BY <1>1 DEF StoreInv, AbsentEmpty

(* A write through the cached handle: the path is the cached one. *)
LEMMA WriteCached ==
  ASSUME StoreInv, NEW p \in Paths, NEW off \in Nat, NEW len \in Nat,
         NEW t \in Tags, NEW f,
         ~Reopen(p, off),
         WriteBody(present, content, previous_path, p, off, len, t, f),
         UNCHANGED <<file, previous_path>>
  PROVE  StoreInv' /\ OthersKept(p) /\ last'.op = "write" /\ last'.path = p
         /\ NoRemnant(p, off, len)
<1>1. previous_path = p /\ p \in present /\ content[p] \in Seq(Bytes)
  BY DEF Reopen, StoreInv, CachedPresent
<1>2. PICK n \in BytesWritten(len, f) :
        content' = [content EXCEPT ![p] = WriteAt(content[p], off, n, t)]
  BY <1>1 DEF WriteBody
<1>3. n \in Nat
  BY BytesWrittenRange
<1>4. WriteAt(content[p], off, n, t) \in Seq(Bytes)
  BY <1>1, <1>3, WriteAtType DEF Bytes
<1>5. present' = present /\ last' = WriteCall(p, off, len, t,
                                      IF f = "sync" THEN EUNKNOWN ELSE EOK)
  BY DEF WriteBody
<1>6. StoreInv'
  BY <1>1, <1>2, <1>4, <1>5
  DEF StoreInv, CacheCoherent, CachedPresent, AbsentEmpty
<1>7. QED
  BY <1>1, <1>2, <1>5, <1>6 DEF OthersKept, WriteCall, NoRemnant, Reopen

(* A write that reopens: a truncate failure leaves the files alone; an    *)
(* open or k_malloc failure leaves the truncated files and nothing cached; *)
(* a success caches the path of the file it opened.  Only a first chunk   *)
(* truncates, and only a failed fs_stat spares an existing file.          *)
LEMMA WriteReopened ==
  ASSUME StoreInv, NEW p \in Paths, NEW off \in Nat, NEW len \in Nat,
         NEW t \in Tags, NEW f \in FaultKinds \cup {NOFAULT},
         Reopen(p, off),
         \/ /\ off = 0 /\ TruncateFails(p, f)
            /\ file' = Closed /\ previous_path' = NULL
            /\ last' = WriteCall(p, off, len, t, EUNKNOWN)
            /\ UNCHANGED <<present, content>>
         \/ /\ ~(off = 0 /\ TruncateFails(p, f))
            /\ LET gone == off = 0 /\ Unlinked(p, f)
                   pres == IF gone THEN present \ {p} ELSE present
                   cont == IF gone THEN [content EXCEPT ![p] = <<>>]
                           ELSE content
               IN \/ /\ f = "open"
                     /\ file' = Closed /\ previous_path' = NULL
                     /\ present' = pres /\ content' = cont
                     /\ last' = WriteCall(p, off, len, t, EUNKNOWN)
                  \/ /\ f = "malloc"
                     /\ previous_path' = NULL
                     /\ WriteNoMem(p, pres \cup {p}, cont)
                     /\ last' = WriteCall(p, off, len, t, ENOMEM)
                  \/ /\ f \notin {"open", "malloc"}
                     /\ file' = [open |-> TRUE, path |-> p]
                     /\ previous_path' = p
                     /\ WriteBody(pres \cup {p}, cont, p, p, off, len, t, f)
  PROVE  StoreInv' /\ OthersKept(p) /\ last'.op = "write" /\ last'.path = p
         /\ ("stat" \notin FaultKinds => NoRemnant(p, off, len))
<1> DEFINE gone == off = 0 /\ Unlinked(p, f)
           pres == IF gone THEN present \ {p} ELSE present
           cont == IF gone THEN [content EXCEPT ![p] = <<>>] ELSE content
<1>1. Closed \in [open : BOOLEAN, path : Paths \cup {NULL}]
  BY DEF Closed
<1>2. CASE off = 0 /\ TruncateFails(p, f)
  <2>1. file' = Closed /\ previous_path' = NULL
        /\ last' = WriteCall(p, off, len, t, EUNKNOWN)
        /\ UNCHANGED <<present, content>>
    BY <1>2
  <2>2. QED
    BY <1>1, <2>1 DEF StoreInv, CacheCoherent, CachedPresent, AbsentEmpty,
                      Closed, OthersKept, WriteCall, NoRemnant, EUNKNOWN, EOK
<1>3. CASE ~(off = 0 /\ TruncateFails(p, f))
  <2>1. gone \in BOOLEAN /\ (gone => p \in present)
    BY DEF Unlinked, fs_mgmt_impl_filelen
  <2>2. /\ pres \subseteq Paths
        /\ cont \in [Paths -> Seq(Bytes)]
        /\ \A q \in Paths \ pres : cont[q] = <<>>
        /\ \A q \in Paths \ {p} : cont[q] = content[q]
                                 /\ (q \in pres) = (q \in present)
        /\ cont[p] = IF gone THEN <<>> ELSE content[p]
    BY <2>1, TruncateKeeps
  <2>3. "stat" \notin FaultKinds /\ off = 0 => cont[p] = <<>>
    BY <2>2 DEF Unlinked, fs_mgmt_impl_filelen, NOFAULT, StoreInv,
                AbsentEmpty
  <2>4. CASE /\ f = "open"
             /\ file' = Closed /\ previous_path' = NULL
             /\ present' = pres /\ content' = cont
             /\ last' = WriteCall(p, off, len, t, EUNKNOWN)
    BY <1>1, <2>2, <2>4 DEF StoreInv, CacheCoherent, CachedPresent,
                            AbsentEmpty, Closed, OthersKept, WriteCall,
                            NoRemnant, EUNKNOWN, EOK
  <2>5. CASE /\ f = "malloc"
             /\ previous_path' = NULL
             /\ WriteNoMem(p, pres \cup {p}, cont)
             /\ last' = WriteCall(p, off, len, t, ENOMEM)
    BY <1>1, <2>2, <2>5 DEF WriteNoMem, StoreInv, CacheCoherent,
                            CachedPresent, AbsentEmpty, Closed, OthersKept,
                            WriteCall, NoRemnant, ENOMEM, EOK
  <2>6. CASE /\ f \notin {"open", "malloc"}
             /\ file' = [open |-> TRUE, path |-> p]
             /\ previous_path' = p
             /\ WriteBody(pres \cup {p}, cont, p, p, off, len, t, f)
    <3>1. PICK n \in BytesWritten(len, f) :
            content' = [cont EXCEPT ![p] = WriteAt(cont[p], off, n, t)]
      BY <2>6 DEF WriteBody
    <3>2. n \in 0 .. len
      BY BytesWrittenRange
    <3>3. WriteAt(cont[p], off, n, t) \in Seq(Bytes)
      <4>1. cont[p] \in Seq(Bytes) /\ n \in Nat /\ t \in Bytes
        BY <2>2, <3>2 DEF Bytes
      <4>2. QED
        BY <4>1, WriteAtType
    <3>4. /\ present' = pres \cup {p}
          /\ last' = WriteCall(p, off, len, t,
                               IF f = "sync" THEN EUNKNOWN ELSE EOK)
      <4>1. WriteBody(pres \cup {p}, cont, p, p, off, len, t, f)
        BY <2>6
      <4>2. QED
        BY <4>1 DEF WriteBody
    <3>5. StoreInv'
      BY <2>2, <2>6, <3>1, <3>3, <3>4
      , FsAssumption
      DEF StoreInv, CacheCoherent, CachedPresent, AbsentEmpty, NULL
    <3>6. "stat" \notin FaultKinds => NoRemnant(p, off, len)
      <4> SUFFICES ASSUME "stat" \notin FaultKinds, off = 0,
                          last'.rc = EOK
                   PROVE  Len(content'[p]) <= len
        BY DEF NoRemnant
      <4>1. content'[p] = WriteAt(<<>>, 0, n, t)
        BY <2>2, <2>3, <3>1
      <4>2. QED
        BY <3>2, <4>1, WriteAtEmptyLen
    <3>7. QED
      BY <2>2, <3>1, <3>4, <3>5, <3>6 DEF OthersKept, WriteCall
  <2>7. QED
    BY <1>3, <2>4, <2>5, <2>6
<1>4. QED
  BY <1>2, <1>3

(* The body of WriteStaysInPath and of FirstChunkTruncates, for the step *)
(* lemma below.                                                          *)
StaysInPath ==
  last'.op = "write" =>
    \A q \in Paths \ {last'.path} :
      /\ content'[q] = content[q]
      /\ (q \in present') = (q \in present)
Truncates ==
  last'.op = "write" /\ last'.off = 0 /\ last'.rc = EOK =>
    Len(content'[last'.path]) <= last'.len

(* Every step keeps IInv, writes no other path than the one it names and, *)
(* if fs_stat cannot fail, leaves no remnant after a first chunk.         *)
LEMMA StepKeeps ==
  ASSUME IInv, Next
  PROVE  /\ IInv'
         /\ StaysInPath
         /\ "stat" \notin FaultKinds => Truncates
<1>1. PICK p \in Paths, r \in Reqs, f \in Faults :
        /\ Counted(f)
        /\ \/ \E t \in Tags : fs_mgmt_impl_write(p, r.off, r.len, t, f)
           \/ fs_mgmt_impl_read(p, r.off, r.len, f)
  BY DEF Next
<1>2. r.off \in Nat /\ r.len \in Nat /\ f \in FaultKinds \cup {NOFAULT}
  BY FsAssumption DEF Reqs, Faults
<1>3. nfault' \in 0 .. MaxFault
  BY <1>1, FsAssumption DEF IInv, Counted, Faults
<1>4. CASE \E t \in Tags : fs_mgmt_impl_write(p, r.off, r.len, t, f)
  <2>1. PICK t \in Tags : fs_mgmt_impl_write(p, r.off, r.len, t, f)
    BY <1>4
  <2>2. /\ StoreInv' /\ OthersKept(p) /\ last'.op = "write"
        /\ last'.path = p /\ last' = WriteCall(p, r.off, r.len, t, last'.rc)
        /\ ("stat" \notin FaultKinds => NoRemnant(p, r.off, r.len))
    <3>1. CASE ~Reopen(p, r.off)
      <4>1. /\ WriteBody(present, content, previous_path, p, r.off, r.len, t, f)
            /\ UNCHANGED <<file, previous_path>>
        BY <2>1, <3>1 DEF fs_mgmt_impl_write
      <4>2. last' = WriteCall(p, r.off, r.len, t, last'.rc)
        BY <4>1 DEF WriteBody, WriteCall
      <4>3. QED
        BY <1>2, <3>1, <4>1, <4>2, WriteCached DEF IInv
    <3>2. CASE Reopen(p, r.off)
      <4>1. last' = WriteCall(p, r.off, r.len, t, last'.rc)
        BY <2>1, <3>2 DEF fs_mgmt_impl_write, WriteBody, WriteNoMem, WriteCall
      <4>2. QED
        BY <1>2, <2>1, <3>2, <4>1, WriteReopened DEF IInv, fs_mgmt_impl_write
    <3>3. QED
      BY <3>1, <3>2
  <2>3. QED
    BY <1>3, <2>2 DEF IInv, StaysInPath, Truncates, OthersKept, NoRemnant,
                      WriteCall
<1>5. CASE fs_mgmt_impl_read(p, r.off, r.len, f)
  <2>1. /\ UNCHANGED <<present, content, file, previous_path>>
        /\ last'.op = "read"
    BY <1>5 DEF fs_mgmt_impl_read
  <2>2. QED
    BY <1>3, <2>1 DEF IInv, StoreInv, CacheCoherent, CachedPresent,
                      AbsentEmpty, StaysInPath, Truncates
<1>6. QED
  BY <1>1, <1>4, <1>5

(* IInv holds initially and is kept by every step. *)
LEMMA IInvInductive == Spec => []IInv
<1>1. Init => IInv
  <2>1. <<>> \in Seq(Bytes)
    BY EmptySeq
  <2>2. QED
    BY <2>1, FsAssumption
    DEF Init, IInv, StoreInv, CacheCoherent, CachedPresent, AbsentEmpty,
        Closed
<1>2. IInv /\ [Next]_vars => IInv'
  BY StepKeeps DEF IInv, StoreInv, CacheCoherent, CachedPresent,
                   AbsentEmpty, vars
<1>3. QED
  BY <1>1, <1>2, PTL DEF Spec

-----------------------------------------------------------------------------
(* The static file handle of fs_mgmt_impl_write is open exactly when      *)
(* previous_path is set, and on that path, in every reachable state: no   *)
(* failure exit leaks the handle or keeps a freed path.                   *)
THEOREM CacheCoherentInvariant == Spec => []CacheCoherent
<1>1. IInv => CacheCoherent
  BY DEF IInv, StoreInv
<1>2. QED
  BY <1>1, IInvInductive, PTL

(* No call of fs_mgmt_impl_write changes a file other than the one its    *)
(* path names: the cached handle serves only its own path.                *)
THEOREM WriteStaysInPathHolds == Spec => WriteStaysInPath
<1>1. IInv /\ [Next]_vars => [StaysInPath]_vars
  BY StepKeeps
<1>2. QED
  BY <1>1, IInvInductive, PTL DEF Spec, WriteStaysInPath, StaysInPath

(* When fs_stat does not fail, a first chunk that fs_mgmt_impl_write      *)
(* reports written leaves no bytes of an earlier file behind it.          *)
THEOREM FirstChunkTruncatesHolds ==
  ASSUME "stat" \notin FaultKinds
  PROVE  Spec => FirstChunkTruncates
<1>1. IInv /\ [Next]_vars => [Truncates]_vars
  BY StepKeeps
<1>2. QED
  BY <1>1, IInvInductive, PTL DEF Spec, FirstChunkTruncates, Truncates

=============================================================================
