------------------------------ MODULE FsMgmt ------------------------------
(***************************************************************************)
(* The Zephyr port of mcumgr's file-system management: fs_mgmt_impl_write, *)
(* which keeps one file open between the chunks of an upload (the static  *)
(* "file" and "previous_path"), fs_mgmt_impl_read and the truncation by   *)
(* unlink of zephyr_fs_mgmt_truncate (src/unnamed/part_000, 1-174).       *)
(*                                                                         *)
(* The callers are the fs_mgmt command handlers, which are not part of    *)
(* this repository: they are the environment and may call the port with  *)
(* any path, offset and length.  A file is a sequence of bytes; a byte is *)
(* ZERO (a hole filled by a write past the end) or the tag of the chunk   *)
(* that wrote it.  Each file-system call may fail, at most one per port   *)
(* call and at most MaxFault in a run; a short fs_write returns a count   *)
(* below the length it was asked to write.                                *)
(***************************************************************************)
EXTENDS Integers, Sequences

CONSTANTS
  Paths,      \* the paths a request may name
  Tags,       \* the contents a chunk may carry
  MaxSize,    \* the largest offset + length a request reaches
  FaultKinds, \* the file-system calls that may fail
  MaxFault    \* bound on failed file-system calls

NULL == 0     \* previous_path == NULL
ZERO == 0     \* a byte of a hole

(* The failure points of the port, named after the call that fails. *)
AllFaults == {"stat", "unlink", "open", "malloc", "seek", "write", "short",
              "sync", "read"}
NOFAULT == "none"

ASSUME FsAssumption ==
  /\ Paths \subseteq Nat \ {0}
  /\ Tags \subseteq Nat \ {0}
  /\ MaxSize \in Nat \ {0}
  /\ FaultKinds \subseteq AllFaults
  /\ MaxFault \in Nat

(* Return codes of mgmt.h. *)
EOK == 0
EUNKNOWN == 1
ENOMEM == 2
ENOENT == 5

Bytes == Tags \cup {ZERO}

VARIABLES
  present,       \* the paths at which a regular file exists
  content,       \* content[p]: the bytes of the file at p (<<>> if none)
  file,          \* the static fs_file_t of fs_mgmt_impl_write
  previous_path, \* the static previous_path of fs_mgmt_impl_write
  last,          \* history: the last port call, its arguments and result
  nfault

vars == <<present, content, file, previous_path, last, nfault>>

Closed == [open |-> FALSE, path |-> NULL]

TypeOK ==
  /\ present \subseteq Paths
  /\ content \in [Paths -> Seq(Bytes)]
  /\ file \in [open : BOOLEAN, path : Paths \cup {NULL}]
  /\ previous_path \in Paths \cup {NULL}
  /\ nfault \in 0 .. MaxFault

Init ==
  /\ present = {}
  /\ content = [p \in Paths |-> <<>>]
  /\ file = Closed
  /\ previous_path = NULL
  /\ last = [op |-> "none"]
  /\ nfault = 0

-----------------------------------------------------------------------------
(* The file-system calls the port makes, by what they do to a file. *)

Mx(a, b) == IF a >= b THEN a ELSE b
Mn(a, b) == IF a <= b THEN a ELSE b

(* fs_seek to off, then fs_write of n bytes of tag t: a seek past the end *)
(* leaves a hole of ZERO bytes, a write of 0 bytes leaves the file alone.  *)
WriteAt(s, off, n, t) ==
  IF n = 0 THEN s
  ELSE [i \in 1 .. Mx(Len(s), off + n) |->
          IF off < i /\ i <= off + n THEN t
          ELSE IF i <= Len(s) THEN s[i] ELSE ZERO]

(* The bytes fs_write puts in the file when the step's fault is f: none   *)
(* after a failed fs_seek or fs_write, fewer than len after a short one.  *)
BytesWritten(len, f) ==
  CASE f \in {"seek", "write"} -> {0}
    [] f = "short"             -> 0 .. len - 1
    [] OTHER                   -> {len}

(* fs_mgmt_impl_filelen: fs_stat finds a regular file; any failure of     *)
(* fs_stat reads as "no file".                                            *)
fs_mgmt_impl_filelen(p, f) == p \in present /\ f # "stat"

(* zephyr_fs_mgmt_truncate unlinks the file at p, if filelen finds one;   *)
(* it fails only when fs_unlink fails.                                    *)
TruncateFails(p, f) == fs_mgmt_impl_filelen(p, f) /\ f = "unlink"
UnlinkedNever(p, f) == FALSE
Unlinked(p, f) == fs_mgmt_impl_filelen(p, f)

-----------------------------------------------------------------------------
(***************************************************************************)
(* fs_mgmt_impl_write(path, offset, data, len).  The cached file is       *)
(* reused unless the chunk is a first chunk, nothing is cached or the    *)
(* path differs from the cached one (strcmp).                            *)
(***************************************************************************)
ReopenNoStrcmp(p, off) == off = 0 \/ previous_path = NULL
Reopen(p, off) == off = 0 \/ previous_path = NULL \/ p # previous_path

WriteCall(p, off, len, t, rc) ==
  [op |-> "write", path |-> p, off |-> off, len |-> len, tag |-> t, rc |-> rc]

(* fs_seek, fs_write and fs_sync on the file open at q; the result is     *)
(* fs_sync's alone, whatever fs_seek and fs_write returned.               *)
WriteBody(pres, cont, q, p, off, len, t, f) ==
  /\ present' = pres
  /\ \E n \in BytesWritten(len, f) :
       content' = [cont EXCEPT ![q] = WriteAt(cont[q], off, n, t)]
  /\ last' = WriteCall(p, off, len, t, IF f = "sync" THEN EUNKNOWN ELSE EOK)

WriteNoMemLeak(p, pres, cont) ==
  /\ file' = [open |-> TRUE, path |-> p]
  /\ present' = pres
  /\ content' = cont

(* k_malloc of the path copy fails: the file just opened is closed. *)
WriteNoMem(p, pres, cont) ==
  /\ file' = Closed
  /\ present' = pres
  /\ content' = cont

(* On a reopen the cached file is closed and its path freed first; a     *)
(* first chunk then truncates, and the file is opened with FS_O_CREATE.  *)
fs_mgmt_impl_write(p, off, len, t, f) ==
  \/ /\ ~Reopen(p, off)
     /\ WriteBody(present, content, previous_path, p, off, len, t, f)
     /\ UNCHANGED <<file, previous_path>>
  \/ /\ Reopen(p, off)
     /\ off = 0 /\ TruncateFails(p, f)
     /\ file' = Closed /\ previous_path' = NULL
     /\ last' = WriteCall(p, off, len, t, EUNKNOWN)
     /\ UNCHANGED <<present, content>>
  \/ /\ Reopen(p, off)
     /\ ~(off = 0 /\ TruncateFails(p, f))
     /\ LET gone == off = 0 /\ Unlinked(p, f)
            pres == IF gone THEN present \ {p} ELSE present
            cont == IF gone THEN [content EXCEPT ![p] = <<>>] ELSE content
        IN \/ /\ f = "open"
              /\ file' = Closed /\ previous_path' = NULL
              /\ present' = pres /\ content' = cont
              /\ last' = WriteCall(p, off, len, t, EUNKNOWN)
           \/ /\ f = "malloc"
              /\ previous_path' = NULL
              /\ WriteNoMem(p, pres \cup {p}, cont)
              /\ last' = WriteCall(p, off, len, t, ENOMEM)
           \/ /\ f \notin {"open", "malloc"}
              /\ file' = [open |-> TRUE, path |-> p]
              /\ previous_path' = p
              /\ WriteBody(pres \cup {p}, cont, p, p, off, len, t, f)

-----------------------------------------------------------------------------
(***************************************************************************)
(* fs_mgmt_impl_read(path, offset, len): a file of its own, opened and    *)
(* closed in the call.  A failed fs_read jumps to "done" with rc still 0, *)
(* so the call returns success without setting *out_len or the buffer:   *)
(* the caller sees whatever its uninitialised variables held.             *)
(***************************************************************************)
ReadData(p, off, len, f) ==
  IF f = "read"
  THEN UNION {[1 .. k -> Bytes] : k \in 0 .. len}
  ELSE {SubSeq(content[p], off + 1, Mn(off + len, Len(content[p])))}

fs_mgmt_impl_read(p, off, len, f) ==
  /\ \E d \in ReadData(p, off, len, f) :
       last' = [op |-> "read", path |-> p, off |-> off, len |-> len,
                rc |-> CASE p \notin present \/ f = "open" -> ENOENT
                         [] f = "seek"                     -> EUNKNOWN
                         [] OTHER                          -> EOK,
                data |-> d]
  /\ UNCHANGED <<present, content, file, previous_path>>

-----------------------------------------------------------------------------
(* The fault of a port call: none, or one of FaultKinds within the bound. *)
Faults == IF nfault < MaxFault THEN FaultKinds \cup {NOFAULT} ELSE {NOFAULT}

Counted(f) == nfault' = IF f = NOFAULT THEN nfault ELSE nfault + 1

(* A request: an offset below MaxSize and a length that stays within it. *)
Reqs == {r \in [off : 0 .. MaxSize - 1, len : 1 .. MaxSize] :
           r.off + r.len <= MaxSize}

Next ==
  \E p \in Paths, r \in Reqs, f \in Faults :
    /\ Counted(f)
    /\ \/ \E t \in Tags : fs_mgmt_impl_write(p, r.off, r.len, t, f)
       \/ fs_mgmt_impl_read(p, r.off, r.len, f)

Spec == Init /\ [][Next]_vars

-----------------------------------------------------------------------------
(***************************************************************************)
(* Properties.                                                             *)
(***************************************************************************)

(* The cached previous_path names exactly the file the static handle has   *)
(* open: every exit of fs_mgmt_impl_write (truncate, open or k_malloc     *)
(* failure, success) leaves no handle open without a cached path and no   *)
(* cached path without its handle.                                        *)
CacheCoherent ==
  /\ (previous_path = NULL) <=> ~file.open
  /\ file.open => file.path = previous_path

(* A write of path p changes no other file: the cached handle is reused   *)
(* only for the path it was opened for (the strcmp of line 121).         *)
WriteStaysInPath ==
  [][last'.op = "write" =>
       \A q \in Paths \ {last'.path} :
         /\ content'[q] = content[q]
         /\ (q \in present') = (q \in present)]_vars

(* A first chunk that fs_mgmt_impl_write reports written leaves no bytes  *)
(* of an earlier, longer file behind it: "Truncate the file before        *)
(* writing the first chunk ... to properly handle an overwrite".          *)
FirstChunkTruncates ==
  [][last'.op = "write" /\ last'.off = 0 /\ last'.rc = EOK =>
       Len(content'[last'.path]) <= last'.len]_vars

(* A write that fs_mgmt_impl_write reports successful has put its bytes   *)
(* in the file at its offset.                                             *)
WriteDurable ==
  [][last'.op = "write" /\ last'.rc = EOK =>
       LET s == content'[last'.path] IN
         /\ Len(s) >= last'.off + last'.len
         /\ \A i \in last'.off + 1 .. last'.off + last'.len :
              s[i] = last'.tag]_vars

(* A read that fs_mgmt_impl_read reports successful returned the file's   *)
(* bytes from the offset, up to the length asked for.                     *)
ReadReportsFile ==
  last.op = "read" /\ last.rc = EOK =>
    last.data = SubSeq(content[last.path], last.off + 1,
                       Mn(last.off + last.len, Len(content[last.path])))

=============================================================================
