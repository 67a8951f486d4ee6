--------------------------- MODULE UploadSession ---------------------------
(***************************************************************************)
(* What the upload session promises (spec.md, the Upload Session and its  *)
(* state machine Idle -> Active(area, size, next offset, fingerprint) ->  *)
(* Idle): a session is opened by a first chunk, superseding any other;    *)
(* within a session the area, the size and the fingerprint stay fixed    *)
(* and the next offset only grows, by the bytes written, up to the size; *)
(* the session is closed exactly when the offset reaches the size, or    *)
(* abandoned when the device restarts, and by nothing else.  A first      *)
(* chunk carrying the fingerprint of the open session resumes it: it      *)
(* never reopens it.                                                      *)
(***************************************************************************)
EXTENDS Integers

CONSTANTS
  Areas,   \* the areas a session may write
  Sizes,   \* the image sizes a first chunk may declare
  Shas,    \* the fingerprints a first chunk may carry
  NoArea,  \* the area of an idle session
  NoSha    \* the fingerprint of an idle session

VARIABLES
  session,  \* [area, size, off, sha]; area = NoArea when idle
  boots     \* the restarts of the device so far

vars == <<session, boots>>

Idle == [area |-> NoArea, size |-> 0, off |-> 0, sha |-> NoSha]

Active == session.area # NoArea

Init == session = Idle /\ boots = 0

(* The first chunk of an upload: a session on area a for n bytes, with k *)
(* of them written at once (0 if the chunk is not written); if k is all *)
(* of them the upload is complete at once.  Not for the fingerprint of  *)
(* the open session, which the resumption shortcut answers instead.      *)
Open(a, n, h, k) ==
  /\ ~(Active /\ h # NoSha /\ session.sha = h)
  /\ a \in Areas
  /\ k \in 0 .. n
  /\ session' = IF k = n THEN Idle
                ELSE [area |-> a, size |-> n, off |-> k, sha |-> h]
  /\ UNCHANGED boots

(* A continuation written at the session's offset: k more bytes. *)
Advance(k) ==
  /\ Active
  /\ k \in 0 .. session.size - session.off
  /\ session' = IF session.off + k = session.size THEN Idle
                ELSE [session EXCEPT !.off = session.off + k]
  /\ UNCHANGED boots

(* A restart of the device abandons the session. *)
Abandon == session' = Idle /\ boots' = boots + 1

Next ==
  \/ \E a \in Areas, n \in Sizes, h \in Shas : \E k \in 0 .. n :
       Open(a, n, h, k)
  \/ \E k \in 0 .. session.size - session.off : Advance(k)
  \/ Abandon

Spec == Init /\ [][Next]_vars

=============================================================================
