------------------------------ MODULE PkgStream ------------------------------
(***************************************************************************)
(* What mloop_io_pkg_new promises (masc/mloop.h:258-269): the bytes that   *)
(* arrive, in whatever portions, are cut behind each sentinel, and the     *)
(* packets are handed over one by one and in order.  There is no buffer    *)
(* here; IoPkg implements this specification with one.                     *)
(***************************************************************************)
EXTENDS Integers, Sequences

CONSTANTS
  Bytes,       (* the bytes that can arrive                                *)
  Sentinel,    (* the last byte of each packet                             *)
  Chunks       (* the portions in which bytes arrive                       *)

VARIABLES
  pkgCb,     (* there is a callback, or else packets are dropped           *)
  received,  (* every byte that has arrived                                *)
  taken,     (* how many of them belong to a packet that was cut off       *)
  pkg        (* the packet that is being handed over, << >> if none        *)

streamVars == <<pkgCb, received, taken, pkg>>

\* A packet that can be handed over next ends at place j.
Complete(j) ==
  /\ received[j] = Sentinel
  /\ \A k \in taken + 1 .. j - 1 : received[k] # Sentinel

StreamInit == pkgCb \in BOOLEAN /\ received = << >> /\ taken = 0 /\ pkg = << >>

\* More bytes arrive when there is nothing left to hand over.
Receive(chunk) ==
  /\ pkg = << >>
  /\ \A j \in taken + 1 .. Len(received) : received[j] # Sentinel
  /\ received' = received \o chunk
  /\ UNCHANGED <<pkgCb, taken, pkg>>

HandOver ==
  /\ pkg = << >>
  /\ \E j \in taken + 1 .. Len(received) :
       /\ Complete(j)
       /\ taken' = j
       /\ pkg' = IF pkgCb THEN SubSeq(received, taken + 1, j) ELSE << >>
  /\ UNCHANGED <<pkgCb, received>>

Taken ==
  /\ pkg # << >>
  /\ pkg' = << >>
  /\ UNCHANGED <<pkgCb, received, taken>>

StreamNext == (\E chunk \in Chunks : Receive(chunk)) \/ HandOver \/ Taken

StreamSpec == StreamInit /\ [][StreamNext]_streamVars
=============================================================================
