-------------------------------- MODULE IoPkg --------------------------------
(***************************************************************************)
(* The packet reader of the main loop (src/mloop/iopkg.c).  _pkg_data_cb   *)
(* cuts what a reader has read into packets, and keeps the beginning of an *)
(* incomplete one in the object's own buffer until the rest arrives.       *)
(***************************************************************************)
EXTENDS Integers, Sequences

CONSTANTS
  Bytes,       (* the bytes that can arrive                                *)
  Sentinel,    (* self->sentinel                                           *)
  Chunks,      (* what one call of the data callback can be given          *)
  MaxReceived  (* BOUND: bytes that arrive                                 *)

ASSUME IoPkgAssumption ==
  /\ Sentinel \in Bytes
  /\ Chunks \subseteq Seq(Bytes) \ {<< >>}
  /\ MaxReceived \in Nat

VARIABLES
  pkgCb,    (* self->pkg_cb # NULL                                         *)
  pc,       (* where _pkg_data_cb is, "idle" if it is not running          *)
  chunk,    (* its argument _data                                          *)
  data,     (* what the object's buffer holds, << >> if there is none      *)
  size,     (* self->size                                                  *)
  n,        (* its local size                                              *)
  pos,      (* its local pos                                               *)
  i,        (* the index of the loop it is in                              *)
  pkg,      (* the packet its callback was called with                     *)
  received, (* history: every byte that has arrived                        *)
  taken     (* history: how many of them were cut off as packets           *)

vars == <<pkgCb, pc, chunk, data, size, n, pos, i, pkg, received, taken>>

-----------------------------------------------------------------------------
\* The local variable data: the object's buffer if there is one, or else the
\* bytes that have just arrived.
Buf == IF data # << >> THEN data ELSE chunk

\* What arrives is put behind the size bytes the buffer holds.
Grown(c) == SubSeq(data, 1, size) \o c

\* The data callback of the reader is called: never without data, and not
\* again before it has returned.
DataCb(c) ==
  /\ pc = "idle"
  /\ Len(received) + Len(c) <= MaxReceived
  /\ pc' = "scan"
  /\ chunk' = c
  /\ \/ /\ data # << >>
        /\ data' = Grown(c)
        /\ size' = size + Len(c)
        /\ n' = size + Len(c)
     \/ /\ data = << >>
        /\ n' = Len(c)
        /\ UNCHANGED <<data, size>>
  /\ pos' = 0
  /\ i' = 0
  /\ received' = received \o c
  /\ UNCHANGED <<pkgCb, pkg, taken>>

\* PLANTED BUG: the sentinel is left to the next packet.
PacketEndBefore == i

\* Behind the sentinel.
PacketEnd == i + 1

\* One byte of the search.
Search ==
  /\ pc = "scan"
  /\ i < n
  /\ Buf[i + 1] # Sentinel
  /\ i' = i + 1
  /\ UNCHANGED <<pkgCb, pc, chunk, data, size, n, pos, pkg, received, taken>>

\* The search comes to a sentinel.
Packet ==
  /\ pc = "scan"
  /\ i < n
  /\ Buf[i + 1] = Sentinel
  /\ pos' = PacketEnd
  /\ i' = i + 1
  /\ taken' = taken + PacketEnd - pos
  /\ \/ pkgCb /\ pkg' = SubSeq(Buf, pos + 1, i + 1) /\ pc' = "callback"
     \/ ~pkgCb /\ UNCHANGED <<pkg, pc>>
  /\ UNCHANGED <<pkgCb, chunk, data, size, n, received>>

\* The packet callback returns.
PkgCbReturns ==
  /\ pc = "callback"
  /\ pc' = "scan"
  /\ pkg' = << >>
  /\ UNCHANGED <<pkgCb, chunk, data, size, n, pos, i, received, taken>>

-----------------------------------------------------------------------------
SearchDone ==
  /\ pc = "scan"
  /\ i = n
  /\ size' = n - pos

\* Everything was consumed: the buffer is freed.
Drained ==
  /\ SearchDone
  /\ n = pos
  /\ pc' = "idle"
  /\ data' = << >>
  /\ UNCHANGED <<pkgCb, chunk, n, pos, i, pkg, received, taken>>

\* A rest, and no buffer yet: one is made.
Stored ==
  /\ SearchDone
  /\ n # pos
  /\ data = << >>
  /\ pc' = "idle"
  /\ data' = SubSeq(Buf, pos + 1, n)
  /\ UNCHANGED <<pkgCb, chunk, n, pos, i, pkg, received, taken>>

\* No packet was found: the buffer stays as it is.
Kept ==
  /\ SearchDone
  /\ n # pos
  /\ data # << >>
  /\ pos = 0
  /\ pc' = "idle"
  /\ UNCHANGED <<pkgCb, chunk, data, n, pos, i, pkg, received, taken>>

\* A rest behind packets: it is copied to the beginning of the buffer ...
MoveBegin ==
  /\ SearchDone
  /\ n # pos
  /\ data # << >>
  /\ pos > 0
  /\ pc' = "move"
  /\ i' = 0
  /\ UNCHANGED <<pkgCb, chunk, data, n, pos, pkg, received, taken>>

\* PLANTED BUG: from the last byte to the first, as some memcpy() do.
MovedDown ==
  [data EXCEPT ![size - i] = data[pos + size - i]]

\* ... from its first byte to its last, source and destination may overlap ...
Moved ==
  [data EXCEPT ![i + 1] = data[pos + i + 1]]

Move ==
  /\ pc = "move"
  /\ i < size
  /\ data' = Moved
  /\ i' = i + 1
  /\ UNCHANGED <<pkgCb, pc, chunk, size, n, pos, pkg, received, taken>>

\* PLANTED BUG: the buffer keeps its old size.
ShrunkNot == data

\* ... and the buffer is made smaller.
Shrunk == SubSeq(data, 1, size)

MoveDone ==
  /\ pc = "move"
  /\ i = size
  /\ pc' = "idle"
  /\ data' = Shrunk
  /\ UNCHANGED <<pkgCb, chunk, size, n, pos, i, pkg, received, taken>>

-----------------------------------------------------------------------------
\* _pkg_vinit
Init ==
  /\ pkgCb \in BOOLEAN
  /\ pc = "idle"
  /\ chunk = << >>
  /\ data = << >>
  /\ size = 0
  /\ n = 0 /\ pos = 0 /\ i = 0
  /\ pkg = << >>
  /\ received = << >>
  /\ taken = 0

\* The steps of _pkg_data_cb.
Handler ==
  \/ Search \/ Packet \/ PkgCbReturns
  \/ Drained \/ Stored \/ Kept \/ MoveBegin \/ Move \/ MoveDone

Next == (\E c \in Chunks : DataCb(c)) \/ Handler

Spec == Init /\ [][Next]_vars

(* Fairness: the thread runs and callbacks return.  Nothing is assumed of   *)
(* the arrival of data.                                                     *)
FairSpec == Spec /\ WF_vars(Handler)

-----------------------------------------------------------------------------
TypeOK ==
  /\ pkgCb \in BOOLEAN
  /\ pc \in {"idle", "scan", "callback", "move"}
  /\ chunk \in Seq(Bytes)
  /\ data \in Seq(Bytes)
  /\ size \in Nat /\ n \in Nat /\ pos \in Nat /\ i \in Nat
  /\ pkg \in Seq(Bytes)
  /\ received \in Seq(Bytes)
  /\ taken \in 0 .. Len(received)

\* Between two calls the buffer holds exactly the bytes that have arrived and
\* were not cut off yet, whatever portions they came in (iopkg.c:30-57).
BufferIsRest ==
  pc = "idle" => /\ data = SubSeq(received, taken + 1, Len(received))
                 /\ size = Len(data)

\* The packet reader is a packet stream: what is handed over are the bytes up
\* to and with the next sentinel, none twice, none left out, none changed by
\* the moves in the buffer (iopkg.c:19-28).
Stream == INSTANCE PkgStream
ImplementsStream == Stream!StreamSpec

\* A packet whose sentinel has arrived is handed over before any more data
\* are waited for.
PacketsHandedOver ==
  \A j \in 1 .. MaxReceived :
    (j <= Len(received) /\ received[j] = Sentinel) ~> (taken >= j)
=============================================================================
