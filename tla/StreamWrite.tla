---------------------------- MODULE StreamWrite ----------------------------
(***************************************************************************)
(* What writing a piece promises, with no word of files: the bytes of the  *)
(* piece replace those of the stream in order, from the piece's first byte *)
(* on, nothing else changes, and a write that reports success wrote them   *)
(* all.  FileLayout implements this specification, which is what           *)
(* PieceManager takes the disk for.                                        *)
(***************************************************************************)
EXTENDS Integers, Sequences

CONSTANTS
  Offsets,       \* the byte offsets of the stream
  Contents       \* the values a byte may have

VARIABLES
  stream,        \* the bytes on disk, by offset
  begin,         \* offset of the first byte of the piece being written
  data,          \* its bytes
  next,          \* how many of them are written
  status         \* "new", "idle", "writing", "written" or "failed"

vars == <<stream, begin, data, next, status>>

Init ==
  /\ stream \in [Offsets -> Contents]
  /\ begin = 0 /\ data = <<>> /\ next = 0
  /\ status = "new"

(* Space is set aside before the first write, and may clear a byte. *)
Reserve ==
  /\ status = "new"
  /\ \E cleared \in SUBSET Offsets :
       stream' = [o \in Offsets |-> IF o \in cleared THEN 0 ELSE stream[o]]
  /\ status' \in {"new", "idle"}
  /\ UNCHANGED <<begin, data, next>>

Start ==
  /\ status \in {"idle", "written", "failed"}
  /\ status' = "writing"
  /\ begin' \in Offsets /\ data' \in Seq(Contents) /\ next' = 0
  /\ UNCHANGED stream

Put(n) ==
  /\ status = "writing"
  /\ stream' = [o \in Offsets |->
                  IF o \in begin + next .. begin + next + n - 1
                    THEN data[o - begin + 1] ELSE stream[o]]
  /\ next' = next + n
  /\ UNCHANGED <<begin, data, status>>

Finish ==
  /\ status = "writing"
  /\ next = Len(data)
  /\ status' = "written"
  /\ UNCHANGED <<stream, begin, data, next>>

(* Only a write that is not finished fails. *)
Fail ==
  /\ status = "writing"
  /\ next < Len(data)
  /\ status' = "failed"
  /\ UNCHANGED <<stream, begin, data, next>>

Next == Reserve \/ Start \/ (\E n \in 1 .. Len(data) - next : Put(n)) \/ Finish \/ Fail

Spec == Init /\ [][Next]_vars
=============================================================================
