----------------------------- MODULE WalWriter -----------------------------
(***************************************************************************)
(* server/storage/wal/encoder.go over pkg/ioutil/pagewriter.go: records    *)
(* become frames (a length word, data, padding), frames go through a       *)
(* buffer to the file in whole pages.  A byte is its position in the       *)
(* stream of all bytes ever encoded, so that loss, repetition and          *)
(* reordering on the way to the file show.  The file may take only a part  *)
(* of a write and fail.                                                    *)
(***************************************************************************)
EXTENDS Integers, Sequences

CONSTANTS WordBytes,    \* 8: the length field, and the alignment of frames
          SectorBytes,  \* minSectorSize
          PageBytes,    \* walPageBytes
          Watermark,    \* defaultBufferBytes
          Sizes,        \* sizes of marshalled records
          MaxBytes,     \* bound: bytes encoded
          MaxFailures   \* bound: failed writes of the file

ASSUME WalAssumption ==
  /\ WordBytes \in Nat \ {0} /\ SectorBytes \in Nat \ {0} /\ PageBytes \in Nat \ {0}
  /\ SectorBytes % WordBytes = 0 /\ PageBytes % SectorBytes = 0
  /\ Watermark \in Nat /\ PageBytes =< Watermark
  /\ Sizes \subseteq Nat \ {0} /\ MaxBytes \in Nat /\ MaxFailures \in Nat

VARIABLES pw,      \* [file, buf, pageOffset, failures]: PageWriter, and what the file took
          base,    \* file offset at which the encoder was opened (newFileEncoder)
          next,    \* bytes encoded so far
          starts   \* history: positions of the length words

vars == <<pw, base, next, starts>>

Bytes(from, n) == [k \in 1 .. n |-> from + k]
Min(a, b) == IF a =< b THEN a ELSE b

----------------------------------------------------------------------------
(* PageWriter.  A call has a set of outcomes: the new writer, and whether  *)
(* it returns an error.                                                    *)

Outcome(w, e) == [pw |-> w, err |-> e]

(* w.Write of the file (external): all of it, or a part and an error. *)
FileWrite(w, p) ==
  {Outcome([w EXCEPT !.file = @ \o p], FALSE)} \cup
  {Outcome([w EXCEPT !.file = @ \o SubSeq(p, 1, c), !.failures = @ + 1], TRUE) :
     c \in IF w.failures < MaxFailures THEN 0 .. Len(p) - 1 ELSE {}}

\* Mutant of Emptied: the offset in the page is not moved.
EmptiedInPlace(w, by) == [w EXCEPT !.buf = <<>>]

\* Mutant of Emptied: the buffered bytes stay.
EmptiedNot(w, by) == [w EXCEPT !.pageOffset = (@ + by) % PageBytes]

Emptied(w, by) == [w EXCEPT !.buf = <<>>, !.pageOffset = (@ + by) % PageBytes]

(* The buffer is given up also when the file took only a part of it. *)
flush(w) ==
  IF w.buf = <<>> THEN {Outcome(w, FALSE)}
  ELSE {Outcome(Emptied(o.pw, Len(w.buf)), o.err) : o \in FileWrite(w, w.buf)}

Buffered(w, p) == [w EXCEPT !.buf = @ \o p]

slack(w) == PageBytes - ((w.pageOffset + Len(w.buf)) % PageBytes)

(* Whole pages go to the file directly, the tail into the empty buffer     *)
(* (the recursive call, which ends there: a tail is at most a page).       *)
WritePages(w, p) ==
  LET direct == IF Len(p) > PageBytes THEN (Len(p) \div PageBytes) * PageBytes ELSE 0
      tail == SubSeq(p, direct + 1, Len(p))
  IN  IF direct = 0 THEN {Outcome(Buffered(w, p), FALSE)}
      ELSE {IF o.err THEN o ELSE Outcome(Buffered(o.pw, tail), FALSE) :
              o \in FileWrite(w, SubSeq(p, 1, direct))}

\* Mutant of Fits: the bytes to come are not counted.
FitsNow(w, p) == Len(w.buf) =< Watermark

Fits(w, p) == Len(p) + Len(w.buf) =< Watermark

(* A failed Flush is not reported: Write returns nil, the rest of p is lost. *)
Write(w, p) ==
  LET fill == IF slack(w) = PageBytes THEN 0 ELSE Min(slack(w), Len(p))
      partial == slack(w) # PageBytes /\ slack(w) > Len(p)
      filled == Buffered(w, SubSeq(p, 1, fill))
  IN  IF Fits(w, p) THEN {Outcome(Buffered(w, p), FALSE)}
      ELSE IF partial THEN {Outcome(filled, FALSE)}
      ELSE UNION {IF o.err THEN {Outcome(o.pw, FALSE)}
                  ELSE WritePages(o.pw, SubSeq(p, fill + 1, Len(p))) : o \in flush(filled)}

----------------------------------------------------------------------------
(* encoder                                                                 *)

\* Mutant of padBytes: frames are not padded.
padBytesNone(size) == 0

padBytes(size) == (WordBytes - (size % WordBytes)) % WordBytes

FrameBytes(size) == WordBytes + size + padBytes(size)

(* The length word; its buffer is one word long. *)
writeUint64(w) == Write(w, Bytes(next, WordBytes))

(* encode: the length word, and unless that failed, data and padding. *)
encode(size) ==
  /\ next + FrameBytes(size) =< MaxBytes
  /\ next' = next + FrameBytes(size)
  /\ starts' = starts \cup {next + 1}
  /\ \E o \in writeUint64(pw) :
       \/ o.err /\ pw' = o.pw
       \/ /\ ~o.err
          /\ \E d \in Write(o.pw, Bytes(next + WordBytes, FrameBytes(size) - WordBytes)) : pw' = d.pw
  /\ UNCHANGED base

(* PageWriter.Flush and FlushN, called from outside. *)
Flush ==
  /\ pw.buf # <<>>
  /\ \E o \in flush(pw) : pw' = o.pw
  /\ UNCHANGED <<base, next, starts>>

(* newFileEncoder: the file's offset, where a frame may begin. *)
FileOffsets == {b \in 0 .. PageBytes + WordBytes : b % WordBytes = 0}

Init ==
  /\ base \in FileOffsets
  /\ pw = [file |-> <<>>, buf |-> <<>>, pageOffset |-> base, failures |-> 0]
  /\ next = 0 /\ starts = {}

Next == (\E size \in Sizes : encode(size)) \/ Flush

Spec == Init /\ [][Next]_vars

----------------------------------------------------------------------------
(* Properties.                                                             *)

FileEnd == base + Len(pw.file)
Written == pw.file \o pw.buf

(* File and buffer together hold what was encoded: in order and once even  *)
(* after the file failed, and all of it as long as it did not              *)
(* (pagewriter.go:54, 74, 95).                                             *)
NothingReordered ==
  /\ \A i \in 1 .. Len(Written) - 1 : Written[i] < Written[i + 1]
  /\ pw.failures = 0 => Len(Written) = next

(* copy() into the buffer never meets its end, where it would silently     *)
(* drop bytes, whatever was left in it by partial slack writes             *)
(* (pagewriter.go:38, 54; "there is space for slack writes").              *)
NoOverrun == Len(pw.buf) =< Watermark + PageBytes

(* A Write that reaches the file leaves it at the end of a page: writes    *)
(* are "either in page chunks or from flushing" (pagewriter.go:9), also    *)
(* when the encoder was opened in the middle of a page or flushed there.   *)
PageChunks ==
  [][next' # next /\ pw'.file # pw.file /\ pw'.failures = 0 => FileEnd' % PageBytes = 0]_vars

(* In the file no length word crosses a sector, so that it is never torn   *)
(* (encoder.go:72), for all record sizes and offsets at which a file was   *)
(* opened; a failed write may break this for what follows it.              *)
LengthNotTorn ==
  pw.failures = 0 =>
    \A k \in DOMAIN pw.file :
      pw.file[k] \in starts =>
        (base + k - 1) \div SectorBytes = (base + k - 1 + WordBytes - 1) \div SectorBytes
=============================================================================
