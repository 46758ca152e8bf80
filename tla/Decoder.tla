------------------------------ MODULE Decoder -------------------------------
(***************************************************************************)
(* unmarshal of utils.go: decodes a stream of records that it reads        *)
(* through a buffer, and calls f on each with its offset in the stream.    *)
(* The tree and the index of a batch are computed from what it delivers.   *)
(*                                                                         *)
(* A byte is represented by its position in the stream, so that a byte     *)
(* that is lost, repeated or moved is not the byte it should be.  Record i *)
(* of a stream ends at position ends[i], and the stream after size bytes,  *)
(* perhaps inside of its last record.  A complete record is                *)
(*   "ok"     decoded without error,                                       *)
(*   "bad"    refused with an error other than ErrTruncated,               *)
(*   "short"  refused with ErrTruncated, as a TLS subject that is too      *)
(*            short for its fields.                                        *)
(***************************************************************************)
EXTENDS Integers, SequencesExt

CONSTANTS
  Streams,  \* the streams considered
  InitLen,  \* initial length of the buffer (512 in the code)
  MaxSize   \* maxSize of a record

Kinds == {"ok", "bad", "short"}

Start(str, i) == IF i = 1 THEN 0 ELSE str.ends[i - 1]

ASSUME DecoderAssumption ==
  /\ InitLen \in Nat \ {0} /\ MaxSize \in Nat /\ InitLen <= MaxSize
  /\ \A str \in Streams :
       /\ str.ends \in Seq(Nat) /\ str.size \in Nat
       /\ str.kind \in [DOMAIN str.ends -> Kinds]
       /\ \A i \in DOMAIN str.ends :
            /\ str.ends[i] - Start(str, i) \in 1..MaxSize
            /\ \A j \in 1..i - 1 : str.ends[j] < str.ends[i]
       /\ str.ends = <<>> => str.size = 0
       /\ str.ends # <<>> => str.size <= Last(str.ends)

VARIABLES
  stream,  \* the stream
  full,    \* whether Read fills the buffer when it can, as that of a file
  idles,   \* whether Read may return no bytes and no error in mid-stream,
           \* which an io.Reader may, though no reader in use here does
  pos,     \* bytes read from the stream
  buf,     \* the buffer; 0 is a byte that was never read
  from,    \* where s begins in buf
  len,     \* length of s
  offset,  \* offset of s in the stream
  got,     \* the calls of f: record and offset
  pc       \* "decode", "read", or what unmarshal returned

input == <<stream, full, idles>>
slice == <<from, len>>
vars == <<input, pos, buf, slice, offset, got, pc>>

Zeros(n) == [k \in 1..n |-> 0]

Init ==
  /\ stream \in Streams /\ full \in BOOLEAN /\ idles \in BOOLEAN
  /\ pos = 0
  /\ buf = Zeros(InitLen)
  /\ from = 0 /\ len = 0 /\ offset = 0
  /\ got = <<>>
  /\ pc = "decode"

-----------------------------------------------------------------------------
(* Decoding what is in the buffer.                                         *)

s == SubSeq(buf, from + 1, from + len)

Bytes(i) == [k \in 1..stream.ends[i] - Start(stream, i) |-> Start(stream, i) + k]

Records == DOMAIN stream.ends

(* The record that s begins with.                                          *)
Decodes(i) == i \in Records /\ IsPrefix(Bytes(i), s)

IsTruncated ==
  \/ s = <<>>
  \/ \E i \in Records : IsStrictPrefix(s, Bytes(i))
  \/ \E i \in Records : Decodes(i) /\ stream.kind[i] = "short"

Decoded == \E i \in Records : Decodes(i) /\ stream.kind[i] = "ok"

Return(result) == pc' = result /\ UNCHANGED <<input, pos, buf, slice, offset, got>>

(* Success: f is called, s and offset move on.                             *)
Deliver ==
  /\ pc = "decode"
  /\ \E i \in Records :
       /\ Decodes(i) /\ stream.kind[i] = "ok"
       /\ got' = Append(got, [record |-> i, offset |-> offset])
       /\ from' = from + Len(Bytes(i))
       /\ len' = len - Len(Bytes(i))
       /\ offset' = offset + Len(Bytes(i))
  /\ UNCHANGED <<input, pos, buf, pc>>

(* f returns an error.                                                     *)
CallbackFails == pc = "decode" /\ Decoded /\ Return("callback")

Refuse == pc = "decode" /\ ~Decoded /\ ~IsTruncated /\ Return("bad")

(* There was a success since the last read exactly if the capacity of s is *)
(* not that of buf, that is, if s does not begin where buf does.           *)
Advanced == from # 0

\* The bytes are not moved.
Moved_Not == buf

Moved == [k \in DOMAIN buf |-> IF k <= len THEN s[k] ELSE buf[k]]

MoveToFront ==
  /\ pc = "decode" /\ IsTruncated /\ Advanced
  /\ buf' = Moved
  /\ pc' = "read"
  /\ UNCHANGED <<input, pos, slice, offset, got>>

\* Gives up one doubling too early.
AtLimit_Early == 2 * Len(buf) > MaxSize

AtLimit == Len(buf) > MaxSize

\* The buffer keeps its length.
Grown_Not == buf

Grown == buf \o Zeros(Len(buf))

Grow ==
  /\ pc = "decode" /\ IsTruncated /\ ~Advanced
  /\ ~AtLimit
  /\ buf' = Grown
  /\ pc' = "read"
  /\ UNCHANGED <<input, pos, slice, offset, got>>

GiveUp ==
  /\ pc = "decode" /\ IsTruncated /\ ~Advanced
  /\ AtLimit
  /\ Return("unexpected")

-----------------------------------------------------------------------------
(* Reading behind the bytes that are left.                                 *)

Room == Len(buf) - len

Remaining == stream.size - pos

Smaller(m, n) == IF m < n THEN m ELSE n

Read(n) ==
  /\ pc = "read"
  /\ n \in 1..Smaller(Room, Remaining)
  /\ full => n = Smaller(Room, Remaining)
  /\ buf' = [k \in DOMAIN buf |-> IF k \in len + 1..len + n THEN pos + k - len ELSE buf[k]]
  /\ pos' = pos + n
  /\ from' = 0
  /\ len' = len + n
  /\ pc' = "decode"
  /\ UNCHANGED <<input, offset, got>>

MayReadNothing == Room = 0 \/ Remaining = 0 \/ idles

\* Read is called again.
ReadNothing_Again == pc = "read" /\ MayReadNothing /\ UNCHANGED vars

(* Read returns no bytes: at the end of the stream, or with no error, for  *)
(* want of room or because it has none yet.  Either way unmarshal returns  *)
(* nil.                                                                    *)
ReadNothing == pc = "read" /\ MayReadNothing /\ Return("nil")

ReadFails == pc = "read" /\ Return("io")

Step ==
  \/ Deliver
  \/ Refuse
  \/ MoveToFront
  \/ Grow
  \/ GiveUp
  \/ \E n \in 1..stream.size : Read(n)
  \/ ReadNothing

Next == Step \/ CallbackFails \/ ReadFails

Spec == Init /\ [][Next]_vars

(* unmarshal is sequential, and Read returns: bytes, nothing, or the end   *)
(* of the stream.  No error is needed to make it stop.                     *)
FairSpec == Spec /\ WF_vars(Step)

-----------------------------------------------------------------------------
(* Properties.                                                             *)

Complete(i) == i \in Records /\ stream.ends[i] <= stream.size

Due == Len(got) + 1

(* f is called on the complete records of the stream, in order, each once  *)
(* and with its own offset, wherever the reads cut the stream: sequence    *)
(* numbers and offsets in the index rest on this.                          *)
DeliveredRight ==
  \A i \in DOMAIN got :
    Complete(i) /\ got[i] = [record |-> i, offset |-> Start(stream, i)]

(* When unmarshal returns nil, no well-formed record is missing: it has    *)
(* stopped at the end of the stream, or at one that claims to be truncated *)
(* (utils.go:81 gives up there without an error).  This is said of readers *)
(* that return bytes as long as there are some: the first Read that does   *)
(* not ends the stream for unmarshal, whatever is left of it.              *)
NothingDropped ==
  pc = "nil" /\ ~idles /\ Complete(Due) => stream.kind[Due] = "short"

(* An error is about the record that is due.  In particular "Unexpected    *)
(* ErrTruncated" is not reported for a complete and well-formed record,    *)
(* however large, as long as every read fills the buffer.                  *)
HonestError ==
  /\ pc = "bad" => Complete(Due) /\ stream.kind[Due] = "bad"
  /\ pc = "unexpected" /\ full =>
       Due \in Records /\ (Complete(Due) => stream.kind[Due] = "short")

(* unmarshal returns: it grows the buffer at most up to a limit, and       *)
(* otherwise consumes.                                                     *)
UnmarshalReturns == <>(pc \notin {"decode", "read"})

-----------------------------------------------------------------------------
(* What makes them hold.                                                   *)

(* The values of the variables.                                            *)
TypeOK ==
  /\ stream \in Streams /\ full \in BOOLEAN /\ idles \in BOOLEAN
  /\ pos \in 0..stream.size
  /\ buf \in Seq(Nat) /\ Len(buf) >= InitLen
  /\ from \in Nat /\ len \in Nat /\ from + len <= Len(buf)
  /\ offset \in Nat
  /\ got \in Seq([record : Nat, offset : Nat])
  /\ pc \in {"decode", "read", "callback", "bad", "unexpected", "nil", "io"}

(* s holds what was read of the stream from offset on, at the front of the *)
(* buffer when more is about to be read, and all before was delivered.     *)
Window ==
  /\ pos = offset + len
  /\ pc \in {"decode", "read"} =>
       \A k \in 1..len : buf[k + IF pc = "read" THEN 0 ELSE from] = offset + k
  /\ Due \in 1..Len(stream.ends) + 1
  /\ offset = Start(stream, Due)

(* Before a read there is room, and the record that is due is not in the   *)
(* buffer, or claims to be truncated.                                      *)
Pending ==
  pc = "read" =>
    /\ len < Len(buf)
    /\ Due \in Records => stream.ends[Due] > pos \/ stream.kind[Due] = "short"

(* After a read that fills the buffer it is full, or the stream is over.   *)
Filled ==
  pc = "decode" /\ from = 0 =>
    \/ pos = 0 /\ Len(buf) = InitLen
    \/ len > 0 /\ (full => len = Len(buf) \/ pos = stream.size)

IndInv ==
  TypeOK /\ Window /\ Pending /\ Filled /\ DeliveredRight /\ NothingDropped /\ HonestError
=============================================================================
