------------------------------- MODULE Index --------------------------------
(***************************************************************************)
(* The index file of a batch (ca/index.go).  ComputeIndex reads the        *)
(* abridged-assertions of the batch, sorts their keys and writes one entry *)
(* per key; Search looks a key up by interpolation.                        *)
(*                                                                         *)
(* An assertion is abstracted to its key, a number in 0..KeyMax (hashes do *)
(* not collide, and KeyMax is 2^256 - 1 in the code).  Positions in the    *)
(* file count entries, and start at 0.                                     *)
(***************************************************************************)
EXTENDS Integers, Sequences, Functions

CONSTANTS
  KeyMax,   \* the largest key, 0xff...ff
  Size,     \* length in bytes of the assertion that has a given key
  Streams,  \* contents that the abridged-assertions file may have
  Nil       \* no result

Keys == 0..KeyMax

ASSUME IndexAssumption ==
  /\ KeyMax \in Nat \ {0}
  /\ Size \in [Keys -> Nat \ {0}]
  /\ Streams \subseteq Seq(Keys)

VARIABLES
  stream,   \* abridged-assertions: the keys, in the order of the batch
  phase,    \* what happens next
  offset,   \* ComputeIndex: bytes read so far
  entries,  \* ComputeIndex: entries read, later sorted
  pos,      \* ComputeIndex: entries already looked at when writing
  lastKey,  \* ComputeIndex: key written last
  file,     \* the index file
  needle,   \* Search: the key looked for
  i, j,     \* Search: the positions still possible
  a, b,     \* Search: bounds of the keys at these positions
  result    \* Search: the entry found, or Nil

building  == <<offset, entries, pos, lastKey>>
searching == <<needle, i, j, a, b, result>>
vars == <<stream, phase, building, file, searching>>

Entry == [key : Keys, seqno : Nat, offset : Nat]

-----------------------------------------------------------------------------
Init ==
  /\ stream \in Streams
  /\ phase = "read"
  /\ offset = 0 /\ entries = <<>> /\ pos = 0
  /\ lastKey = 0          \* var lastKey [mtc.HashLen]byte
  /\ file = <<>>
  /\ needle = 0 /\ i = 0 /\ j = 0 /\ a = 0 /\ b = KeyMax
  /\ result = Nil

\* Counts assertions instead of bytes.
NextOffset_Count(key) == offset + 1

NextOffset(key) == offset + Size[key]

(* The callback given to UnmarshalAbridgedAssertions.                      *)
ReadAssertion ==
  /\ phase = "read"
  /\ Len(entries) < Len(stream)
  /\ LET key == stream[Len(entries) + 1]
     IN /\ entries' = Append(entries, [key    |-> key,
                                       seqno  |-> Len(entries),
                                       offset |-> offset])
        /\ offset' = NextOffset(key)
  /\ UNCHANGED <<stream, phase, pos, lastKey, file, searching>>

SortedByKey(s) == \A k, l \in DOMAIN s : k < l => s[k].key <= s[l].key

(* slices.SortFunc is not stable: equal keys end up in any order.          *)
Sort ==
  /\ phase = "read"
  /\ Len(entries) = Len(stream)
  /\ \E f \in Bijection(DOMAIN entries, DOMAIN entries) :
       entries' = [k \in DOMAIN entries |-> entries[f[k]]]
  /\ SortedByKey(entries')
  /\ phase' = "write"
  /\ UNCHANGED <<stream, offset, pos, lastKey, file, searching>>

\* Duplicates are written too.
IsDuplicate_Never(key) == FALSE

IsDuplicate(key) == lastKey = key

(* The loop that writes the file.                                          *)
WriteEntry ==
  /\ phase = "write"
  /\ pos < Len(entries)
  /\ LET entry == entries[pos + 1]
     IN IF IsDuplicate(entry.key)
        THEN UNCHANGED <<lastKey, file>>
        ELSE lastKey' = entry.key /\ file' = Append(file, entry)
  /\ pos' = pos + 1
  /\ UNCHANGED <<stream, phase, offset, entries, searching>>

WriteDone ==
  /\ phase = "write"
  /\ pos = Len(entries)
  /\ phase' = "ready"
  /\ UNCHANGED <<stream, building, file, searching>>

-----------------------------------------------------------------------------
CanSearch == phase \in {"ready", "found", "absent"}

(* OpenIndex leaves an empty file without a reader.                        *)
HasReader == Len(file) # 0

(* Without a reader there is nothing to find.                              *)
SearchEmpty(n) ==
  /\ CanSearch
  /\ ~HasReader
  /\ phase' = "absent"
  /\ needle' = n /\ result' = Nil
  /\ UNCHANGED <<stream, building, file, i, j, a, b>>

SearchStart(n) ==
  /\ CanSearch
  /\ HasReader
  /\ phase' = "probe"
  /\ needle' = n /\ result' = Nil
  /\ i' = 0 /\ j' = Len(file) - 1
  /\ a' = 0 /\ b' = KeyMax
  /\ UNCHANGED <<stream, building, file>>

\* Rounded up.
intGuess_RoundUp == i + ((needle - a) * (j - i) + (b - a)) \div (b - a)

(* Where the key should be if keys were spread evenly, rounded.            *)
intGuess == i + ((needle - a) * (j - i) + (b - a) \div 2) \div (b - a)

KeyAt(n) == file[n + 1].key

Found ==
  /\ phase = "probe"
  /\ KeyAt(intGuess) = needle
  /\ phase' = "found"
  /\ result' = file[intGuess + 1]
  /\ UNCHANGED <<stream, building, file, needle, i, j, a, b>>

\* The loop ends when one position is left.
Finished_Early(lo, hi) == lo >= hi

Finished(lo, hi) == lo > hi

\* The probed position stays in the interval.
Above_Inclusive(n) == n

(* The first position above n.                                             *)
Above(n) == n + 1

(* The key probed is too small.                                            *)
ProbeBelow ==
  /\ phase = "probe"
  /\ KeyAt(intGuess) < needle
  /\ a' = KeyAt(intGuess)
  /\ i' = Above(intGuess)
  /\ phase' = IF Finished(i', j) THEN "absent" ELSE "probe"
  /\ UNCHANGED <<stream, building, file, needle, j, b, result>>

\* The upper key is taken from the position after the one probed.
UpperKey_Next == IF intGuess + 1 < Len(file) THEN KeyAt(intGuess + 1) ELSE b

UpperKey == KeyAt(intGuess)

(* The key probed is too large.                                            *)
ProbeAbove ==
  /\ phase = "probe"
  /\ KeyAt(intGuess) > needle
  /\ b' = UpperKey
  /\ j' = intGuess - 1
  /\ phase' = IF Finished(i, j') THEN "absent" ELSE "probe"
  /\ UNCHANGED <<stream, building, file, needle, i, a, result>>

Compute == ReadAssertion \/ Sort \/ WriteEntry \/ WriteDone

Search == \E n \in Keys : SearchEmpty(n) \/ SearchStart(n)

Probe == Found \/ ProbeBelow \/ ProbeAbove

Next == Compute \/ Search \/ Probe

Spec == Init /\ [][Next]_vars

(* A call that has begun goes on until it returns.                         *)
Fairness == WF_vars(Compute) /\ WF_vars(Probe)

FairSpec == Spec /\ Fairness

-----------------------------------------------------------------------------
(* Properties.                                                             *)

(* Every variable has its type, and no position leaves the file by more    *)
(* than one.                                                               *)
TypeOK ==
  /\ stream \in Seq(Keys)
  /\ phase \in {"read", "write", "ready", "probe", "found", "absent"}
  /\ offset \in Nat /\ pos \in 0..Len(entries) /\ lastKey \in Keys
  /\ entries \in Seq(Entry) /\ file \in Seq(Entry)
  /\ needle \in Keys /\ i \in 0..Len(file) /\ j \in -1..Len(file)
  /\ a \in Keys /\ b \in Keys
  /\ result \in Entry \cup {Nil}

KeysOf(s) == {s[k].key : k \in DOMAIN s}

(* The entry leads to an assertion of the batch that has its key.          *)
IsEntryOf(e) == e.seqno + 1 \in DOMAIN stream /\ stream[e.seqno + 1] = e.key

(* The bytes of the abridged-assertions before assertion n.                *)
BytesBefore[n \in Nat] ==
  IF n = 0 THEN 0 ELSE Size[stream[n]] + BytesBefore[n - 1]

StrictlySorted(s) == \A k, l \in DOMAIN s : k < l => s[k].key < s[l].key

Written == phase \notin {"read", "write"}

(* ComputeIndex writes every key of the batch once, in order, with the     *)
(* number of an assertion that has it, however the duplicates were sorted. *)
(* The key 0 is never written: lastKey starts with it.                     *)
IndexExact ==
  Written => /\ StrictlySorted(file)
             /\ KeysOf(file) = Range(stream) \ {0}
             /\ \A k \in DOMAIN file : IsEntryOf(file[k])

(* The offset of an entry is where its assertion, and not another one with *)
(* the same key, begins in the abridged-assertions file.                   *)
OffsetsRight ==
  \A k \in DOMAIN file : file[k].offset = BytesBefore[file[k].seqno]

(* The loop invariant of Search: the key is not outside of [i, j].  The    *)
(* bounds a and b are the keys next to the interval, at i - 1 and j + 1,   *)
(* and strict; at an end of the file there is no such key, a is 0 or b is  *)
(* 0xff...ff, and the key may be equal to it.  This is not the invariant   *)
(* in the comment at the loop (index.go:85), that a and b are the keys at  *)
(* i and j, and a < key < b: keys increase, so a is not the key at i.      *)
Bracket ==
  phase = "probe" =>
    /\ 0 <= i /\ i <= j /\ j < Len(file)
    /\ a <= needle /\ needle <= b /\ a < b
    /\ i > 0 => a = KeyAt(i - 1) /\ a < needle
    /\ j < Len(file) - 1 => b = KeyAt(j + 1) /\ needle < b

(* Search reads inside of the interval, hence never past the file.         *)
ProbeInside == phase = "probe" => intGuess \in i..j

(* Search finds a key if and only if an assertion of the batch has it, and *)
(* then it returns such an assertion (again except for the key 0).         *)
Answer ==
  /\ phase = "found" => result.key = needle /\ IsEntryOf(result)
  /\ phase = "absent" => needle \notin Range(stream) \ {0}

(* Each probe that does not decide the search leaves fewer positions.      *)
Shrinks == [][phase = "probe" /\ phase' = "probe" => j' - i' < j - i]_vars

(* Every search returns.                                                   *)
Terminates == phase = "probe" ~> phase \in {"found", "absent"}

-----------------------------------------------------------------------------
(* The inductive invariant behind these properties.                        *)

(* While it reads, ComputeIndex has one entry per assertion, in order.     *)
EntriesRead ==
  phase = "read" =>
    /\ pos = 0 /\ lastKey = 0 /\ file = <<>>
    /\ Len(entries) <= Len(stream)
    /\ \A k \in DOMAIN entries :
         entries[k].key = stream[k] /\ entries[k].seqno = k - 1

(* Sorting keeps them all.                                                 *)
EntriesSorted ==
  phase # "read" =>
    /\ SortedByKey(entries)
    /\ KeysOf(entries) = Range(stream)
    /\ \A k \in DOMAIN entries : IsEntryOf(entries[k])

KeysSeen == {entries[k].key : k \in 1..pos}

(* The file holds the keys seen so far, the largest of which is lastKey.   *)
FileSoFar ==
  phase # "read" =>
    /\ StrictlySorted(file)
    /\ KeysOf(file) = KeysSeen \ {0}
    /\ \A k \in DOMAIN file : file[k].key <= lastKey /\ IsEntryOf(file[k])
    /\ lastKey \in KeysSeen \cup {0}
    /\ Written => pos = Len(entries)

(* An entry has its offset from the moment it is read.                     *)
OffsetsSoFar ==
  /\ phase = "read" => offset = BytesBefore[Len(entries)]
  /\ \A k \in DOMAIN entries :
       entries[k].offset = BytesBefore[entries[k].seqno]
  /\ OffsetsRight

IndInv ==
  /\ TypeOK /\ EntriesRead /\ EntriesSorted /\ FileSoFar
  /\ Bracket /\ Answer
=============================================================================
