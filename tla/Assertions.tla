---------------------------- MODULE Assertions ------------------------------
(***************************************************************************)
(* An assertion on its way from the command line, or from a file, through  *)
(* the queue and into a batch, and the codec of claims that it passes      *)
(* through four times: new-assertion, ca queue, WalkQueue, and the         *)
(* abridged-assertions of the batch.  Then ca cert asks for it again.      *)
(*                                                                         *)
(* A domain name is the sequence of its labels and a label a number; 0 is  *)
(* a label that is not allowed.  An IP address is a number, those in V4    *)
(* have four bytes, and 0 is no address.  Claims on the wire are a         *)
(* sequence of [type, items]; what an unknown claim holds is left out.     *)
(* SHA-256 is injective, so that a checksum or key is what it is made of.  *)
(***************************************************************************)
EXTENDS Integers, FiniteSets, SequencesExt

CONSTANTS
  V4,          \* addresses of four bytes
  V6,          \* addresses of four or sixteen bytes
  FlagClaims,  \* claims given by flags
  FileInputs,  \* assertions in files that others wrote
  Subject,     \* the subject given by --tls-pem or --tls-der
  L16,         \* modulus of a 16-bit length (2^16 in the code)
  MaxQueued,   \* bound on the number of assertions queued
  Error,       \* what a function that fails returns
  None         \* no value

VARIABLES
  file,    \* the assertion file
  made,    \* the claims that new-assertion made it from, if it did
  sum,     \* the checksum that new-assertion printed
  queue,   \* the queue file
  asked,   \* for each record of the queue, the assertion queued
  issued,  \* the assertions that have left the queue for a batch
  index    \* the keys of the batches

vars == <<file, made, sum, queue, asked, issued, index>>

-----------------------------------------------------------------------------
(* Claims.                                                                 *)

DnsClaimType == 0
DnsWildcardClaimType == 1
EnsClaimType == 2
Ipv4ClaimType == 3
Ipv6ClaimType == 4

DomainTypes == {DnsClaimType, DnsWildcardClaimType, EnsClaimType}
IpTypes == {Ipv4ClaimType, Ipv6ClaimType}

KnownTypes == DomainTypes \cup IpTypes

(* What a claim of each type lists, and claims in memory and on the wire.  *)
Items(type) ==
  IF type \in DomainTypes THEN Seq(Seq(Nat))
  ELSE IF type \in IpTypes THEN Seq(Nat)
  ELSE {<<>>}

Claims ==
  [DNS : Seq(Seq(Nat)), DNSWildcard : Seq(Seq(Nat)), ENS : Seq(Seq(Nat)),
   IPv4 : Seq(Nat), IPv6 : Seq(Nat), Unknown : Seq(Nat)]

Wires == Seq([type : Nat, items : Seq(Nat) \cup Seq(Seq(Nat))])

IsWire(w) ==
  /\ w \in Seq(ToSet(w))
  /\ \A i \in DOMAIN w :
       w[i].type \in Nat /\ w[i] \in [type : {w[i].type}, items : Items(w[i].type)]

Subjects == [kind : STRING, size : Nat]

AbridgedSubjects == [kind : {"abridged"}, size : {1}, hash : Subjects]

(* A file may hold any subject and any claims of the right form.           *)
IsFile(w) ==
  w \in [subject : Subjects, claims : {w.claims}] /\ IsWire(w.claims)

ASSUME AssertionsAssumption ==
  /\ V4 \subseteq V6 /\ V6 \subseteq Nat \ {0}
  /\ L16 \in Nat \ {0} /\ MaxQueued \in Nat
  /\ Subject \in Subjects /\ FlagClaims \subseteq Claims
  /\ \A w \in FileInputs : IsFile(w)

ASSUME ErrorAssumption ==
  /\ Error \notin Wires /\ Error \notin Claims
  /\ Error \notin [subject : Subjects \cup AbridgedSubjects, claims : Wires \cup Claims]

Lexicographic(a, b) ==
  \/ IsStrictPrefix(a, b)
  \/ \E k \in DOMAIN a \cap DOMAIN b :
       a[k] < b[k] /\ \A j \in 1..k - 1 : a[j] = b[j]

(* Domain names are sorted hierarchically: last label first.               *)
DomainLess(d, e) == Lexicographic(Reverse(d), Reverse(e))

Less(type, x, y) == IF type \in DomainTypes THEN DomainLess(x, y) ELSE x < y

(* The checks of sortAndCheckDomainNames, and of To4 and To16.             *)
ValidItem(type, x) ==
  CASE type \in DomainTypes   -> x # <<>> /\ ~Contains(x, 0)
    [] type = Ipv4ClaimType   -> x \in V4
    [] type = Ipv6ClaimType   -> x \in V6

InOrder(type, items) ==
  \A i, j \in DOMAIN items :
    i < j => Less(type, items[i], items[j]) \/ items[i] = items[j]

Rearranged(items, p) == [i \in DOMAIN items |-> items[p[i]]]

\* Addresses are written in the order given.
Sorted_NotAddresses(type, items) ==
  IF type \in DomainTypes THEN SortSeq(items, DomainLess) ELSE items

(* sort.Slice: the items, in an order in which none comes before a lesser. *)
Sorted(type, items) ==
  Rearranged(items, CHOOSE p \in Bijection(DOMAIN items, DOMAIN items) :
                      InOrder(type, Rearranged(items, p)))

(* The field of Claims for each type that is written.                      *)
Field(c, type) ==
  CASE type = DnsClaimType         -> c.DNS
    [] type = DnsWildcardClaimType -> c.DNSWildcard
    [] type = EnsClaimType         -> c.ENS
    [] type = Ipv4ClaimType        -> c.IPv4
    [] type = Ipv6ClaimType        -> c.IPv6

(* One unit of length for every claim, and one for every item.             *)
WireLen(w) ==
  LET upTo[n \in Nat] == IF n = 0 THEN 0 ELSE 1 + Len(w[n].items) + upTo[n - 1]
  IN upTo[Len(w)]

(* What marshalDomains or marshalIPs adds.                                 *)
Written(c, type) ==
  IF Field(c, type) = <<>> THEN <<>>
  ELSE <<[type |-> type, items |-> Sorted(type, Field(c, type))]>>

Wire(c) ==
  Written(c, DnsClaimType) \o Written(c, DnsWildcardClaimType)
    \o Written(c, EnsClaimType) \o Written(c, Ipv4ClaimType)
    \o Written(c, Ipv6ClaimType)
    \o [i \in DOMAIN c.Unknown |-> [type |-> c.Unknown[i], items |-> <<>>]]

UnknownOrdered(types) ==
  \A i \in DOMAIN types :
    types[i] > IF i = 1 THEN Ipv6ClaimType ELSE types[i - 1]

(* Claims.MarshalBinary.  A length that does not fit its 16 bits is an     *)
(* error of the Builder.                                                   *)
MarshalClaims(c) ==
  IF /\ \A type \in KnownTypes : \A x \in ToSet(Field(c, type)) : ValidItem(type, x)
     /\ UnknownOrdered(c.Unknown)
     /\ WireLen(Wire(c)) < L16
  THEN Wire(c) ELSE Error

(* Each type is compared with previousType, which the first claim does not *)
(* set: it is 0 at the second.                                             *)
TypesOrdered(w) ==
  \A i \in 2..Len(w) : w[i].type > IF i = 2 THEN 0 ELSE w[i - 1].type

\* The first two addresses are compared as well.
AddressesOrdered_All(items) == \A i \in 2..Len(items) : items[i - 1] < items[i]

(* Likewise previousIp: at the second address it is nil, less than any.    *)
AddressesOrdered(items) == \A i \in 3..Len(items) : items[i - 1] < items[i]

ClaimReadable(claim) ==
  /\ claim.type \in DomainTypes =>
       /\ claim.items # <<>>
       /\ \A d \in ToSet(claim.items) : ValidItem(claim.type, d)
       /\ claim.items = Sorted(claim.type, claim.items)
  /\ claim.type \in IpTypes => claim.items # <<>> /\ AddressesOrdered(claim.items)

(* The field that a domain or address claim is read into is overwritten by *)
(* the last one.                                                           *)
LastOf(w, types) ==
  LET i == SelectLastInSeq(w, LAMBDA claim : claim.type \in types)
  IN IF i = 0 THEN <<>> ELSE w[i].items

\* The branch for ENS is missing.
TypesReadAsENS_Wildcard == {DnsWildcardClaimType}

(* The second branch repeats the condition of the first, so that wildcards *)
(* end up in ENS.                                                          *)
TypesReadAsENS == {DnsWildcardClaimType, EnsClaimType}

(* Unknown claims are collected in the order in which they are read.       *)
UnknownOf(w) ==
  LET places == {i \in DOMAIN w : w[i].type > Ipv6ClaimType}
      place(k) == CHOOSE i \in places : Cardinality({j \in places : j <= i}) = k
  IN [k \in 1..Cardinality(places) |-> w[place(k)].type]

(* Claims.UnmarshalBinary.                                                 *)
UnmarshalClaims(w) ==
  IF TypesOrdered(w) /\ \A i \in DOMAIN w : ClaimReadable(w[i])
  THEN [DNS         |-> LastOf(w, {DnsClaimType}),
        DNSWildcard |-> <<>>,
        ENS         |-> LastOf(w, TypesReadAsENS),
        IPv4        |-> LastOf(w, {Ipv4ClaimType}),
        IPv6        |-> LastOf(w, {Ipv6ClaimType}),
        Unknown     |-> UnknownOf(w)]
  ELSE Error

-----------------------------------------------------------------------------
(* Assertions, abridged or not: [subject, claims].                         *)

Marshal(a) ==
  LET claims == MarshalClaims(a.claims)
  IN IF claims = Error \/ a.subject.size >= L16 THEN Error
     ELSE [subject |-> a.subject, claims |-> claims]

(* What the subject holds is not looked at.                                *)
Unmarshal(w) ==
  LET claims == UnmarshalClaims(w.claims)
  IN IF claims = Error THEN Error ELSE [subject |-> w.subject, claims |-> claims]

(* Abridge panics for a subject that is not TLS, or that lacks fields.     *)
CanAbridge(a) == a.subject.kind = "tls"

Abridge(a) == [a EXCEPT !.subject = [kind |-> "abridged", size |-> 1, hash |-> a.subject]]

Key(aa) == Marshal(aa)

(* The checksum of an assertion, which takes one unit of length.           *)
Checksum(w) == w

ChecksumLen == 1

(* A record of the queue says how long it is in 16 bits.                   *)
Record(w) ==
  LET size == ChecksumLen + w.subject.size + WireLen(w.claims)
  IN [prefix |-> size % L16, size |-> size, checksum |-> Checksum(w), body |-> w]

(* WalkQueue gets the bytes that the prefix says, and the checksum tells   *)
(* whether they are those of the record.                                   *)
UnmarshalRecord(r) == IF r.prefix # r.size THEN Error ELSE Unmarshal(r.body)

-----------------------------------------------------------------------------
(* Commands.                                                               *)

Init ==
  /\ file = None /\ made = None /\ sum = None
  /\ queue = <<>> /\ asked = <<>>
  /\ issued = {} /\ index = {}

(* assertionFromFlags: the assertion in memory, from flags or from a file. *)
FromFlags(c) == [subject |-> Subject, claims |-> c]

(* Check: an assertion that cannot be written is refused, and so is one    *)
(* that does not have the checksum given, if any.                          *)
Check(a, checksum) ==
  /\ a # Error
  /\ Marshal(a) # Error
  /\ checksum = None \/ checksum = Checksum(Marshal(a))

handleNewAssertion(c, checksum) ==
  LET a == FromFlags(c)
  IN /\ Check(a, checksum)
     /\ file' = Marshal(a)
     /\ sum' = Checksum(Marshal(a))
     /\ made' = c
     /\ UNCHANGED <<queue, asked, issued, index>>

(* An assertion file that somebody else wrote, without a checksum.         *)
ReceiveFile(w) ==
  /\ file' = w
  /\ made' = None /\ sum' = None
  /\ UNCHANGED <<queue, asked, issued, index>>

QueueMultiple(a, checksum) ==
  /\ Cardinality(issued) + Len(queue) < MaxQueued
  /\ Check(a, checksum)
  /\ queue' = Append(queue, Record(Marshal(a)))
  /\ asked' = Append(asked, a)
  /\ UNCHANGED <<file, made, sum, issued, index>>

QueueFlags(c, checksum) == QueueMultiple(FromFlags(c), checksum)

(* --in-file.                                                              *)
QueueFile(checksum) == file # None /\ QueueMultiple(Unmarshal(file), checksum)

AbridgedWire(r) == Marshal(Abridge(UnmarshalRecord(r)))

(* issueBatchTo walks the queue and writes the abridged assertions, which  *)
(* hashLeaves and ComputeIndex decode again.                               *)
CanIssue(r) ==
  LET a == UnmarshalRecord(r)
  IN /\ a # Error /\ CanAbridge(a)
     /\ AbridgedWire(r) # Error /\ Unmarshal(AbridgedWire(r)) # Error

Issue ==
  /\ queue # <<>>
  /\ \A i \in DOMAIN queue : CanIssue(queue[i])
  /\ index' = index \cup {Key(Unmarshal(AbridgedWire(r))) : r \in ToSet(queue)}
  /\ issued' = issued \cup ToSet(asked)
  /\ queue' = <<>> /\ asked' = <<>>
  /\ UNCHANGED <<file, made, sum>>

(* --checksum is not given, or is what new-assertion printed last, perhaps *)
(* for other flags.                                                        *)
Checksums == {None, sum}

Next ==
  \/ \E c \in FlagClaims, checksum \in Checksums : handleNewAssertion(c, checksum)
  \/ \E w \in FileInputs : ReceiveFile(w)
  \/ \E c \in FlagClaims, checksum \in Checksums : QueueFlags(c, checksum)
  \/ \E checksum \in Checksums : QueueFile(checksum)
  \/ Issue

Spec == Init /\ [][Next]_vars

-----------------------------------------------------------------------------
(* Properties.                                                             *)

(* After sorting, an address comes twice, and not just in the first two    *)
(* places, which are not compared.                                         *)
RepeatsAddress(c) ==
  \E type \in IpTypes :
    LET ips == Field(c, type)
    IN \E i, j, k \in DOMAIN ips :
         /\ Cardinality({i, j, k}) = 3
         /\ ips[i] = ips[j] /\ ips[k] <= ips[i]

(* QueueMultiple accepts exactly these assertions that Issue then cannot   *)
(* take from the queue, so that it blocks all others: those whose record   *)
(* outgrows its length (ca.go:187), that repeat an address elsewhere than  *)
(* in the first two places (mtc.go:1402), or whose subject cannot be       *)
(* abridged (mtc.go:804).                                                  *)
QueueReadable ==
  \A i \in DOMAIN queue :
    LET a == asked[i]
    IN CanIssue(queue[i]) <=>
         /\ CanAbridge(a)
         /\ ~RepeatsAddress(a.claims)
         /\ ChecksumLen + a.subject.size + WireLen(Marshal(a).claims) < L16

HasWildcard(a) == a.claims.DNSWildcard # <<>>

(* ca cert finds whatever was queued and issued, asked for in the same     *)
(* way, and the certificate holds for an assertion of that key once a      *)
(* relying party has parsed it.  Wildcards are the exception.              *)
FoundAgain ==
  \A a \in issued :
    HasWildcard(a) \/ /\ Key(Abridge(a)) \in index
                      /\ Key(Abridge(Unmarshal(Marshal(a)))) \in index

(* The file that new-assertion wrote can be queued under the checksum that *)
(* it printed, however the flags were ordered, unless it has wildcards or  *)
(* repeats an address.                                                     *)
ChecksumHolds ==
  made # None /\ made.DNSWildcard = <<>> /\ ~RepeatsAddress(made) =>
    Check(Unmarshal(file), sum)

-----------------------------------------------------------------------------
(* The inductive invariant behind these properties.                        *)

(* An assertion that can be written.                                       *)
Accepted(a) == a \in [subject : Subjects, claims : Claims] /\ Marshal(a) # Error

(* The file is of the right form, and when new-assertion wrote it, it is   *)
(* what the checksum is of.                                                *)
FileRight ==
  /\ file # None => IsFile(file)
  /\ made # None =>
       /\ made \in FlagClaims
       /\ Marshal(FromFlags(made)) # Error
       /\ file = Marshal(FromFlags(made)) /\ sum = file

(* The queue has a record of each assertion that was queued.               *)
QueueRight ==
  /\ asked \in Seq([subject : Subjects, claims : Claims])
  /\ \A i \in DOMAIN asked : Accepted(asked[i])
  /\ queue = [i \in DOMAIN asked |-> Record(Marshal(asked[i]))]

(* What was issued could be, and has the key of what was read back.        *)
IssuedRight ==
  \A a \in issued :
    LET r == Record(Marshal(a))
    IN Accepted(a) /\ CanIssue(r) /\ Key(Unmarshal(AbridgedWire(r))) \in index

IndInv == FileRight /\ QueueRight /\ IssuedRight

-----------------------------------------------------------------------------
(* What a test expects, and the code does not do.                          *)

(* TestClaimsParsing: claims that are written are read back as they were.  *)
ClaimsSurvive ==
  \A i \in DOMAIN queue :
    LET a == UnmarshalRecord(queue[i])
    IN a # Error => \A type \in KnownTypes :
         Field(a.claims, type) = Sorted(type, Field(asked[i].claims, type))
=============================================================================
