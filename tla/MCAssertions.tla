---------------------------- MODULE MCAssertions ----------------------------
(* Assertions with small constants, for TLC.                               *)
EXTENDS Assertions

NoClaims ==
  [DNS |-> <<>>, DNSWildcard |-> <<>>, ENS |-> <<>>,
   IPv4 |-> <<>>, IPv6 |-> <<>>, Unknown |-> <<>>]

(* Names: com, b.com, a.b.com, and com with a label that is not allowed.   *)
Names == {<<1>>, <<2, 1>>, <<1, 2, 1>>, <<0, 1>>}

Pairs(S) == [1..2 -> S]

(* Lists of names and addresses in every order, with repetitions, alone    *)
(* and together with claims of other types.                                *)
MCFlagClaims ==
  {[NoClaims EXCEPT !.DNS = d] : d \in Pairs(Names)} \cup
  {[NoClaims EXCEPT !.IPv4 = ips] : ips \in {<<0>>, <<4>>} \cup [1..3 -> 1..3]} \cup
  {[NoClaims EXCEPT !.IPv6 = ips] : ips \in Pairs({1, 4})} \cup
  {[NoClaims EXCEPT !.DNS = d, !.DNSWildcard = w, !.ENS = e, !.IPv4 = ips] :
     d, w, e \in {<<>>, << <<1>> >>}, ips \in {<<>>, <<2, 1>>}}

(* What files of others may hold, in and out of order.                     *)
FileClaims ==
  LET known(type, items) == [type |-> type, items |-> items]
      unknown(type) == [type |-> type, items |-> <<>>]
  IN {<<known(EnsClaimType, << <<1>> >>), unknown(6)>>,
      <<known(DnsWildcardClaimType, << <<1>>, <<2, 1>> >>)>>,
      <<known(DnsClaimType, << <<2, 1>>, <<1>> >>)>>,
      <<unknown(6), known(Ipv4ClaimType, <<2, 1>>)>>,
      <<unknown(6), unknown(6)>>,
      <<known(Ipv4ClaimType, <<1>>), known(Ipv4ClaimType, <<2>>)>>,
      <<known(Ipv6ClaimType, <<4, 1>>), unknown(5), unknown(7)>>,
      <<known(Ipv6ClaimType, <<1, 4, 4>>)>>,
      <<known(DnsClaimType, <<>>)>>,
      <<unknown(6), known(DnsClaimType, << <<1>> >>)>>}

MCFileInputs ==
  [subject : [kind : {"tls"}, size : {2, 4}] \cup [kind : {"other"}, size : {2}],
   claims : FileClaims]

MCSubject == [kind |-> "tls", size |-> 2]
=============================================================================
