---------------------------- MODULE MCDnsSession ----------------------------
(* The failing run of DnsSession. *)
EXTENDS DnsSession

Short == {<<3, 0>>}
=============================================================================
