-------------------------- MODULE MCLdapReferrals --------------------------
(* LdapReferrals for TLC. *)
EXTENDS LdapReferrals

CONSTANTS d, s, t

MCLists == {<<s>>, <<t, s>>}
=============================================================================
