---------------------------- MODULE MCLdapResult ----------------------------
(* LdapResult for TLC. *)
EXTENDS LdapResult

MCAsked == {1, 2, RES_ANY}
MCAskedOne == {1, RES_ANY}
=============================================================================
