---------------------------- MODULE MCMailFolder ----------------------------
(* One editor: onIdentityDelete is the second party that saves drafts.     *)
EXTENDS MailFolder

CONSTANTS e1

MCEditors == {e1}
=============================================================================
