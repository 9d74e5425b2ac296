------------------------- MODULE MCMailboxDelivery -------------------------
(***************************************************************************)
(* A small instance of MailboxDelivery: one message, a request that brings *)
(* it, a pump, and one listener of the thread.                             *)
(***************************************************************************)
EXTENDS MailboxDelivery

CONSTANTS request, pump, m1, l1
=============================================================================
