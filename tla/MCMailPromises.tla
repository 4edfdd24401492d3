--------------------------- MODULE MCMailPromises ---------------------------
(* The instance of MCServeMailbox, with the memory of MailPromises. *)
EXTENDS MailPromises, MCServeMailbox
=============================================================================
