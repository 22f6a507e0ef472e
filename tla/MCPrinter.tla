------------------------------ MODULE MCPrinter ------------------------------
(***************************************************************************)
(* Printer with the constants its .cfg files give: which threads feed the  *)
(* printer, how many emergency stops are called for, and mailboxes of one  *)
(* command (a pool of five).                                               *)
(***************************************************************************)
EXTENDS Printer
=============================================================================
