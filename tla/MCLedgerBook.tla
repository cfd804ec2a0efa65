---------------------------- MODULE MCLedgerBook ----------------------------
(* Instances of LedgerBook for TLC.                                         *)
EXTENDS LedgerBook

(* Every account is there but one, so that a posting may name a missing one. *)
MCLedgerAccounts == (Codes \X Currencies) \ {<<"OPENING", "eur">>}

=============================================================================
