--------------------------- MODULE MCAccountsTable ---------------------------
(* The instance of AccountsTable for TLC.                                    *)
EXTENDS AccountsTable
=============================================================================
