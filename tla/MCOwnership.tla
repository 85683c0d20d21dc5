----------------------------- MODULE MCOwnership -----------------------------
(* Small instances of Ownership for TLC.                                    *)
EXTENDS Ownership

\* Four processes that all live as they should, or three of which two may die.
MCBudgets == { <<4, 0>>, <<3, 2>> }
=============================================================================
