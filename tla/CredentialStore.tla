--------------------------- MODULE CredentialStore ---------------------------
(***************************************************************************)
(* What firmware/src/nvs_config.rs promises: one record of WiFi            *)
(* credentials that reads as a whole or not at all, even if the power goes *)
(* while it is replaced.  The old record may be lost on the way.           *)
(***************************************************************************)
CONSTANTS
    Credentials, NoCredentials,
    Reading   \* what the whole record of some credentials reads as

VARIABLES
    stored,   \* what load returns
    saving    \* the credentials save was called with, while it runs

storeVars == <<stored, saving>>

StoreInit ==
    /\ stored = NoCredentials \/ \E c \in Credentials : stored = Reading[c]
    /\ saving = NoCredentials

StartSaving ==
    /\ saving = NoCredentials
    /\ saving' \in Credentials
    /\ UNCHANGED stored

\* Seen by a load after a loss of power: nothing, or what is being saved.
Lose == saving # NoCredentials /\ stored' = NoCredentials /\ UNCHANGED saving
Keep == saving # NoCredentials /\ stored' = Reading[saving] /\ UNCHANGED saving

\* save returns Ok only once the record is there.
Finish ==
    /\ saving # NoCredentials
    /\ stored = Reading[saving]
    /\ saving' = NoCredentials
    /\ UNCHANGED stored

\* save returns Err, or the power goes.
Abandon == saving # NoCredentials /\ saving' = NoCredentials /\ UNCHANGED stored

StoreNext == StartSaving \/ Lose \/ Keep \/ Finish \/ Abandon

StoreSpec == StoreInit /\ [][StoreNext]_storeVars
=============================================================================
