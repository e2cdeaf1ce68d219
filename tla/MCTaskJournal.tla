----------------------------- MODULE MCTaskJournal -----------------------------
(***************************************************************************)
(* A request that calls its tool at once and one whose tool waits for a    *)
(* confirmation, with one crash, shutdown, stop, change of the privacy     *)
(* mode, cancellation and tool that raises each.                           *)
(***************************************************************************)
EXTENDS TaskJournal

CONSTANTS plain, confirmed

MCRequests == {plain, confirmed}
MCConfirmed == {confirmed}
================================================================================
