--------------------------- MODULE MCServiceLock ---------------------------
(***************************************************************************)
(* One acquisition, one heartbeat, one save and one lock of the host.      *)
(***************************************************************************)
EXTENDS ServiceLock

CONSTANTS acquire, refresh, save, screenLock

MCAcquisitions == {acquire}
MCRefreshes == {refresh}
MCSaves == {save}
MCMaintenance == {acquire, refresh, save}
MCExclusive == {screenLock}
=============================================================================
