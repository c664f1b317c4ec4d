---------------------------- MODULE MCCorrelator ----------------------------
(* A chain api -> web -> db of containers, db and web of the local Docker  *)
(* and api of another node, a probe whose id is not its name, and the      *)
(* local host.                                                             *)
EXTENDS Correlator, TLC

CONSTANTS db, web, api, p, h, n_db, n_web, n_api, n_id, n_probe, n_disk, n_mem

ContainerNames == db :> n_db @@ web :> n_web @@ api :> n_api
Chain == db :> {} @@ web :> {n_db} @@ api :> {n_web}
TwoNames == db :> n_db @@ web :> n_web
TwoChain == db :> {} @@ web :> {n_db}
ProbeIDs == p :> n_id
ProbeNames == p :> n_probe
Disks == h :> n_disk
Memories == h :> n_mem
(* db may be gone from the local Docker. *)
Turn == <<{{}, {web}, {db, web}}, {{api}}>>
(* The local Docker alone, and with a probe. *)
LocalTurn == <<{{}, {db, web}}>>
ShortTurn == <<{{}, {db, web}}, {{p}}>>
=============================================================================
