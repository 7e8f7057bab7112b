---------------------------- MODULE MCMigrations ----------------------------
(***************************************************************************)
(* Instances of Migrations for TLC: the migrations of internal_db.go with  *)
(* their tables.  Indexes and the trigger go with their table.             *)
(***************************************************************************)
EXTENDS Migrations, TLC

Schema ==
  << <<"users">>, <<"sessions">>, <<"settings">>, <<"file_revisions">>,
     <<"metric_names", "labels", "metric_series", "series_labels", "metric_samples">>,
     <<"monster_client_data">>, <<"map_client_data">>, <<"item_client_data">>,
     <<"server_processes">> >>

Rollbacks ==
  [Schema EXCEPT ![5] =
     <<"metric_samples", "series_labels", "metric_series", "labels", "metric_names">>]

OfUsers == {"sessions", "settings", "file_revisions", "monster_client_data",
            "map_client_data", "item_client_data"}

ForeignKeys ==
  [o \in Objects |->
     CASE o \in OfUsers        -> {"users"}
       [] o = "metric_series"  -> {"metric_names"}
       [] o = "series_labels"  -> {"metric_series", "labels"}
       [] o = "metric_samples" -> {"metric_series"}
       [] OTHER                -> {}]

Quiet == 1..4 \cup {9}

Symmetry == Permutations(Agents)
=============================================================================
