---------------------------- MODULE MCSharedRing ----------------------------
(* Small instances of SharedRing. *)
EXTENDS SharedRing, TLC

(* A generated name, a given one with and without its slash, each in a run *)
(* and in a monitor, and arguments that start nothing.                     *)
Lines == {
  <<"run", "--no-ui", "--", "target">>,
  <<"run", "--shm-name", Name(TRUE, "demo"), "--no-stack", "--", "target">>,
  <<"monitor", "--no-color">>,
  <<"monitor", "--no-ui", "--shm-name", Name(FALSE, "demo")>>,
  <<"run", "--shm-name">>,
  <<"monitor", "--main-only">>,
  <<"--help">> }

(* The run is given a name without its slash.                              *)
SlashlessLines == {<<"run", "--shm-name", Name(FALSE, "demo"), "--", "target">>}

Symmetry == Permutations(Session)
=============================================================================
