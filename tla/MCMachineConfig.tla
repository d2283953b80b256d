-------------------------- MODULE MCMachineConfig --------------------------
(* The configurations of the runs. *)
EXTENDS MachineConfig, TLC

\* The files named in says hold what it says, the others are not spoken of.
Says(entries) == entries @@ NoConfig

MCConfigs ==
    { Says("hostname" :> "v" @@ "eth0" :> "v" @@ "kargs" :> "v"),
      Says("kargs" :> "w" @@ "dns" :> "v"),
      Says("eth0" :> "v" @@ "eth1" :> "bad"),
      Says("kargs" :> "v" @@ "dns" :> "bad"),
      Says("eth0" :> "v" @@ "kargs" :> "bad") }

Symmetry == Permutations(Reqs)
=============================================================================
